------------------------------ MODULE LruCache ------------------------------
(***************************************************************************)
(* The sector cache: LRU-cache/lru_cache.c, a hash table whose iteration   *)
(* order is the order of insertion, as sector-cache/sectorcache.c calls    *)
(* it.  The first entry is the oldest; a hit moves an entry to the end.    *)
(* The statistics it keeps belong to IoReplayStats.                        *)
(***************************************************************************)
EXTENDS Integers, SequencesExt

CONSTANTS
  Blocks,         \* I/O block numbers, the keys
  Values,         \* block contents
  MaxCacheCount   \* MAX_CACHE_COUNT

\* add_to_cache is fatal on a cache of no entry once something is added.
ASSUME LruAssumption == MaxCacheCount \in Nat \ {0}

VARIABLE entries    \* the entries in iteration order

Entry(b, v) == [key |-> b, value |-> v]
CachedIn(s) == {s[i].key : i \in DOMAIN s}
Cached == CachedIn(entries)
ValueOf(b) == (CHOOSE e \in ToSet(entries) : e.key = b).value

\* HASH_FIND_STR and HASH_DELETE: the first entry of the key is taken out.
Place(s, b) == CHOOSE i \in DOMAIN s : s[i].key = b /\ \A j \in 1..(i - 1) : s[j].key # b
Without(s, b) == IF b \in CachedIn(s) THEN RemoveAt(s, Place(s, b)) ELSE s

\* The loop at the end of add_to_cache drops the oldest entries.
Prune(s) ==
  SubSeq(s, IF Len(s) > MaxCacheCount THEN Len(s) - MaxCacheCount + 1 ELSE 1, Len(s))

-----------------------------------------------------------------------------
LruInit == entries = <<>>

\* Faulty variant: a hit leaves the entry where it is.
FindHitInPlace(b) == b \in Cached /\ UNCHANGED entries

\* find_in_cache returns ValueOf(b) on a hit, NULL on a miss.
FindHit(b) ==
  /\ b \in Cached
  /\ entries' = Append(Without(entries, b), Entry(b, ValueOf(b)))

FindMiss(b) ==
  /\ b \notin Cached
  /\ UNCHANGED entries

\* Faulty variant: the entry found is not deleted before the new one is added.
AddBeside(b, v) == entries' = Prune(Append(entries, Entry(b, v)))

\* add_to_cache: an entry found is deleted, the new one is added last and the
\* cache is pruned.
AddToCache(b, v) ==
  entries' = Prune(Append(Without(entries, b), Entry(b, v)))

\* free_lru_cache
FreeLruCache == entries' = <<>>

LruNext ==
  \/ \E b \in Blocks : FindHit(b) \/ FindMiss(b)
  \/ \E b \in Blocks, v \in Values : AddToCache(b, v)
  \/ FreeLruCache

LruSpec == LruInit /\ [][LruNext]_entries

-----------------------------------------------------------------------------
\* The type invariant, with the bound on the number of entries and that a key
\* has one of them.
LruTypeOK ==
  /\ entries \in Seq([key : Blocks, value : Values])
  /\ Len(entries) <= MaxCacheCount
  /\ \A i, j \in DOMAIN entries : entries[i].key = entries[j].key => i = j

\* The sector cache is a store that replaces the content of a block it holds
\* without evicting another.
Sectors == INSTANCE Store WITH
  Names <- Blocks, Updatable <- TRUE,
  store <- [b \in Cached |-> ValueOf(b)]
LruImplementsStore == Sectors!StoreSpec
=============================================================================
