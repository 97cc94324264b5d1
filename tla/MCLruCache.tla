---------------------------- MODULE MCLruCache ----------------------------
(***************************************************************************)
(* The sector cache with a history of what was used, to state what it      *)
(* holds without the order the cache itself keeps.                         *)
(***************************************************************************)
EXTENDS LruCache

VARIABLE recency   \* the blocks used since the cache was freed, the last one last

usedVars == <<entries, recency>>

UsedPlace(b) == CHOOSE i \in DOMAIN recency : recency[i] = b
Others(b) == IF b \in ToSet(recency) THEN RemoveAt(recency, UsedPlace(b)) ELSE recency
Use(b) == recency' = Append(Others(b), b)

UsedInit == LruInit /\ recency = <<>>

UsedNext ==
  \/ \E b \in Blocks : FindHit(b) /\ Use(b)
  \/ \E b \in Blocks : FindMiss(b) /\ UNCHANGED recency
  \/ \E b \in Blocks, v \in Values : AddToCache(b, v) /\ Use(b)
  \/ FreeLruCache /\ recency' = <<>>

UsedSpec == UsedInit /\ [][UsedNext]_usedVars

\* The cache holds exactly the last MaxCacheCount blocks that were added or
\* found, one entry each: add_to_cache prunes the oldest entry and
\* find_in_cache renews one.
HoldsMostRecent ==
  /\ LruTypeOK
  /\ Cached = {recency[i] : i \in {j \in DOMAIN recency : j > Len(recency) - MaxCacheCount}}
=============================================================================
