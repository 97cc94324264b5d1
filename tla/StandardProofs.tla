--------------------------- MODULE StandardProofs ---------------------------
(***************************************************************************)
(* Theorems about the replay without deduplication and what it rests on:   *)
(* the sector cache, the simulated disk and the volumes; and about the     *)
(* threads that carry requests out.  The warm-up and the replay are never  *)
(* at work together, however long the trace, however many iterations it is *)
(* replayed and wherever a signal or a spurious wake-up comes.  The        *)
(* control blocks of the asynchronous replay are accounted for, whatever   *)
(* their number, the length of the trace, the packets of a request and the *)
(* order in which the device completes them.                               *)
(***************************************************************************)
EXTENDS MCStandardReplay, MCLruCache, ReplayThreads, AsyncReplay, HashTabProofs

-----------------------------------------------------------------------------
\* The sector cache.  What is proved of it goes by the set of its entries, of
\* which a key has one.
EntryType == [key : Blocks, value : Values]

OneEntry(s) == \A i, j \in DOMAIN s : s[i].key = s[j].key => i = j

LEMMA FirstPlace ==
  ASSUME NEW s \in Seq(EntryType), NEW b \in CachedIn(s)
  PROVE  Place(s, b) \in 1..Len(s) /\ s[Place(s, b)].key = b
<1> DEFINE T == {i \in 1..Len(s) : s[i].key = b}
<1>1. Len(s) \in Nat /\ DOMAIN s = 1..Len(s)
  BY LenProperties
<1>2. T \in SUBSET Nat /\ T # {}
  BY <1>1 DEF CachedIn
<1>3. PICK i \in T : \A j \in T : i <= j
  BY <1>2, SmallestOne
<1>4. i \in DOMAIN s /\ s[i].key = b /\ \A j \in 1..(i - 1) : s[j].key # b
  BY <1>1, <1>3
<1> QED
  BY <1>1, <1>4 DEF Place

\* The entry of a key is taken out, if there is one.
LEMMA TakenOut ==
  ASSUME NEW s \in Seq(EntryType), OneEntry(s), NEW b
  PROVE  /\ Without(s, b) \in Seq(EntryType)
         /\ OneEntry(Without(s, b))
         /\ ToSet(Without(s, b)) = {e \in ToSet(s) : e.key # b}
         /\ Len(Without(s, b)) = IF b \in CachedIn(s) THEN Len(s) - 1 ELSE Len(s)
<1>1. Len(s) \in Nat /\ DOMAIN s = 1..Len(s)
  BY LenProperties
<1>2. CASE b \notin CachedIn(s)
  BY <1>1, <1>2 DEF Without, CachedIn, ToSet
<1>3. CASE b \in CachedIn(s)
  <2> DEFINE p == Place(s, b)
             t == RemoveAt(s, p)
  <2>1. p \in 1..Len(s) /\ s[p].key = b
    BY <1>3, FirstPlace
  <2> HIDE DEF p
  <2>2. /\ t \in Seq(EntryType)
        /\ Len(t) = Len(s) - 1
        /\ \A j \in 1..(Len(s) - 1) : t[j] = s[IF j < p THEN j ELSE j + 1]
    BY <2>1, RemovedAt
  <2>3. DOMAIN t = 1..(Len(s) - 1)
    BY <2>2, LenProperties
  <2> HIDE DEF t
  <2>4. OneEntry(t)
    <3> SUFFICES ASSUME NEW i \in 1..(Len(s) - 1), NEW j \in 1..(Len(s) - 1),
                        t[i].key = t[j].key
                 PROVE  i = j
      BY <2>3 DEF OneEntry
    <3> DEFINE f(x) == IF x < p THEN x ELSE x + 1
    <3>1. f(i) \in DOMAIN s /\ f(j) \in DOMAIN s /\ s[f(i)].key = s[f(j)].key
      BY <1>1, <2>1, <2>2
    <3>2. f(i) = f(j)
      BY <3>1 DEF OneEntry
    <3> QED
      BY <1>1, <2>1, <3>2
  <2>5. ASSUME NEW e \in ToSet(t) PROVE e \in ToSet(s) /\ e.key # b
    <3>1. PICK j \in 1..(Len(s) - 1) : e = t[j]
      BY <2>3 DEF ToSet
    <3>2. PICK i \in 1..Len(s) : i # p /\ e = s[i]
      <4>1. CASE j < p
        <5>1. j \in 1..Len(s) /\ j # p /\ t[j] = s[j]
          BY <1>1, <2>1, <2>2, <4>1
        <5> QED
          BY <3>1, <5>1
      <4>2. CASE j >= p
        <5>1. j + 1 \in 1..Len(s) /\ j + 1 # p /\ t[j] = s[j + 1]
          BY <1>1, <2>1, <2>2, <4>2
        <5> QED
          BY <3>1, <5>1
      <4>3. j \in Int /\ p \in Int
        BY <1>1, <2>1
      <4> QED
        BY <4>1, <4>2, <4>3
    <3> QED
      BY <1>1, <2>1, <3>2 DEF ToSet, OneEntry
  <2>6. ASSUME NEW e \in ToSet(s), e.key # b PROVE e \in ToSet(t)
    <3>1. PICK i \in 1..Len(s) : e = s[i]
      BY <1>1 DEF ToSet
    <3>2. i # p
      BY <2>1, <2>6, <3>1
    <3> DEFINE j == IF i < p THEN i ELSE i - 1
    <3>3. j \in 1..(Len(s) - 1) /\ t[j] = e
      BY <1>1, <2>1, <2>2, <3>1, <3>2
    <3> QED
      BY <2>3, <3>3 DEF ToSet
  <2>7. Without(s, b) = t
    BY <1>3 DEF Without, t, p
  <2> QED
    BY <1>3, <2>2, <2>4, <2>5, <2>6, <2>7
<1> QED
  BY <1>2, <1>3

\* It is put last, with the value given.
LEMMA Renewed ==
  ASSUME NEW s \in Seq(EntryType), OneEntry(s), NEW b \in Blocks, NEW v \in Values
  PROVE  LET u == Append(Without(s, b), Entry(b, v)) IN
         /\ u \in Seq(EntryType)
         /\ OneEntry(u)
         /\ ToSet(u) = {e \in ToSet(s) : e.key # b} \cup {Entry(b, v)}
         /\ Len(u) = IF b \in CachedIn(s) THEN Len(s) ELSE Len(s) + 1
         /\ Len(u) > 0 /\ u[Len(u)] = Entry(b, v)
<1> DEFINE w == Without(s, b)
           n == Entry(b, v)
           u == Append(w, n)
<1>0. Len(s) \in Nat
  BY LenProperties
<1>1. /\ w \in Seq(EntryType) /\ OneEntry(w)
      /\ ToSet(w) = {e \in ToSet(s) : e.key # b}
      /\ Len(w) = IF b \in CachedIn(s) THEN Len(s) - 1 ELSE Len(s)
  BY TakenOut
<1>2. n \in EntryType /\ n.key = b
  BY DEF Entry, EntryType
<1> HIDE DEF w, n
<1>3. /\ u \in Seq(EntryType) /\ Len(u) = Len(w) + 1
      /\ \A i \in 1..Len(w) : u[i] = w[i]
      /\ u[Len(w) + 1] = n
      /\ Len(w) \in Nat /\ DOMAIN w = 1..Len(w) /\ DOMAIN u = 1..Len(u)
  BY <1>1, <1>2, AppendProperties, LenProperties
<1>4. ToSet(u) = ToSet(w) \cup {n}
  BY <1>1, <1>2, AppendedSet
<1>5. \A i \in 1..Len(w) : w[i].key # b
  BY <1>1, <1>3 DEF ToSet
<1> HIDE DEF u
<1>6. OneEntry(u)
  <2> SUFFICES ASSUME NEW i \in 1..(Len(w) + 1), NEW j \in 1..(Len(w) + 1),
                      u[i].key = u[j].key
               PROVE  i = j
    BY <1>3 DEF OneEntry
  <2>1. CASE i \in 1..Len(w) /\ j \in 1..Len(w)
    BY <1>1, <1>3, <2>1 DEF OneEntry
  <2>2. i = Len(w) + 1 <=> u[i].key = b
    BY <1>2, <1>3, <1>5
  <2>3. j = Len(w) + 1 <=> u[j].key = b
    BY <1>2, <1>3, <1>5
  <2> QED
    BY <1>3, <2>1, <2>2, <2>3
<1> QED
  BY <1>0, <1>1, <1>3, <1>4, <1>6 DEF u, w, n

\* The cache is pruned to its size, and keeps its last entries.
LEMMA Pruned ==
  ASSUME NEW s \in Seq(EntryType), OneEntry(s), Len(s) > 0
  PROVE  /\ Prune(s) \in Seq(EntryType)
         /\ OneEntry(Prune(s))
         /\ Len(Prune(s)) = IF Len(s) > MaxCacheCount THEN MaxCacheCount ELSE Len(s)
         /\ ToSet(Prune(s)) \subseteq ToSet(s)
         /\ Len(s) <= MaxCacheCount => Prune(s) = s
         /\ s[Len(s)] \in ToSet(Prune(s))
<1> DEFINE m == IF Len(s) > MaxCacheCount THEN Len(s) - MaxCacheCount + 1 ELSE 1
           t == SubSeq(s, m, Len(s))
<1>1. /\ Len(s) \in Nat /\ DOMAIN s = 1..Len(s) /\ MaxCacheCount \in Nat \ {0}
      /\ m \in 1..Len(s)
  BY LruAssumption, LenProperties
<1>2. \A i \in m..Len(s) : s[i] \in EntryType
  BY <1>1, ElementOfSeq
<1> HIDE DEF m
<1>3. /\ t \in Seq(EntryType)
      /\ Len(t) = Len(s) - m + 1
      /\ \A i \in 1..(Len(s) - m + 1) : t[i] = s[m + i - 1]
  BY <1>1, <1>2, SubSeqProperties
<1>4. DOMAIN t = 1..(Len(s) - m + 1)
  BY <1>3, LenProperties
<1>5. Len(s) <= MaxCacheCount => t = s
  <2>1. Len(s) <= MaxCacheCount => m = 1
    BY <1>1 DEF m
  <2> QED
    BY <2>1, SubSeqFull
<1> HIDE DEF t
<1>6. OneEntry(t)
  <2> SUFFICES ASSUME NEW i \in DOMAIN t, NEW j \in DOMAIN t, t[i].key = t[j].key
               PROVE  i = j
    BY DEF OneEntry
  <2>1. m + i - 1 \in DOMAIN s /\ m + j - 1 \in DOMAIN s
    BY <1>1, <1>4
  <2>2. s[m + i - 1].key = s[m + j - 1].key
    BY <1>3, <1>4
  <2>3. m + i - 1 = m + j - 1
    BY <2>1, <2>2 DEF OneEntry
  <2> QED
    BY <1>1, <1>4, <2>3
<1>7. ToSet(t) \subseteq ToSet(s)
  <2> SUFFICES ASSUME NEW i \in DOMAIN t PROVE t[i] \in ToSet(s)
    BY DEF ToSet
  <2>1. m + i - 1 \in DOMAIN s
    BY <1>1, <1>4
  <2>2. t[i] = s[m + i - 1]
    BY <1>3, <1>4
  <2> QED
    BY <2>1, <2>2 DEF ToSet
<1>8. s[Len(s)] \in ToSet(t)
  <2>1. Len(s) - m + 1 \in DOMAIN t /\ m + (Len(s) - m + 1) - 1 = Len(s)
    BY <1>1, <1>4
  <2>2. t[Len(s) - m + 1] = s[Len(s)]
    BY <1>3, <1>4, <2>1
  <2> QED
    BY <2>1, <2>2 DEF ToSet
<1>9. Prune(s) = t
  BY DEF Prune, t, m
<1>10. Len(t) = IF Len(s) > MaxCacheCount THEN MaxCacheCount ELSE Len(s)
  BY <1>1, <1>3 DEF m
<1> QED
  BY <1>3, <1>5, <1>6, <1>7, <1>8, <1>9, <1>10

\* What is stored under a key is the value of its entry.
LEMMA EntryValue ==
  ASSUME LruTypeOK, NEW e \in ToSet(entries)
  PROVE  e.key \in Cached /\ ValueOf(e.key) = e.value /\ e \in EntryType
<1>1. Len(entries) \in Nat /\ DOMAIN entries = 1..Len(entries)
  BY LenProperties DEF LruTypeOK
<1>2. PICK i \in DOMAIN entries : e = entries[i]
  BY DEF ToSet
<1>3. \A f \in ToSet(entries) : f.key = e.key => f = e
  BY <1>2 DEF LruTypeOK, ToSet
<1>4. (CHOOSE f \in ToSet(entries) : f.key = e.key) = e
  BY <1>3
<1>5. e \in EntryType
  BY <1>1, <1>2, ElementOfSeq DEF LruTypeOK, EntryType
<1> QED
  BY <1>2, <1>4, <1>5 DEF ValueOf, Cached, CachedIn

\* A block that is added is there with its value; others keep theirs or are
\* gone, and are gone only if the block was not there.
LEMMA AddedToCache ==
  ASSUME LruTypeOK, NEW b \in Blocks, NEW v \in Values, AddToCache(b, v)
  PROVE  /\ LruTypeOK'
         /\ b \in Cached' /\ ValueOf(b)' = v
         /\ Cached' \subseteq Cached \cup {b}
         /\ \A x \in Cached' : x # b => ValueOf(x)' = ValueOf(x)
         /\ b \in Cached => Cached' = Cached
<1> DEFINE u == Append(Without(entries, b), Entry(b, v))
<1>1. /\ entries \in Seq(EntryType) /\ OneEntry(entries) /\ Len(entries) \in Nat
      /\ Len(entries) <= MaxCacheCount /\ MaxCacheCount \in Nat \ {0}
  BY LruAssumption, LenProperties DEF LruTypeOK, EntryType, OneEntry
<1>2. /\ u \in Seq(EntryType) /\ OneEntry(u)
      /\ ToSet(u) = {e \in ToSet(entries) : e.key # b} \cup {Entry(b, v)}
      /\ Len(u) = IF b \in CachedIn(entries) THEN Len(entries) ELSE Len(entries) + 1
      /\ Len(u) > 0 /\ u[Len(u)] = Entry(b, v)
  BY <1>1, Renewed
<1>3. entries' = Prune(u)
  BY DEF AddToCache
<1> HIDE DEF u
<1>4. /\ entries' \in Seq(EntryType)
      /\ OneEntry(entries')
      /\ Len(entries') <= MaxCacheCount
      /\ ToSet(entries') \subseteq ToSet(u)
      /\ Len(u) <= MaxCacheCount => entries' = u
      /\ Entry(b, v) \in ToSet(entries')
  BY <1>1, <1>2, <1>3, Pruned
<1>5. LruTypeOK'
  BY <1>4 DEF LruTypeOK, EntryType, OneEntry
<1>6. \A x : x \in Cached <=> \E e \in ToSet(entries) : e.key = x
  BY DEF Cached, CachedIn, ToSet
<1>7. \A x : x \in Cached' <=> \E e \in ToSet(entries') : e.key = x
  BY DEF Cached, CachedIn, ToSet
<1>8. Entry(b, v).key = b /\ Entry(b, v).value = v
  BY DEF Entry
<1>9. \A e \in ToSet(entries) : ValueOf(e.key) = e.value
  BY EntryValue
<1>10. \A e \in ToSet(entries') : ValueOf(e.key)' = e.value
  <2> SUFFICES ASSUME NEW e \in ToSet(entries') PROVE ValueOf(e.key)' = e.value
    OBVIOUS
  <2>1. PICK i \in DOMAIN entries' : e = entries'[i]
    BY DEF ToSet
  <2>2. \A f \in ToSet(entries') : f.key = e.key => f = e
    BY <1>4, <2>1 DEF OneEntry, ToSet
  <2>3. (CHOOSE f \in ToSet(entries') : f.key = e.key) = e
    BY <2>2
  <2> QED
    BY <2>3 DEF ValueOf
<1>11. ASSUME NEW x \in Cached', x # b
       PROVE  x \in Cached /\ ValueOf(x)' = ValueOf(x)
  <2>1. PICK e \in ToSet(entries') : e.key = x
    BY <1>7, <1>11
  <2>2. e \in ToSet(entries)
    BY <1>2, <1>4, <1>8, <1>11, <2>1
  <2> QED
    BY <1>6, <1>9, <1>10, <2>1, <2>2
<1>12. b \in Cached' /\ ValueOf(b)' = v
  BY <1>4, <1>7, <1>8, <1>10
<1>13. ASSUME b \in Cached PROVE Cached' = Cached
  <2>1. entries' = u
    BY <1>1, <1>2, <1>4, <1>13 DEF Cached
  <2>2. \A x \in Cached : x # b => x \in Cached'
    BY <1>2, <1>6, <1>7, <2>1
  <2> QED
    BY <1>11, <1>12, <1>13, <2>2
<1> QED
  BY <1>5, <1>11, <1>12, <1>13

\* A block that is found is added again with the value it has.
LEMMA FoundInCache ==
  ASSUME LruTypeOK, NEW b \in Blocks, FindHit(b)
  PROVE  /\ ValueOf(b) \in Values
         /\ LruTypeOK'
         /\ Cached' = Cached
         /\ \A x \in Cached : ValueOf(x)' = ValueOf(x)
<1> DEFINE u == Append(Without(entries, b), Entry(b, ValueOf(b)))
<1>1. b \in Cached /\ entries' = u
  BY DEF FindHit
<1>2. ValueOf(b) \in Values
  <2>1. PICK i \in DOMAIN entries : entries[i].key = b
    BY <1>1 DEF Cached, CachedIn
  <2>2. entries[i] \in ToSet(entries)
    BY DEF ToSet
  <2> QED
    BY <2>1, <2>2, EntryValue DEF EntryType
<1>3. AddToCache(b, ValueOf(b))
  <2>1. /\ entries \in Seq(EntryType) /\ OneEntry(entries) /\ Len(entries) <= MaxCacheCount
    BY DEF LruTypeOK, EntryType, OneEntry
  <2>2. /\ u \in Seq(EntryType) /\ OneEntry(u)
        /\ Len(u) = Len(entries) /\ Len(u) > 0
    BY <1>1, <1>2, <2>1, Renewed DEF Cached
  <2>3. Prune(u) = u
    BY <2>1, <2>2, Pruned
  <2> QED
    BY <1>1, <2>3 DEF AddToCache
<1>4. /\ LruTypeOK' /\ Cached' = Cached
      /\ ValueOf(b)' = ValueOf(b)
      /\ \A x \in Cached' : x # b => ValueOf(x)' = ValueOf(x)
  <2>1. \A v \in Values : AddToCache(b, v) =>
          /\ LruTypeOK' /\ (b \in Cached => Cached' = Cached)
          /\ ValueOf(b)' = v
          /\ \A x \in Cached' : x # b => ValueOf(x)' = ValueOf(x)
    BY AddedToCache
  <2> QED
    BY <1>1, <1>2, <1>3, <2>1
<1> QED
  BY <1>2, <1>4

LEMMA LruInitially == LruInit => LruTypeOK /\ Cached = {}
<1> SUFFICES ASSUME LruInit PROVE LruTypeOK /\ Cached = {}
  OBVIOUS
<1>1. entries = <<>> /\ MaxCacheCount \in Nat
  BY LruAssumption DEF LruInit
<1> QED
  BY <1>1, EmptySeq DEF LruTypeOK, Cached, CachedIn

LEMMA LruStep == LruTypeOK /\ [LruNext]_entries => LruTypeOK'
<1> SUFFICES ASSUME LruTypeOK, [LruNext]_entries PROVE LruTypeOK'
  OBVIOUS
<1>1. ASSUME NEW b \in Blocks, FindHit(b) PROVE LruTypeOK'
  BY <1>1, FoundInCache
<1>2. ASSUME NEW b \in Blocks, NEW v \in Values, AddToCache(b, v) PROVE LruTypeOK'
  BY <1>2, AddedToCache
<1>3. CASE FreeLruCache
  <2>1. LruInit'
    BY <1>3 DEF FreeLruCache, LruInit
  <2>2. entries' = <<>> /\ MaxCacheCount \in Nat
    BY <2>1, LruAssumption DEF LruInit
  <2> QED
    BY <2>2, EmptySeq DEF LruTypeOK
<1>4. CASE UNCHANGED entries
  BY <1>4 DEF LruTypeOK
<1> QED
  BY <1>1, <1>2, <1>3, <1>4 DEF LruNext, FindMiss

\* The sector cache has one entry for a key and never more than its size
\* (lru_cache.c:54-171).
THEOREM LruTypeTheorem == LruSpec => []LruTypeOK
<1>1. LruInit => LruTypeOK
  BY LruInitially
<1> QED
  BY <1>1, LruStep, PTL DEF LruSpec

\* It is a store that replaces the value of a key it has without evicting
\* another: the store that the replay of each mode is modelled with.
THEOREM LruStoreTheorem == LruSpec => LruImplementsStore
<1> DEFINE held == [b \in Cached |-> ValueOf(b)]
<1>1. LruInit => Sectors!StoreInit
  BY LruInitially DEF Sectors!StoreInit
<1>2. LruTypeOK /\ [LruNext]_entries => [Sectors!StoreNext]_held
  <2> SUFFICES ASSUME LruTypeOK, [LruNext]_entries PROVE [Sectors!StoreNext]_held
    OBVIOUS
  <2>1. ASSUME NEW b \in Blocks, FindHit(b) PROVE UNCHANGED held
    BY <2>1, FoundInCache
  <2>2. ASSUME NEW b \in Blocks, NEW v \in Values, AddToCache(b, v)
        PROVE  Sectors!StoreNext
    <3>1. /\ b \in Cached' /\ ValueOf(b)' = v
          /\ Cached' \subseteq Cached \cup {b}
          /\ \A x \in Cached' : x # b => ValueOf(x)' = ValueOf(x)
          /\ b \in Cached => Cached' = Cached
      BY <2>2, AddedToCache
    <3>2. CASE b \in Cached
      <4>1. held' = [held EXCEPT ![b] = v]
        BY <3>1, <3>2
      <4> QED
        BY <3>2, <4>1 DEF Sectors!StoreNext, Sectors!Put, Sectors!Update
    <3>3. CASE b \notin Cached
      <4> DEFINE kept == Cached' \ {b}
      <4>1. /\ kept \in SUBSET DOMAIN held
            /\ held' = [m \in kept \cup {b} |-> IF m = b THEN v ELSE held[m]]
        BY <3>1
      <4>2. Sectors!Insert(b, v)
        BY <3>3, <4>1 DEF Sectors!Insert
      <4> QED
        BY <4>2 DEF Sectors!StoreNext, Sectors!Put
    <3> QED
      BY <3>2, <3>3
  <2>3. CASE FreeLruCache
    <3>1. Cached' = {}
      BY <2>3 DEF FreeLruCache, Cached, CachedIn
    <3>2. Sectors!Clear
      BY <3>1 DEF Sectors!Clear
    <3> QED
      BY <3>2 DEF Sectors!StoreNext
  <2>4. CASE UNCHANGED entries
    BY <2>4 DEF Cached, CachedIn, ValueOf
  <2> QED
    BY <2>1, <2>2, <2>3, <2>4 DEF LruNext, FindMiss
<1> QED
  BY <1>1, <1>2, LruTypeTheorem, PTL DEF LruSpec, LruImplementsStore, Sectors!StoreSpec

\* A hit is an addition of the value found.
LEMMA FoundIsAdded ==
  ASSUME LruTypeOK, NEW b \in Blocks, FindHit(b)
  PROVE  ValueOf(b) \in Values /\ AddToCache(b, ValueOf(b))
<1> DEFINE u == Append(Without(entries, b), Entry(b, ValueOf(b)))
<1>1. b \in Cached /\ entries' = u /\ ValueOf(b) \in Values
  BY FoundInCache DEF FindHit
<1>2. /\ entries \in Seq(EntryType) /\ OneEntry(entries) /\ Len(entries) <= MaxCacheCount
  BY DEF LruTypeOK, EntryType, OneEntry
<1>3. /\ u \in Seq(EntryType) /\ OneEntry(u)
      /\ Len(u) = Len(entries) /\ Len(u) > 0
  BY <1>1, <1>2, Renewed DEF Cached
<1>4. Prune(u) = u
  BY <1>2, <1>3, Pruned
<1> QED
  BY <1>1, <1>4 DEF AddToCache

\* The entries stand in the order their blocks were used in, and are the last
\* of them.
UsedInv ==
  /\ LruTypeOK
  /\ recency \in Seq(Blocks)
  /\ IsInjective(recency)
  /\ Len(entries) = IF Len(recency) < MaxCacheCount THEN Len(recency) ELSE MaxCacheCount
  /\ \A i \in 1..Len(entries) :
       entries[i].key = recency[Len(recency) - Len(entries) + i]

LEMMA UsedInvHolds == UsedInv => HoldsMostRecent
<1> SUFFICES ASSUME UsedInv PROVE HoldsMostRecent
  OBVIOUS
<1>1. PICK n \in Nat, m \in Nat :
        n = Len(entries) /\ m = Len(recency) /\ DOMAIN entries = 1..n /\ DOMAIN recency = 1..m
  BY LenProperties DEF UsedInv, LruTypeOK
<1>2. /\ n = IF m < MaxCacheCount THEN m ELSE MaxCacheCount
      /\ MaxCacheCount \in Nat
      /\ \A i \in 1..n : entries[i].key = recency[m - n + i]
  BY <1>1, LruAssumption DEF UsedInv
<1> DEFINE last == {j \in 1..m : j > m - MaxCacheCount}
<1>3. ASSUME NEW x \in Cached PROVE \E j \in last : x = recency[j]
  <2>1. PICK i \in 1..n : x = entries[i].key
    BY <1>1 DEF Cached, CachedIn
  <2>2. m - n + i \in last /\ x = recency[m - n + i]
    BY <1>2, <2>1
  <2> QED
    BY <2>2
<1>4. ASSUME NEW j \in last PROVE recency[j] \in Cached
  <2>1. j - (m - n) \in 1..n /\ m - n + (j - (m - n)) = j
    BY <1>2
  <2>2. entries[j - (m - n)].key = recency[j]
    BY <1>2, <2>1
  <2> QED
    BY <1>1, <2>1, <2>2 DEF Cached, CachedIn
<1>5. Cached = {recency[i] : i \in last}
  BY <1>3, <1>4
<1> QED
  BY <1>1, <1>5 DEF UsedInv, HoldsMostRecent

\* A block is used: it is the last one.
LEMMA UsedAgain ==
  ASSUME recency \in Seq(Blocks), IsInjective(recency), NEW b \in Blocks, Use(b),
         b \in ToSet(recency)
  PROVE  \E r \in 1..Len(recency) :
           /\ recency[r] = b
           /\ recency' \in Seq(Blocks) /\ Len(recency') = Len(recency)
           /\ \A j \in 1..(Len(recency) - 1) :
                recency'[j] = recency[IF j < r THEN j ELSE j + 1]
           /\ recency'[Len(recency)] = b
<1> DEFINE r == UsedPlace(b)
           o == RemoveAt(recency, r)
<1>1. Len(recency) \in Nat /\ DOMAIN recency = 1..Len(recency)
  BY LenProperties
<1>2. r \in 1..Len(recency) /\ recency[r] = b
  BY <1>1 DEF UsedPlace, ToSet
<1> HIDE DEF r
<1>3. /\ o \in Seq(Blocks) /\ Len(o) = Len(recency) - 1
      /\ \A j \in 1..(Len(recency) - 1) : o[j] = recency[IF j < r THEN j ELSE j + 1]
  BY <1>2, RemovedAt
<1>4. recency' = Append(o, b)
  BY DEF Use, Others, r
<1> HIDE DEF o
<1>5. /\ recency' \in Seq(Blocks) /\ Len(recency') = Len(o) + 1
      /\ \A j \in 1..Len(o) : recency'[j] = o[j]
      /\ recency'[Len(o) + 1] = b
  BY <1>3, <1>4, AppendProperties
<1>6. Len(o) + 1 = Len(recency)
  BY <1>1, <1>3
<1> QED
  BY <1>2, <1>3, <1>5, <1>6

LEMMA UsedFirst ==
  ASSUME recency \in Seq(Blocks), NEW b \in Blocks, Use(b), b \notin ToSet(recency)
  PROVE  /\ recency' \in Seq(Blocks) /\ Len(recency') = Len(recency) + 1
         /\ \A j \in 1..Len(recency) : recency'[j] = recency[j]
         /\ recency'[Len(recency) + 1] = b
BY AppendProperties DEF Use, Others

LEMMA StaysInjective ==
  ASSUME recency \in Seq(Blocks), IsInjective(recency), NEW b \in Blocks, Use(b)
  PROVE  IsInjective(recency')
<1>1. PICK m \in Nat : m = Len(recency) /\ DOMAIN recency = 1..m
  BY LenProperties
<1>2. CASE b \notin ToSet(recency)
  BY <1>2, AppendedSet DEF Use, Others
<1>3. CASE b \in ToSet(recency)
  <2>1. PICK r \in 1..m :
          /\ recency[r] = b
          /\ recency' \in Seq(Blocks) /\ Len(recency') = m
          /\ \A j \in 1..(m - 1) : recency'[j] = recency[IF j < r THEN j ELSE j + 1]
          /\ recency'[m] = b
    BY <1>1, <1>3, UsedAgain
  <2>2. DOMAIN recency' = 1..m
    BY <2>1, LenProperties
  <2> DEFINE f(j) == IF j = m THEN r ELSE IF j < r THEN j ELSE j + 1
  <2>3. \A j \in 1..m : f(j) \in 1..m /\ recency'[j] = recency[f(j)]
    BY <1>1, <2>1
  <2>4. \A i, j \in 1..m : f(i) = f(j) => i = j
    BY <1>1
  <2> HIDE DEF f
  <2> QED
    BY <1>1, <2>2, <2>3, <2>4 DEF IsInjective
<1> QED
  BY <1>2, <1>3

\* What an addition leaves, entry by entry.
LEMMA AddedInOrder ==
  ASSUME LruTypeOK, NEW b \in Blocks, NEW v \in Values, AddToCache(b, v),
         NEW n \in Nat, n = Len(entries)
  PROVE  /\ b \in Cached => \E e \in 1..n :
              /\ entries[e].key = b
              /\ Len(entries') = n
              /\ \A i \in 1..(n - 1) : entries'[i] = entries[IF i < e THEN i ELSE i + 1]
              /\ entries'[n].key = b
         /\ b \notin Cached /\ n < MaxCacheCount =>
              /\ Len(entries') = n + 1
              /\ \A i \in 1..n : entries'[i] = entries[i]
              /\ entries'[n + 1].key = b
         /\ b \notin Cached /\ n = MaxCacheCount =>
              /\ Len(entries') = n
              /\ \A i \in 1..(n - 1) : entries'[i] = entries[i + 1]
              /\ entries'[n].key = b
<1> DEFINE w == Without(entries, b)
           z == Entry(b, v)
           u == Append(w, z)
<1>1. /\ entries \in Seq(EntryType) /\ OneEntry(entries) /\ DOMAIN entries = 1..n
      /\ n <= MaxCacheCount /\ MaxCacheCount \in Nat \ {0}
  BY LruAssumption, LenProperties DEF LruTypeOK, EntryType, OneEntry
<1>2. z \in EntryType /\ z.key = b
  BY DEF Entry, EntryType
<1>3. w \in Seq(EntryType) /\ Len(w) = IF b \in Cached THEN n - 1 ELSE n
  BY <1>1, TakenOut DEF Cached
<1>4. b \notin Cached => w = entries
  BY DEF Without, Cached
<1>5. b \in Cached => \E e \in 1..n :
        /\ entries[e].key = b
        /\ \A i \in 1..(n - 1) : w[i] = entries[IF i < e THEN i ELSE i + 1]
  <2> SUFFICES ASSUME b \in Cached
               PROVE  \E e \in 1..n :
                        /\ entries[e].key = b
                        /\ \A i \in 1..(n - 1) : w[i] = entries[IF i < e THEN i ELSE i + 1]
    OBVIOUS
  <2>1. Place(entries, b) \in 1..n /\ entries[Place(entries, b)].key = b
    BY <1>1, FirstPlace DEF Cached
  <2>2. w = RemoveAt(entries, Place(entries, b))
    BY DEF Without, Cached
  <2>3. PICK e \in 1..n : e = Place(entries, b)
    BY <2>1
  <2>4. \A i \in 1..(n - 1) : w[i] = entries[IF i < e THEN i ELSE i + 1]
    BY <1>1, <2>2, <2>3, RemovedAt
  <2> QED
    BY <2>1, <2>3, <2>4
<1>6. PICK l \in Nat : l = Len(w)
  BY <1>3, LenProperties
<1> HIDE DEF w, z
<1>7. /\ u \in Seq(EntryType) /\ Len(u) = l + 1
      /\ \A i \in 1..l : u[i] = w[i]
      /\ u[l + 1] = z
  BY <1>2, <1>3, <1>6, AppendProperties
<1>8. entries' = Prune(u)
  BY DEF AddToCache, w, z
<1> HIDE DEF u
<1>9. CASE l + 1 <= MaxCacheCount
  <2>1. Prune(u) = u
    <3>1. ~(Len(u) > MaxCacheCount)
      BY <1>1, <1>7, <1>9
    <3>2. Prune(u) = SubSeq(u, 1, Len(u))
      BY <3>1 DEF Prune
    <3> QED
      BY <1>7, <3>2, SubSeqFull
  <2>2. /\ Len(entries') = l + 1
        /\ \A i \in 1..l : entries'[i] = w[i]
        /\ entries'[l + 1].key = b
    BY <1>2, <1>7, <1>8, <2>1
  <2>3. CASE b \in Cached
    <3>1. l = n - 1 /\ l + 1 = n
      BY <1>3, <1>6, <2>3
    <3> QED
      BY <1>5, <2>2, <2>3, <3>1
  <2>4. CASE b \notin Cached
    <3>1. l = n /\ w = entries /\ n # MaxCacheCount
      BY <1>1, <1>3, <1>4, <1>6, <1>9, <2>4
    <3> QED
      BY <2>2, <2>4, <3>1
  <2> QED
    BY <2>3, <2>4
<1>10. CASE l + 1 > MaxCacheCount
  <2>1. b \notin Cached /\ l = n /\ n = MaxCacheCount /\ w = entries /\ n > 0
    BY <1>1, <1>3, <1>4, <1>6, <1>10
  <2>2. Prune(u) = SubSeq(u, 2, n + 1)
    <3>1. Len(u) = n + 1 /\ Len(u) > MaxCacheCount /\ Len(u) - MaxCacheCount + 1 = 2
      BY <1>7, <2>1
    <3> QED
      BY <3>1 DEF Prune
  <2>3. \A i \in 2..(n + 1) : u[i] \in EntryType
    BY <1>7, <2>1, ElementOfSeq
  <2>4. /\ Len(entries') = n
        /\ \A i \in 1..n : entries'[i] = u[i + 1]
    <3>1. /\ Len(SubSeq(u, 2, n + 1)) = n + 1 - 2 + 1
          /\ \A i \in 1..(n + 1 - 2 + 1) : SubSeq(u, 2, n + 1)[i] = u[2 + i - 1]
      BY <2>1, <2>3, SubSeqProperties
    <3> QED
      BY <1>8, <2>1, <2>2, <3>1
  <2>5. entries'[n].key = b /\ \A i \in 1..(n - 1) : entries'[i] = entries[i + 1]
    <3>1. n \in 1..n
      BY <1>2, <2>1
    <3>2. entries'[n] = u[n + 1]
      BY <2>4, <3>1
    <3>3. ASSUME NEW i \in 1..(n - 1) PROVE entries'[i] = entries[i + 1]
      <4>1. i \in 1..n /\ i + 1 \in 1..n
        BY <2>1
      <4> QED
        BY <1>7, <2>1, <2>4, <4>1
    <3> QED
      BY <1>2, <1>7, <2>1, <3>2, <3>3
  <2>6. Len(entries') = n
    BY <2>4
  <2>7. n \in Nat /\ ~(n < MaxCacheCount)
    BY <1>1, <2>1
  <2> QED
    BY <2>1, <2>5, <2>6, <2>7, Zenon
<1> QED
  BY <1>1, <1>9, <1>10

LEMMA UsedStep ==
  ASSUME UsedInv, NEW b \in Blocks, NEW v \in Values, AddToCache(b, v), Use(b)
  PROVE  UsedInv'
<1>1. /\ recency \in Seq(Blocks) /\ IsInjective(recency) /\ LruTypeOK
  BY DEF UsedInv
<1>2. PICK n \in Nat, m \in Nat, c \in Nat \ {0} :
        /\ n = Len(entries) /\ m = Len(recency) /\ c = MaxCacheCount
        /\ DOMAIN entries = 1..n /\ DOMAIN recency = 1..m
  BY <1>1, LenProperties, LruAssumption DEF LruTypeOK
<1>3. /\ n = IF m < c THEN m ELSE c
      /\ \A i \in 1..n : entries[i].key = recency[m - n + i]
      /\ \A i, j \in 1..m : recency[i] = recency[j] => i = j
  BY <1>2 DEF UsedInv, IsInjective
<1>4. LruTypeOK' /\ IsInjective(recency')
  BY <1>1, AddedToCache, StaysInjective
<1>5. /\ b \in Cached => \E e \in 1..n :
           /\ entries[e].key = b
           /\ Len(entries') = n
           /\ \A i \in 1..(n - 1) : entries'[i] = entries[IF i < e THEN i ELSE i + 1]
           /\ entries'[n].key = b
      /\ b \notin Cached /\ n < c =>
           /\ Len(entries') = n + 1
           /\ \A i \in 1..n : entries'[i] = entries[i]
           /\ entries'[n + 1].key = b
      /\ b \notin Cached /\ n = c =>
           /\ Len(entries') = n
           /\ \A i \in 1..(n - 1) : entries'[i] = entries[i + 1]
           /\ entries'[n].key = b
  BY <1>1, <1>2, AddedInOrder
<1>6. b \in ToSet(recency) => \E r \in 1..m :
        /\ recency[r] = b
        /\ recency' \in Seq(Blocks) /\ Len(recency') = m
        /\ \A j \in 1..(m - 1) : recency'[j] = recency[IF j < r THEN j ELSE j + 1]
        /\ recency'[m] = b
  BY <1>1, <1>2, UsedAgain
<1>7. b \notin ToSet(recency) =>
        /\ recency' \in Seq(Blocks) /\ Len(recency') = m + 1
        /\ \A j \in 1..m : recency'[j] = recency[j]
        /\ recency'[m + 1] = b
  BY <1>1, <1>2, UsedFirst
<1> SUFFICES /\ recency' \in Seq(Blocks)
             /\ Len(entries') = IF Len(recency') < c THEN Len(recency') ELSE c
             /\ \A i \in 1..Len(entries') :
                  entries'[i].key = recency'[Len(recency') - Len(entries') + i]
  BY <1>2, <1>4 DEF UsedInv
<1>8. CASE b \in Cached
  <2>1. PICK e \in 1..n :
           /\ entries[e].key = b
           /\ Len(entries') = n
           /\ \A i \in 1..(n - 1) : entries'[i] = entries[IF i < e THEN i ELSE i + 1]
           /\ entries'[n].key = b
    BY <1>5, <1>8
  <2>2. m - n + e \in 1..m /\ recency[m - n + e] = b /\ m - n \in Nat
    BY <1>3, <2>1
  <2>3. b \in ToSet(recency)
    BY <1>2, <2>2 DEF ToSet
  <2>4. PICK r \in 1..m :
        /\ recency[r] = b
        /\ recency' \in Seq(Blocks) /\ Len(recency') = m
        /\ \A j \in 1..(m - 1) : recency'[j] = recency[IF j < r THEN j ELSE j + 1]
        /\ recency'[m] = b
    BY <1>6, <2>3
  <2>5. r = m - n + e
    BY <1>3, <2>2, <2>4
  <2>6. ASSUME NEW i \in 1..n PROVE entries'[i].key = recency'[m - n + i]
    <3>1. CASE i = n
      <4>1. m - n + i = m
        BY <3>1
      <4> QED
        BY <2>1, <2>4, <3>1, <4>1
    <3>2. CASE i # n
      <4>1. i \in 1..(n - 1) /\ m - n + i \in 1..(m - 1)
        BY <2>2, <3>2
      <4>2. CASE i < e
        <5>1. entries'[i] = entries[i]
          BY <2>1, <2>4, <4>1, <4>2
        <5>2. m - n + i < r
          BY <2>5, <4>2
        <5>3. recency'[m - n + i] = recency[m - n + i]
          BY <2>4, <4>1, <5>2
        <5> QED
          BY <1>3, <5>1, <5>3
      <4>3. CASE ~(i < e)
        <5>1. /\ entries'[i] = entries[i + 1] /\ recency'[m - n + i] = recency[m - n + i + 1]
              /\ i + 1 \in 1..n /\ m - n + (i + 1) = m - n + i + 1
          BY <2>1, <2>4, <2>5, <4>1, <4>3
        <5> QED
          BY <1>3, <5>1
      <4> QED
        BY <4>2, <4>3
    <3> QED
      BY <3>1, <3>2
  <2> QED
    BY <1>3, <2>1, <2>4, <2>6
<1>9. CASE b \notin Cached /\ b \in ToSet(recency)
  <2>1. PICK r \in 1..m :
        /\ recency[r] = b
        /\ recency' \in Seq(Blocks) /\ Len(recency') = m
        /\ \A j \in 1..(m - 1) : recency'[j] = recency[IF j < r THEN j ELSE j + 1]
        /\ recency'[m] = b
    BY <1>6, <1>9
  <2>2. ~(r > m - n)
    <3> SUFFICES ASSUME r > m - n PROVE FALSE
      OBVIOUS
    <3>1. r - (m - n) \in 1..n /\ m - n + (r - (m - n)) = r
      BY <1>3
    <3>2. entries[r - (m - n)].key = b
      BY <1>3, <2>1, <3>1
    <3> QED
      BY <1>2, <1>9, <3>1, <3>2 DEF Cached, CachedIn
  <2>3. n = c /\ r <= m - n /\ m >= c
    BY <1>3, <2>2
  <2>4. /\ Len(entries') = n
        /\ \A i \in 1..(n - 1) : entries'[i] = entries[i + 1]
        /\ entries'[n].key = b
    BY <1>5, <1>9, <2>3
  <2>5. ASSUME NEW i \in 1..n PROVE entries'[i].key = recency'[m - n + i]
    <3>1. CASE i = n
      <4>1. m - n + i = m
        BY <3>1
      <4> QED
        BY <2>1, <2>4, <3>1, <4>1
    <3>2. CASE i # n
      <4>1. /\ i \in 1..(n - 1) /\ m - n + i \in 1..(m - 1) /\ ~(m - n + i < r)
            /\ i + 1 \in 1..n /\ m - n + (i + 1) = m - n + i + 1
        BY <2>3, <3>2
      <4>2. entries'[i] = entries[i + 1] /\ recency'[m - n + i] = recency[m - n + i + 1]
        BY <2>1, <2>4, <4>1
      <4> QED
        BY <1>3, <4>1, <4>2
    <3> QED
      BY <3>1, <3>2
  <2> QED
    BY <2>1, <2>3, <2>4, <2>5
<1>10. CASE b \notin Cached /\ b \notin ToSet(recency)
  <2>1. /\ recency' \in Seq(Blocks) /\ Len(recency') = m + 1
        /\ \A j \in 1..m : recency'[j] = recency[j]
        /\ recency'[m + 1] = b
    BY <1>7, <1>10
  <2>2. CASE n < c
    <3>1. /\ Len(entries') = n + 1
          /\ \A i \in 1..n : entries'[i] = entries[i]
          /\ entries'[n + 1].key = b
          /\ m = n
      BY <1>3, <1>5, <1>10, <2>2
    <3>2. ASSUME NEW i \in 1..(n + 1) PROVE entries'[i].key = recency'[i]
      <4>1. CASE i = n + 1
        BY <2>1, <3>1, <4>1
      <4>2. CASE i # n + 1
        <5>1. i \in 1..n /\ i \in 1..m /\ m - n + i = i
          BY <3>1, <4>2
        <5> QED
          BY <1>3, <2>1, <3>1, <5>1
      <4> QED
        BY <4>1, <4>2
    <3>3. \A i \in 1..(n + 1) : m + 1 - (n + 1) + i = i
      BY <3>1
    <3>4. n + 1 = IF m + 1 < c THEN m + 1 ELSE c
      BY <2>2, <3>1
    <3>5. \A i \in 1..(n + 1) : entries'[i].key = recency'[m + 1 - (n + 1) + i]
      BY <3>2, <3>3
    <3>6. Len(entries') = n + 1
      BY <3>1
    <3> QED
      <4>1. Len(recency') = m + 1
        BY <2>1
      <4>2. Len(entries') = IF Len(recency') < c THEN Len(recency') ELSE c
        BY <3>4, <3>6, <4>1, Zenon
      <4>3. ASSUME NEW i \in 1..Len(entries')
            PROVE  entries'[i].key = recency'[Len(recency') - Len(entries') + i]
        <5>1. i \in 1..(n + 1)
          BY <3>6
        <5>2. entries'[i].key = recency'[m + 1 - (n + 1) + i]
          BY <3>5, <5>1
        <5>3. Len(recency') - Len(entries') + i = m + 1 - (n + 1) + i
          BY <3>6, <4>1
        <5> QED
          BY <5>2, <5>3
      <4> QED
        BY <2>1, <4>2, <4>3
  <2>3. CASE ~(n < c)
    <3>1. n = c /\ m >= c
      BY <1>3, <2>3
    <3>2. /\ Len(entries') = n
          /\ \A i \in 1..(n - 1) : entries'[i] = entries[i + 1]
          /\ entries'[n].key = b
      BY <1>5, <1>10, <3>1
    <3>3. ASSUME NEW i \in 1..n PROVE entries'[i].key = recency'[m + 1 - n + i]
      <4>1. CASE i = n
        <5>1. m + 1 - n + i = m + 1
          BY <4>1
        <5> QED
          BY <2>1, <3>2, <4>1, <5>1
      <4>2. CASE i # n
        <5>1. /\ i \in 1..(n - 1) /\ i + 1 \in 1..n /\ m + 1 - n + i \in 1..m
              /\ m - n + (i + 1) = m + 1 - n + i
          BY <3>1, <4>2
        <5>2. entries'[i] = entries[i + 1] /\ recency'[m + 1 - n + i] = recency[m + 1 - n + i]
          BY <2>1, <3>2, <5>1
        <5> QED
          BY <1>3, <5>1, <5>2
      <4> QED
        BY <4>1, <4>2
    <3>4. n = IF m + 1 < c THEN m + 1 ELSE c
      BY <3>1
    <3>5. Len(entries') = n
      BY <3>2
    <3> QED
      BY <2>1, <3>3, <3>4, <3>5
  <2> QED
    BY <2>2, <2>3
<1> QED
  BY <1>8, <1>9, <1>10

\* The sector cache holds the blocks that were used last, up to its size
\* (lru_cache.c:70-130).
THEOREM RecencyTheorem == UsedSpec => []HoldsMostRecent
<1>1. UsedInit => UsedInv
  <2> SUFFICES ASSUME UsedInit PROVE UsedInv
    OBVIOUS
  <2>1. entries = <<>> /\ recency = <<>> /\ LruTypeOK /\ MaxCacheCount \in Nat \ {0}
    BY LruInitially, LruAssumption DEF UsedInit, LruInit
  <2>2. Len(entries) = 0 /\ Len(recency) = 0 /\ recency \in Seq(Blocks) /\ DOMAIN recency = {}
    BY <2>1, EmptySeq
  <2>3. IsInjective(recency)
    BY <2>2 DEF IsInjective
  <2> QED
    BY <2>1, <2>2, <2>3 DEF UsedInv
<1>2. UsedInv /\ [UsedNext]_usedVars => UsedInv'
  <2> SUFFICES ASSUME UsedInv, [UsedNext]_usedVars PROVE UsedInv'
    OBVIOUS
  <2>1. ASSUME NEW b \in Blocks, FindHit(b), Use(b) PROVE UsedInv'
    BY <2>1, FoundIsAdded, UsedStep DEF UsedInv
  <2>2. ASSUME NEW b \in Blocks, NEW v \in Values, AddToCache(b, v), Use(b) PROVE UsedInv'
    BY <2>2, UsedStep
  <2>3. CASE FreeLruCache /\ recency' = <<>>
    <3>1. entries' = <<>> /\ recency' = <<>> /\ MaxCacheCount \in Nat \ {0}
      BY <2>3, LruAssumption DEF FreeLruCache
    <3>2. /\ Len(entries') = 0 /\ Len(recency') = 0 /\ recency' \in Seq(Blocks)
          /\ DOMAIN recency' = {} /\ DOMAIN entries' = {}
      BY <3>1, EmptySeq
    <3>3. IsInjective(recency')
      BY <3>2 DEF IsInjective
    <3>4. LruTypeOK'
      BY <3>1, <3>2, EmptySeq DEF LruTypeOK
    <3> QED
      BY <3>1, <3>2, <3>3, <3>4 DEF UsedInv
  <2>4. CASE UNCHANGED usedVars
    BY <2>4 DEF UsedInv, LruTypeOK, usedVars
  <2>5. ASSUME NEW b \in Blocks, FindMiss(b), UNCHANGED recency PROVE UNCHANGED usedVars
    BY <2>5 DEF FindMiss, usedVars
  <2> QED
    BY <2>1, <2>2, <2>3, <2>4, <2>5 DEF UsedNext
<1> QED
  BY <1>1, <1>2, UsedInvHolds, PTL DEF UsedSpec

-----------------------------------------------------------------------------
\* The keys of the simulated disk.  The digits of a number are defined by
\* recursion, which is unrolled by hand: the digits of the numbers up to n are
\* given by one function, and the functions for different n agree.
DigitStep(f, n) == IF n < 10 THEN <<n>> ELSE Append(f[n \div 10], n % 10)
DigitsUpTo(n, f) ==
  DOMAIN f = 0..n /\ \A m \in 0..n : f[m] = DigitStep(f, m)

LEMMA DivTen == \A n \in Nat : n >= 10 =>
  n \div 10 \in Nat /\ n \div 10 < n /\ n % 10 \in 0..9 /\ n = 10 * (n \div 10) + (n % 10)
OBVIOUS

LEMMA DigitsAgree ==
  ASSUME NEW n1 \in Nat, NEW n2 \in Nat, NEW f, NEW g,
         DigitsUpTo(n1, f), DigitsUpTo(n2, g)
  PROVE  \A m \in Nat : m <= n1 /\ m <= n2 => f[m] = g[m]
<1> DEFINE T == {m \in Nat : m <= n1 /\ m <= n2 /\ f[m] # g[m]}
<1> SUFFICES ASSUME T # {} PROVE FALSE
  OBVIOUS
<1>1. PICK m \in T : \A j \in T : m <= j
  BY SmallestOne
<1>2. f[m] = DigitStep(f, m) /\ g[m] = DigitStep(g, m)
  BY <1>1 DEF DigitsUpTo
<1>3. CASE m < 10
  BY <1>1, <1>2, <1>3 DEF DigitStep
<1>4. CASE m >= 10
  <2> DEFINE d == m \div 10
  <2>1. d \in Nat /\ d < m
    BY <1>1, <1>4, DivTen
  <2>2. f[d] = g[d]
    BY <1>1, <2>1
  <2> QED
    BY <1>1, <1>2, <1>4, <2>2 DEF DigitStep
<1> QED
  BY <1>1, <1>3, <1>4

LEMMA DigitsExist == \A n \in Nat : \E f : DigitsUpTo(n, f)
<1> DEFINE T == {n \in Nat : ~\E f : DigitsUpTo(n, f)}
<1> SUFFICES ASSUME T # {} PROVE FALSE
  OBVIOUS
<1>1. PICK n \in T : \A j \in T : n <= j
  BY SmallestOne
<1>2. CASE n = 0
  <2> DEFINE f == [m \in 0..0 |-> <<m>>]
  <2>1. DigitsUpTo(0, f)
    BY DEF DigitsUpTo, DigitStep
  <2> QED
    BY <1>1, <1>2, <2>1
<1>3. CASE n > 0
  <2>1. n - 1 \in Nat /\ n - 1 \notin T
    BY <1>1, <1>3
  <2>2. PICK f : DigitsUpTo(n - 1, f)
    BY <2>1
  <2> DEFINE g == [m \in 0..n |-> IF m = n THEN DigitStep(f, n) ELSE f[m]]
  <2>3. ASSUME NEW m \in 0..n PROVE g[m] = DigitStep(f, m)
    BY <2>2, <2>3, <1>1 DEF DigitsUpTo
  <2>4. ASSUME NEW m \in 0..n PROVE DigitStep(g, m) = DigitStep(f, m)
    <3>1. CASE m < 10
      BY <3>1 DEF DigitStep
    <3>2. CASE m >= 10
      <4> DEFINE d == m \div 10
      <4>1. d \in Nat /\ d < m
        BY <3>2, DivTen
      <4>2. d \in 0..n /\ d # n
        BY <4>1, <1>1
      <4>3. g[d] = f[d]
        BY <4>2
      <4> QED
        BY <3>2, <4>3 DEF DigitStep
    <3> QED
      BY <3>1, <3>2
  <2>5. DigitsUpTo(n, g)
    BY <2>3, <2>4 DEF DigitsUpTo
  <2> QED
    BY <1>1, <2>5
<1> QED
  BY <1>1, <1>2, <1>3

LEMMA DigitsAre == \A n \in Nat : Digits[n] = DigitStep(Digits, n)
<1> DEFINE upTo(n) == CHOOSE f : DigitsUpTo(n, f)
           F == [n \in Nat |-> upTo(n)[n]]
<1>1. \A n \in Nat : DigitsUpTo(n, upTo(n))
  BY DigitsExist
<1> HIDE DEF upTo
<1>2. ASSUME NEW n \in Nat PROVE F[n] = DigitStep(F, n)
  <2>1. upTo(n)[n] = DigitStep(upTo(n), n)
    BY <1>1 DEF DigitsUpTo
  <2>2. CASE n < 10
    BY <2>1, <2>2 DEF DigitStep
  <2>3. CASE n >= 10
    <3> DEFINE d == n \div 10
    <3>1. d \in Nat /\ d < n
      BY <2>3, DivTen
    <3>2. upTo(n)[d] = upTo(d)[d]
      BY <1>1, <3>1, DigitsAgree
    <3> QED
      BY <2>1, <2>3, <3>1, <3>2 DEF DigitStep
  <2> QED
    BY <2>2, <2>3
<1>3. F = [n \in Nat |-> IF n < 10 THEN <<n>> ELSE Append(F[n \div 10], n % 10)]
  BY <1>2 DEF DigitStep
<1> HIDE DEF F
<1>4. Digits = [n \in Nat |-> IF n < 10 THEN <<n>> ELSE Append(Digits[n \div 10], n % 10)]
  BY <1>3 DEF Digits
<1> QED
  BY <1>4 DEF DigitStep

LEMMA DigitsOfSmall == \A n \in Nat : n < 10 => Digits[n] = <<n>>
<1> SUFFICES ASSUME NEW n \in Nat, n < 10 PROVE Digits[n] = <<n>>
  OBVIOUS
<1>1. Digits[n] = DigitStep(Digits, n)
  BY DigitsAre
<1> QED
  BY <1>1 DEF DigitStep

LEMMA DigitsOfLarge == \A n \in Nat : n >= 10 => Digits[n] = Append(Digits[n \div 10], n % 10)
<1> SUFFICES ASSUME NEW n \in Nat, n >= 10
             PROVE  Digits[n] = Append(Digits[n \div 10], n % 10)
  OBVIOUS
<1>1. Digits[n] = DigitStep(Digits, n)
  BY DigitsAre
<1> QED
  BY <1>1 DEF DigitStep

LEMMA DigitsType == \A n \in Nat : Digits[n] \in Seq(0..9) /\ Len(Digits[n]) > 0
<1> DEFINE T == {n \in Nat : ~(Digits[n] \in Seq(0..9) /\ Len(Digits[n]) > 0)}
<1> SUFFICES ASSUME T # {} PROVE FALSE
  OBVIOUS
<1>1. PICK n \in T : \A j \in T : n <= j
  BY SmallestOne
<1>2. CASE n < 10
  <2>1. Digits[n] = <<n>> /\ n \in 0..9
    BY <1>1, <1>2, DigitsOfSmall
  <2>2. <<n>> \in Seq(0..9) /\ Len(<<n>>) > 0
    BY <2>1
  <2> QED
    BY <2>1, <2>2
<1>3. CASE n >= 10
  <2> DEFINE d == n \div 10
             r == n % 10
  <2>1. d \in Nat /\ d < n /\ r \in 0..9
    BY <1>1, <1>3, DivTen
  <2>2. Digits[n] = Append(Digits[d], r)
    BY <1>1, <1>3, DigitsOfLarge
  <2>3. Digits[d] \in Seq(0..9)
    BY <1>1, <2>1
  <2> HIDE DEF d, r
  <2>4. Append(Digits[d], r) \in Seq(0..9) /\ Len(Append(Digits[d], r)) = Len(Digits[d]) + 1
    BY <2>1, <2>3, AppendProperties
  <2>5. Len(Digits[d]) \in Nat
    BY <2>3, LenProperties
  <2>6. Digits[n] \in Seq(0..9) /\ Len(Digits[n]) > 0
    <3>1. Len(Append(Digits[d], r)) > 0
      BY <2>4, <2>5
    <3> QED
      BY <2>2, <2>4, <3>1
  <2> QED
    BY <2>6
<1> QED
  BY <1>1, <1>2, <1>3

LEMMA DigitsCount == \A n \in Nat : n < 10 <=> Len(Digits[n]) = 1
<1> SUFFICES ASSUME NEW n \in Nat PROVE n < 10 <=> Len(Digits[n]) = 1
  OBVIOUS
<1>1. CASE n < 10
  <2>1. Digits[n] = <<n>>
    BY <1>1, DigitsOfSmall
  <2> QED
    BY <1>1, <2>1
<1>2. CASE n >= 10
  <2> DEFINE s == Digits[n \div 10]
             r == n % 10
  <2>1. s \in Seq(0..9) /\ Len(s) > 0 /\ r \in 0..9 /\ Digits[n] = Append(s, r)
    BY <1>2, DivTen, DigitsType, DigitsOfLarge
  <2> HIDE DEF s, r
  <2>2. Len(Append(s, r)) = Len(s) + 1 /\ Len(s) \in Nat
    BY <2>1, AppendProperties, LenProperties
  <2>3. Len(Digits[n]) # 1
    BY <2>1, <2>2
  <2> QED
    BY <1>2, <2>3
<1> QED
  BY <1>1, <1>2

\* Different numbers have different digits.
LEMMA DigitsApart == \A m, n \in Nat : Digits[m] = Digits[n] => m = n
<1> DEFINE T == {m \in Nat : \E n \in Nat : Digits[m] = Digits[n] /\ m # n}
<1> SUFFICES ASSUME T # {} PROVE FALSE
  OBVIOUS
<1>1. PICK m \in T : \A j \in T : m <= j
  BY SmallestOne
<1>2. PICK n \in Nat : Digits[m] = Digits[n] /\ m # n
  BY <1>1
<1>4. ASSUME NEW x \in Nat, x >= 10
      PROVE  \E d \in Nat, r \in 0..9 :
               /\ d < x /\ x = 10 * d + r
               /\ Digits[d] \in Seq(0..9) /\ Digits[x] = Append(Digits[d], r)
  <2>1. PICK d, r : d = x \div 10 /\ r = x % 10
    OBVIOUS
  <2>2. d \in Nat /\ d < x /\ r \in 0..9 /\ x = 10 * d + r
    BY <1>4, <2>1, DivTen
  <2>3. Digits[d] \in Seq(0..9) /\ Digits[x] = Append(Digits[d], r)
    BY <1>4, <2>1, <2>2, DigitsType, DigitsOfLarge
  <2> QED
    BY <2>2, <2>3
<1>5. CASE m < 10 /\ n < 10
  <2>1. <<m>> = <<n>>
    BY <1>2, <1>5, DigitsOfSmall
  <2> QED
    BY <1>2, <2>1
<1>6. CASE m < 10 <=> n >= 10
  <2>1. m \in Nat /\ Len(Digits[m]) = Len(Digits[n])
    BY <1>2
  <2>2. (m < 10 <=> Len(Digits[m]) = 1) /\ (n < 10 <=> Len(Digits[n]) = 1)
    BY <2>1, DigitsCount
  <2> QED
    BY <1>6, <2>1, <2>2
<1>7. CASE m >= 10 /\ n >= 10
  <2>1. PICK d \in Nat, r \in 0..9 :
          d < m /\ m = 10 * d + r /\ Digits[d] \in Seq(0..9) /\ Digits[m] = Append(Digits[d], r)
    <3>1. m \in Nat /\ m >= 10
      BY <1>1, <1>7
    <3> QED
      BY <1>4, <3>1, Zenon
  <2>2. PICK e \in Nat, q \in 0..9 :
          n = 10 * e + q /\ Digits[e] \in Seq(0..9) /\ Digits[n] = Append(Digits[e], q)
    BY <1>2, <1>4, <1>7
  <2>3. Digits[d] = Digits[e] /\ r = q
    <3> DEFINE x == Digits[d]
               y == Digits[e]
    <3>1. x \in Seq(0..9) /\ y \in Seq(0..9) /\ Append(x, r) = Append(y, q)
      BY <1>2, <2>1, <2>2
    <3> HIDE DEF x, y
    <3>2. x = y /\ r = q
      BY <3>1, AppendInjective
    <3> QED
      BY <3>2 DEF x, y
  <2>4. d # e
    BY <1>2, <2>1, <2>2, <2>3
  <2> QED
    BY <1>1, <2>1, <2>3, <2>4
<1> QED
  BY <1>1, <1>2, <1>5, <1>6, <1>7

\* Two lists of digits with a colon between them are read back as they were
\* written.
Joined(x, y) == x \o <<Colon>> \o y

LEMMA ColonSplits ==
  ASSUME NEW x1 \in Seq(0..9), NEW x2 \in Seq(0..9),
         NEW y1 \in Seq(0..9), NEW y2 \in Seq(0..9),
         Joined(x1, x2) = Joined(y1, y2)
  PROVE  x1 = y1 /\ x2 = y2
<1> DEFINE D == 0..9
           C == Colon
           E == D \cup {C}
<1>0. C \notin D
  BY DEF Colon
<1> HIDE DEF D, C
<1>1. ASSUME NEW a \in Seq(D), NEW b \in Seq(D)
      PROVE  LET z == a \o <<C>> \o b IN
             /\ z \in Seq(E) /\ Len(z) = Len(a) + 1 + Len(b)
             /\ \A i \in 1..Len(z) : z[i] = C <=> i = Len(a) + 1
             /\ \A i \in 1..Len(a) : z[i] = a[i]
             /\ \A i \in 1..Len(b) : z[Len(a) + 1 + i] = b[i]
             /\ Len(a) \in Nat /\ Len(b) \in Nat
  <2>1. a \in Seq(E) /\ b \in Seq(E) /\ <<C>> \in Seq(E) /\ Len(<<C>>) = 1
    BY SeqMonotonic
  <2>2. Len(a) \in Nat /\ Len(b) \in Nat
    BY LenProperties
  <2>3. \A i \in 1..Len(a) : a[i] \in D
    BY ElementOfSeq
  <2>4. \A i \in 1..Len(b) : b[i] \in D
    BY ElementOfSeq
  <2> DEFINE y == a \o <<C>>
  <2>5. /\ y \in Seq(E) /\ Len(y) = Len(a) + 1
        /\ \A i \in 1..(Len(a) + 1) : y[i] = IF i <= Len(a) THEN a[i] ELSE C
    <3>1. /\ y \in Seq(E) /\ Len(y) = Len(a) + Len(<<C>>)
          /\ \A i \in 1..(Len(a) + Len(<<C>>)) :
               y[i] = IF i <= Len(a) THEN a[i] ELSE <<C>>[i - Len(a)]
      BY <2>1, ConcatProperties
    <3> QED
      BY <2>1, <2>2, <3>1
  <2> HIDE DEF y
  <2>6. /\ y \o b \in Seq(E) /\ Len(y \o b) = Len(y) + Len(b)
        /\ \A i \in 1..(Len(y) + Len(b)) :
             (y \o b)[i] = IF i <= Len(y) THEN y[i] ELSE b[i - Len(y)]
    <3>1. y \in Seq(E) /\ b \in Seq(E)
      BY <2>1, <2>5
    <3> QED
      BY <3>1, ConcatProperties
  <2> DEFINE z == y \o b
  <2> HIDE DEF z
  <2>7. \A i \in 1..Len(a) : z[i] = a[i] /\ z[i] # C
    BY <1>0, <2>2, <2>3, <2>5, <2>6 DEF z
  <2>8. z[Len(a) + 1] = C
    BY <2>2, <2>5, <2>6 DEF z
  <2>9. ASSUME NEW i \in 1..Len(b)
        PROVE  z[Len(a) + 1 + i] = b[i]
    <3>1. Len(a) + 1 + i \in 1..(Len(y) + Len(b)) /\ ~(Len(a) + 1 + i <= Len(y))
          /\ Len(a) + 1 + i - Len(y) = i
      BY <2>2, <2>5
    <3> QED
      BY <2>6, <3>1 DEF z
  <2>10. ASSUME NEW i \in 1..Len(z), z[i] = C, i # Len(a) + 1
         PROVE  FALSE
    <3>1. i > Len(a) + 1
      BY <2>2, <2>5, <2>6, <2>7, <2>10 DEF z
    <3>2. i - (Len(a) + 1) \in 1..Len(b)
      BY <2>2, <2>5, <2>6, <3>1 DEF z
    <3>3. z[Len(a) + 1 + (i - (Len(a) + 1))] = b[i - (Len(a) + 1)]
      BY <2>9, <3>2
    <3>4. Len(a) + 1 + (i - (Len(a) + 1)) = i
      BY <2>2, <3>1
    <3> QED
      BY <1>0, <2>4, <2>10, <3>2, <3>3, <3>4
  <2> QED
    BY <2>2, <2>5, <2>6, <2>7, <2>8, <2>9, <2>10 DEF z, y
<1> DEFINE x == x1 \o <<C>> \o x2
           y == y1 \o <<C>> \o y2
<1>2. /\ Len(x) = Len(x1) + 1 + Len(x2)
      /\ \A i \in 1..Len(x) : x[i] = C <=> i = Len(x1) + 1
      /\ \A i \in 1..Len(x1) : x[i] = x1[i]
      /\ \A i \in 1..Len(x2) : x[Len(x1) + 1 + i] = x2[i]
      /\ Len(x1) \in Nat /\ Len(x2) \in Nat
  BY <1>1 DEF D
<1>3. /\ Len(y) = Len(y1) + 1 + Len(y2)
      /\ \A i \in 1..Len(y) : y[i] = C <=> i = Len(y1) + 1
      /\ \A i \in 1..Len(y1) : y[i] = y1[i]
      /\ \A i \in 1..Len(y2) : y[Len(y1) + 1 + i] = y2[i]
      /\ Len(y1) \in Nat /\ Len(y2) \in Nat
  BY <1>1 DEF D
<1>4. x = y
  BY DEF Joined, C
<1> HIDE DEF x, y
<1>5. Len(x1) = Len(y1) /\ Len(x2) = Len(y2)
  <2>1. Len(x1) + 1 \in 1..Len(x) /\ x[Len(x1) + 1] = C
    BY <1>2
  <2>2. Len(x1) + 1 = Len(y1) + 1
    BY <1>3, <1>4, <2>1
  <2> QED
    BY <1>2, <1>3, <1>4, <2>2
<1>6. \A i \in 1..Len(x1) : x1[i] = y1[i]
  BY <1>2, <1>3, <1>4, <1>5
<1>7. \A i \in 1..Len(x2) : x2[i] = y2[i]
  BY <1>2, <1>3, <1>4, <1>5
<1> QED
  BY <1>5, <1>6, <1>7, SeqEqual

\* Different blocks have different keys.
LEMMA KeysApart == \A p, q \in Places : DiskKey[p] = DiskKey[q] => p = q
<1> SUFFICES ASSUME NEW p \in Places, NEW q \in Places, DiskKey[p] = DiskKey[q]
             PROVE  p = q
  OBVIOUS
<1>1. p \in Nat \X Nat /\ q \in Nat \X Nat
  BY SimDiskAssumption
<1>2. /\ Digits[p[1]] \in Seq(0..9) /\ Digits[p[2]] \in Seq(0..9)
      /\ Digits[q[1]] \in Seq(0..9) /\ Digits[q[2]] \in Seq(0..9)
  BY <1>1, DigitsType
<1>4. Joined(Digits[p[1]], Digits[p[2]]) = Joined(Digits[q[1]], Digits[q[2]])
  <2> DEFINE key == [x \in Places |-> Joined(Digits[x[1]], Digits[x[2]])]
  <2>1. key[p] = key[q]
    BY DEF DiskKey, Joined
  <2> QED
    BY <2>1
<1>5. Digits[p[1]] = Digits[q[1]] /\ Digits[p[2]] = Digits[q[2]]
  BY <1>2, <1>4, ColonSplits
<1>6. p[1] = q[1] /\ p[2] = q[2]
  BY <1>1, <1>5, DigitsApart
<1> QED
  BY <1>1, <1>6

LEMMA NatBetween ==
  ASSUME NEW x \in Nat, NEW y \in Nat, NEW z \in Nat, x > y, z < y
  PROVE  x > z
OBVIOUS

\* Two lists of one length that are not equal differ first somewhere.
LEMMA FirstDifference ==
  ASSUME NEW k \in Seq(Nat), NEW l \in Seq(Nat), Len(k) = Len(l), k # l
  PROVE  \E i \in 1..Len(k) : k[i] # l[i] /\ \A j \in 1..(i - 1) : k[j] = l[j]
<1> DEFINE T == {i \in 1..Len(k) : k[i] # l[i]}
<1>1. Len(k) \in Nat
  BY LenProperties
<1>2. T # {} /\ T \in SUBSET Nat
  <2>1. ASSUME \A i \in 1..Len(k) : k[i] = l[i] PROVE FALSE
    BY <2>1, SeqEqual
  <2> QED
    <3>1. T # {}
      BY <2>1
    <3>2. T \in SUBSET Nat
      BY <1>1
    <3> QED
      BY <3>1, <3>2
<1>3. PICK i \in T : \A j \in T : i <= j
  BY <1>2, SmallestOne
<1> QED
  BY <1>1, <1>3

\* Though it is not an order, the comparison of the disk's keys is what the
\* walk needs, for keys of any lengths: a table is never searched in vain.
THEOREM BlkidOrderTheorem ==
  /\ \A k \in Seq(Nat) : ~BlkidAfter(k, k)
  /\ \A k, l \in Seq(Nat) : k # l => BlkidAfter(k, l) \/ BlkidAfter(l, k)
  /\ \A k, l, m \in Seq(Nat) :
       ~BlkidAfter(k, l) /\ k # l /\ BlkidAfter(m, l) => BlkidAfter(m, k)
<1>0. \A k \in Seq(Nat) : Len(k) \in Nat /\ \A i \in 1..Len(k) : k[i] \in Nat
  BY LenProperties, ElementOfSeq
<1>1. ASSUME NEW k \in Seq(Nat) PROVE ~BlkidAfter(k, k)
  BY <1>0 DEF BlkidAfter
<1>2. ASSUME NEW k \in Seq(Nat), NEW l \in Seq(Nat), k # l, Len(k) = Len(l)
      PROVE  \E i \in 1..Len(k) :
               /\ \A j \in 1..(i - 1) : k[j] = l[j]
               /\ \/ k[i] > l[i] /\ BlkidAfter(k, l)
                  \/ k[i] < l[i] /\ BlkidAfter(l, k)
  <2>1. PICK i \in 1..Len(k) : k[i] # l[i] /\ \A j \in 1..(i - 1) : k[j] = l[j]
    BY <1>2, FirstDifference
  <2>2. k[i] > l[i] \/ k[i] < l[i]
    BY <1>0, <1>2, <2>1
  <2>3. k[i] > l[i] => BlkidAfter(k, l)
    BY <2>1 DEF BlkidAfter
  <2>4. l[i] > k[i] => BlkidAfter(l, k)
    <3>1. i \in 1..Len(l) /\ \A j \in 1..(i - 1) : l[j] = k[j]
      BY <1>2, <2>1
    <3> QED
      BY <3>1 DEF BlkidAfter
  <2>5. l[i] > k[i] <=> k[i] < l[i]
    BY <1>0, <1>2
  <2> QED
    BY <2>1, <2>2, <2>3, <2>4, <2>5
<1>3. ASSUME NEW k \in Seq(Nat), NEW l \in Seq(Nat), k # l
      PROVE  BlkidAfter(k, l) \/ BlkidAfter(l, k)
  <2>1. CASE Len(k) = Len(l)
    BY <1>2, <1>3, <2>1
  <2>2. CASE Len(k) # Len(l)
    BY <2>2 DEF BlkidAfter
  <2> QED
    BY <2>1, <2>2
<1>4. ASSUME NEW k \in Seq(Nat), NEW l \in Seq(Nat), NEW m \in Seq(Nat),
             ~BlkidAfter(k, l), k # l, BlkidAfter(m, l)
      PROVE  BlkidAfter(m, k)
  <2>1. Len(k) = Len(l)
    BY <1>4 DEF BlkidAfter
  <2>2. CASE Len(m) # Len(l)
    BY <2>1, <2>2 DEF BlkidAfter
  <2>3. CASE Len(m) = Len(l)
    <3>1. PICK a \in 1..Len(k) : k[a] < l[a] /\ \A j \in 1..(a - 1) : k[j] = l[j]
      BY <1>2, <1>4, <2>1
    <3>2. PICK b \in 1..Len(m) : m[b] > l[b] /\ \A j \in 1..(b - 1) : m[j] = l[j]
      BY <1>4, <2>3 DEF BlkidAfter
    <3>3. /\ Len(k) \in Nat /\ a \in Int /\ b \in Int
          /\ \A i \in 1..Len(k) : k[i] \in Nat /\ l[i] \in Nat /\ m[i] \in Nat
      <4>1. Len(k) \in Nat /\ a \in Int /\ b \in Int
        BY <1>0, <2>1, <2>3
      <4>2. \A i \in 1..Len(k) : k[i] \in Nat
        BY <1>0
      <4>3. \A i \in 1..Len(k) : l[i] \in Nat
        BY <1>0, <2>1
      <4>4. \A i \in 1..Len(k) : m[i] \in Nat
        BY <1>0, <2>1, <2>3
      <4> QED
        BY <4>1, <4>2, <4>3, <4>4
    <3>4. CASE b <= a
      <4>1. \A j \in 1..(b - 1) : m[j] = k[j]
        BY <3>1, <3>2, <3>3, <3>4
      <4>2. m[b] > k[b]
        <5>1. m[b] \in Nat /\ k[b] \in Nat /\ l[b] \in Nat
          BY <2>1, <2>3, <3>3
        <5>2. CASE b = a
          <6>1. m[b] > l[b] /\ k[b] < l[b]
            BY <3>1, <3>2, <5>2
          <6> QED
            BY <5>1, <6>1, NatBetween, Zenon
        <5>3. CASE b # a
          <6>1. b \in 1..(a - 1)
            BY <3>3, <3>4, <5>3
          <6> QED
            BY <3>1, <3>2, <6>1
        <5> QED
          BY <5>2, <5>3
      <4> QED
        BY <2>1, <2>3, <4>1, <4>2 DEF BlkidAfter
    <3>5. CASE a < b
      <4>1. m[a] > k[a] /\ \A j \in 1..(a - 1) : m[j] = k[j]
        BY <2>1, <2>3, <3>1, <3>2, <3>3, <3>5
      <4>2. a \in 1..Len(m)
        BY <2>1, <2>3
      <4> QED
        BY <4>1, <4>2 DEF BlkidAfter
    <3> QED
      BY <3>3, <3>4, <3>5
  <2> QED
    BY <2>2, <2>3
<1> QED
  BY <1>1, <1>3, <1>4

-----------------------------------------------------------------------------
\* The simulated disk: the table has one node for each number below the next
\* one, and the file has a content at its position.
DiskInv ==
  /\ HashInv
  /\ collectformat \in BOOLEAN
  /\ simdisk_blkid \in Nat
  /\ \A n \in Nodes : n.datum \in 0..(simdisk_blkid - 1)
  /\ \A i \in 0..(simdisk_blkid - 1) : \E n \in Nodes : n.datum = i
  /\ \A n1, n2 \in Nodes : n1.datum = n2.datum => n1 = n2
  /\ \A i \in 0..(simdisk_blkid - 1) :
       Position(i) \in DOMAIN simfile /\ simfile[Position(i)] \in Contents

\* Does the file, in 32 bits, have a position for each number?
DiskFits == collectformat => simdisk_blkid <= Wrap

IdOf(p) == Search(DiskKey[p])

LEMMA KeysOfDisk ==
  /\ \A p \in Places : DiskKey[p] \in TableKeys
  /\ \A k \in TableKeys : \E p \in Places : k = DiskKey[p]
<1>1. DOMAIN DiskKey = Places
  BY DEF DiskKey
<1> QED
  BY <1>1, SimDiskAssumption DEF Range

LEMMA PositionsApart ==
  ASSUME DiskInv, DiskFits,
         NEW i \in 0..(simdisk_blkid - 1), NEW j \in 0..(simdisk_blkid - 1),
         Position(i) = Position(j)
  PROVE  i = j
<1>1. CASE collectformat
  <2>1. i \in 0..(Wrap - 1) /\ j \in 0..(Wrap - 1) /\ Wrap \in Nat \ {0}
    BY <1>1, SimDiskAssumption DEF DiskFits, DiskInv
  <2>2. i % Wrap = i /\ j % Wrap = j
    BY <2>1
  <2> QED
    BY <1>1, <2>2 DEF Position
<1>2. CASE ~collectformat
  BY <1>2 DEF Position
<1> QED
  BY <1>1, <1>2 DEF DiskInv

\* What is known of a block that the disk has.
SeenFacts ==
  /\ \A p \in Places : Seen(p) <=> \E n \in Nodes : n.key = DiskKey[p]
  /\ \A p \in Places : \A n \in Nodes : n.key = DiskKey[p] => IdOf(p) = n.datum
  /\ \A p \in Places : Seen(p) => IdOf(p) \in 0..(simdisk_blkid - 1)
  /\ \A p, q \in Places : Seen(p) /\ Seen(q) /\ IdOf(p) = IdOf(q) => p = q
  /\ \A p \in Places : Seen(p) => Fetched(p) \in Contents

LEMMA SeenBlock == DiskInv => SeenFacts
<1> SUFFICES ASSUME DiskInv PROVE SeenFacts
  OBVIOUS
<1>1. \A p \in Places : Seen(p) <=> \E n \in Nodes : n.key = DiskKey[p]
  BY KeysOfDisk, FindsNode DEF Seen, DiskInv
<1>2. \A p \in Places : \A n \in Nodes : n.key = DiskKey[p] => IdOf(p) = n.datum
  BY KeysOfDisk, FindsNode DEF IdOf, DiskInv
<1>3. \A p \in Places : Seen(p) => IdOf(p) \in 0..(simdisk_blkid - 1)
  BY <1>1, <1>2 DEF DiskInv
<1>4. ASSUME NEW p \in Places, NEW q \in Places, Seen(p), Seen(q), IdOf(p) = IdOf(q)
      PROVE  p = q
  <2>1. PICK n1 \in Nodes : n1.key = DiskKey[p] /\ IdOf(p) = n1.datum
    BY <1>1, <1>2, <1>4
  <2>2. PICK n2 \in Nodes : n2.key = DiskKey[q] /\ IdOf(q) = n2.datum
    BY <1>1, <1>2, <1>4
  <2>3. n1 = n2
    BY <1>4, <2>1, <2>2 DEF DiskInv
  <2> QED
    BY <2>1, <2>2, <2>3, KeysApart
<1>5. \A p \in Places : Seen(p) => Fetched(p) \in Contents
  BY <1>3 DEF DiskInv, Fetched, IdOf
<1> QED
  BY <1>1, <1>2, <1>3, <1>4, <1>5 DEF SeenFacts

LEMMA DiskInitially ==
  ASSUME DiskInit
  PROVE  DiskInv /\ \A p \in Places : ~Seen(p)
<1>1. HashInv
  BY HashInitInv DEF DiskInit
<1>2. Nodes = {}
  BY DEF DiskInit, HashtabCreate, Nodes, ToSet
<1>3. DiskInv
  BY <1>1, <1>2 DEF DiskInit, DiskInv
<1> QED
  BY <1>2, <1>3, SeenBlock DEF SeenFacts

LEMMA SameDisk ==
  ASSUME UNCHANGED diskVars
  PROVE  /\ DiskInv => DiskInv'
         /\ DiskFits' = DiskFits
         /\ \A p \in Places : Seen(p)' = Seen(p) /\ Fetched(p)' = Fetched(p)
BY DEF diskVars, DiskInv, HashInv, Nodes, Position, DiskFits, Seen, Finds, Fetched, Search

\* A block that the disk has not got comes last, and disturbs no other.
LEMMA BlockCreated ==
  ASSUME DiskInv, NEW p \in Places, ~Seen(p), NEW k \in Contents, NewBlock(p, k)
  PROVE  /\ DiskInv'
         /\ simdisk_blkid' = simdisk_blkid + 1
         /\ \A q \in Places : Seen(q)' <=> Seen(q) \/ q = p
         /\ Fetched(p)' = k
         /\ DiskFits' => \A q \in Places : Seen(q) => Fetched(q)' = Fetched(q)
<1> DEFINE key == DiskKey[p]
           id == simdisk_blkid
           new == Node(key, id)
<1>1. /\ key \in TableKeys /\ id \in Data /\ id \in Nat
      /\ HashInv /\ HashtabInsert(key, id) /\ ~Finds(key)
  BY KeysOfDisk, SimDiskAssumption DEF DiskInv, NewBlock, Seen
<1>2. HashInv' /\ Nodes' = Nodes \cup {new}
  BY <1>1, InsertInv
<1>3. new.key = key /\ new.datum = id
  BY DEF Node
<1>4. /\ id' = id + 1 /\ collectformat' = collectformat
      /\ simfile' = [i \in DOMAIN simfile \cup {Position(id)} |->
                       IF i = Position(id) THEN k ELSE simfile[i]]
  BY DEF NewBlock, PutInFile
<1>5. \A i : Position(i)' = Position(i)
  BY <1>4 DEF Position
<1> HIDE DEF new
<1>6. DiskInv'
  <2>1. id' \in Nat /\ collectformat' \in BOOLEAN
    BY <1>1, <1>4 DEF DiskInv
  <2>2. \A n \in Nodes' : n.datum \in 0..(id' - 1)
    BY <1>1, <1>2, <1>3, <1>4 DEF DiskInv
  <2>3. ASSUME NEW i \in 0..(id' - 1) PROVE \E n \in Nodes' : n.datum = i
    <3>1. CASE i = id
      BY <1>2, <1>3, <3>1
    <3>2. CASE i # id
      <4>1. i \in 0..(id - 1)
        BY <1>1, <1>4, <3>2
      <4> QED
        BY <1>2, <4>1 DEF DiskInv
    <3> QED
      BY <3>1, <3>2
  <2>4. \A n1, n2 \in Nodes' : n1.datum = n2.datum => n1 = n2
    <3>1. \A n \in Nodes : n.datum # id
      BY <1>1 DEF DiskInv
    <3> QED
      BY <1>2, <1>3, <3>1 DEF DiskInv
  <2>5. ASSUME NEW i \in 0..(id' - 1)
        PROVE  Position(i) \in DOMAIN simfile' /\ simfile'[Position(i)] \in Contents
    <3>1. i \in 0..(id - 1) \/ i = id
      BY <1>1, <1>4
    <3> QED
      BY <1>4, <3>1 DEF DiskInv
  <2> QED
    BY <1>2, <1>5, <2>1, <2>2, <2>3, <2>4, <2>5 DEF DiskInv
<1>7. SeenFacts
  BY SeenBlock
<1>8. SeenFacts'
  BY <1>6, SeenBlock, PTL
<1>9. \A q \in Places : Seen(q)' <=> Seen(q) \/ q = p
  BY <1>2, <1>3, <1>7, <1>8, KeysApart DEF SeenFacts
<1>10. IdOf(p)' = id /\ \A q \in Places : Seen(q) => IdOf(q)' = IdOf(q)
  BY <1>2, <1>3, <1>7, <1>8 DEF SeenFacts
<1>11. \A q \in Places : Fetched(q) = simfile[Position(IdOf(q))]
  BY DEF Fetched, IdOf
<1>12. \A q \in Places : Fetched(q)' = simfile'[Position(IdOf(q)')]
  BY <1>5 DEF Fetched, IdOf
<1>13. Fetched(p)' = k
  BY <1>4, <1>10, <1>12
<1>14. ASSUME DiskFits', NEW q \in Places, Seen(q)
       PROVE  Fetched(q)' = Fetched(q)
  <2>1. IdOf(q) \in 0..(id - 1) /\ id \in Nat
    BY <1>1, <1>7, <1>14 DEF SeenFacts
  <2>2. Position(IdOf(q)) # Position(id)
    <3>1. CASE collectformat
      <4>1. id + 1 <= Wrap /\ Wrap \in Nat \ {0}
        BY <1>4, <1>14, <3>1, SimDiskAssumption DEF DiskFits
      <4>2. IdOf(q) % Wrap = IdOf(q) /\ id % Wrap = id
        BY <2>1, <4>1
      <4> QED
        BY <2>1, <3>1, <4>2 DEF Position
    <3>2. CASE ~collectformat
      BY <2>1, <3>2 DEF Position
    <3> QED
      BY <3>1, <3>2 DEF DiskInv
  <2>3. Position(IdOf(q)) \in DOMAIN simfile
    BY <2>1 DEF DiskInv
  <2>4. simfile'[Position(IdOf(q))] = simfile[Position(IdOf(q))]
    BY <1>4, <2>2, <2>3
  <2>5. IdOf(q)' = IdOf(q)
    BY <1>10, <1>14
  <2> QED
    BY <1>11, <1>12, <2>4, <2>5
<1> QED
  BY <1>4, <1>6, <1>9, <1>13, <1>14

\* The content of a block that it has is replaced in its place.
LEMMA BlockReplaced ==
  ASSUME DiskInv, NEW p \in Places, Seen(p), NEW k \in Contents,
         PutInFile(Search(DiskKey[p]), k), UNCHANGED <<collectformat, chains, simdisk_blkid>>
  PROVE  /\ DiskInv'
         /\ \A q \in Places : Seen(q)' = Seen(q)
         /\ Fetched(p)' = k
         /\ DiskFits => \A q \in Places : q # p /\ Seen(q) => Fetched(q)' = Fetched(q)
<1> DEFINE i == IdOf(p)
<1>1. SeenFacts
  BY SeenBlock
<1>2. i \in 0..(simdisk_blkid - 1)
  BY <1>1 DEF SeenFacts
<1>3. simfile' = [j \in DOMAIN simfile \cup {Position(i)} |->
                    IF j = Position(i) THEN k ELSE simfile[j]]
  BY DEF PutInFile, IdOf
<1>4. /\ \A j : Position(j)' = Position(j)
      /\ \A q \in Places : Seen(q)' = Seen(q) /\ IdOf(q)' = IdOf(q)
      /\ Nodes' = Nodes /\ HashInv'
  BY DEF Position, Seen, Finds, IdOf, Search, Nodes, HashInv, DiskInv
<1>5. DiskInv'
  <2>1. \A j \in 0..(simdisk_blkid' - 1) :
          Position(j)' \in DOMAIN simfile' /\ simfile'[Position(j)'] \in Contents
    BY <1>3, <1>4 DEF DiskInv
  <2> QED
    BY <1>4, <2>1 DEF DiskInv
<1>6. \A q \in Places : Fetched(q) = simfile[Position(IdOf(q))]
  BY DEF Fetched, IdOf
<1>7. \A q \in Places : Fetched(q)' = simfile'[Position(IdOf(q))]
  BY <1>4 DEF Fetched, IdOf
<1>8. ASSUME DiskFits, NEW q \in Places, q # p, Seen(q)
      PROVE  Fetched(q)' = Fetched(q)
  <2>1. IdOf(q) \in 0..(simdisk_blkid - 1) /\ IdOf(q) # i
    BY <1>1, <1>8 DEF SeenFacts
  <2>2. Position(IdOf(q)) # Position(i)
    BY <1>2, <1>8, <2>1, PositionsApart
  <2>3. Position(IdOf(q)) \in DOMAIN simfile
    BY <2>1 DEF DiskInv
  <2> QED
    BY <1>3, <1>6, <1>7, <2>2, <2>3
<1> QED
  BY <1>3, <1>4, <1>5, <1>7, <1>8

\* Each block of the file up to the next one is that of a place.
LEMMA BlocksInUse ==
  ASSUME DiskInv, NEW i \in 0..(simdisk_blkid - 1)
  PROVE  \E p \in Places : Seen(p) /\ IdOf(p) = i
<1>1. PICK n \in Nodes : n.datum = i
  BY DEF DiskInv
<1>2. n.key \in TableKeys
  <2>1. PICK b \in Buckets : \E j \in DOMAIN chains[b] : n = chains[b][j]
    BY <1>1 DEF Nodes, ToSet
  <2>2. ChainOK(chains[b], b)
    BY DEF DiskInv, HashInv
  <2> QED
    BY <2>1, <2>2, ChainSorted
<1>3. PICK p \in Places : n.key = DiskKey[p]
  BY <1>2, KeysOfDisk
<1> QED
  BY <1>1, <1>3, SeenBlock DEF SeenFacts

\* A disk that fits into its file is searched as DiskSearched says.
LEMMA DiskIsSearched == DiskInv /\ DiskFits => DiskSearched
<1> SUFFICES ASSUME DiskInv, DiskFits PROVE DiskSearched
  OBVIOUS
<1> DEFINE Written == {p \in Places : Seen(p)}
<1>1. SeenFacts
  BY SeenBlock
<1>2. EveryNodeMet
  BY DEF DiskInv, HashInv, ChainOK, EveryNodeMet
<1>3. \A p \in Written : IdOf(p) \in 0..(simdisk_blkid - 1)
  BY <1>1 DEF SeenFacts
<1>4. \A i \in 0..(simdisk_blkid - 1) : \E p \in Written : IdOf(p) = i
  BY BlocksInUse
<1>5. \A p, q \in Written : Position(IdOf(p)) = Position(IdOf(q)) => p = q
  BY <1>1, <1>3, PositionsApart DEF SeenFacts
<1> QED
  BY <1>2, <1>3, <1>4, <1>5 DEF DiskSearched, IdOf

-----------------------------------------------------------------------------
\* The volumes.
Names == {row.vmname : row \in Rows}
Bases == {0} \cup {row.base : row \in Rows}
VmType == [pBlkID_base : Bases, vBlkID_cap : Nat]

\* Volumes are numbered in the order in which their names are met.  A name
\* that no line of the mapping has is the only one.  Two volumes overlap only
\* where that was reported.
VolumesInv ==
  /\ IsFiniteSet(DOMAIN voltab)
  /\ voltab \in [DOMAIN voltab -> 0..(numVolID - 1)]
  /\ \A m, n \in DOMAIN voltab : voltab[m] = voltab[n] => m = n
  /\ v2pmaps \in [0..(numVolID - 1) -> VmType]
  /\ numVolID = 1 \/ DOMAIN voltab \subseteq Names
  /\ overlapped \in BOOLEAN
  /\ ~overlapped => \A v, w \in DOMAIN v2pmaps :
                      v # w => ~TestOverlapVM(v2pmaps[v], v2pmaps[w])

LEMMA NamesFinite == IsFiniteSet(Names)
<1> DEFINE f == [row \in Rows |-> row.vmname]
<1>1. f \in Surjection(Rows, Names)
  BY DEF Surjection, Names
<1> QED
  BY <1>1, FS_Surjection, VolumesAssumption

LEMMA NumbersOfVolumes ==
  VolumesInv => numVolID \in Nat /\ DOMAIN v2pmaps \subseteq VolumeNumbers
<1> SUFFICES ASSUME VolumesInv PROVE numVolID \in Nat /\ DOMAIN v2pmaps \subseteq VolumeNumbers
  OBVIOUS
<1>1. numVolID \in Nat /\ Cardinality(Names) \in Nat
  BY NamesFinite, FS_CardinalityType DEF VolumesInv, numVolID
<1>2. CASE numVolID = 1
  BY <1>2 DEF VolumesInv, VolumeNumbers
<1>3. CASE DOMAIN voltab \subseteq Names
  <2>1. numVolID <= Cardinality(Names)
    BY <1>3, NamesFinite, FS_Subset DEF numVolID
  <2>2. VolumeNumbers = {0} \cup 0..(Cardinality(Names) - 1)
    BY DEF VolumeNumbers, Names
  <2> QED
    BY <1>1, <2>1, <2>2 DEF VolumesInv
<1> QED
  BY <1>1, <1>2, <1>3 DEF VolumesInv

LEMMA VolumesInitially == VolumesInit => VolumesInv /\ DOMAIN voltab = {}
<1> SUFFICES ASSUME VolumesInit PROVE VolumesInv /\ DOMAIN voltab = {}
  OBVIOUS
<1>1. DOMAIN voltab = {} /\ DOMAIN v2pmaps = {} /\ numVolID = 0
  BY FS_EmptySet DEF VolumesInit, numVolID
<1>2. voltab \in [DOMAIN voltab -> 0..(numVolID - 1)]
  BY <1>1 DEF VolumesInit
<1>3. v2pmaps \in [0..(numVolID - 1) -> VmType]
  <2>1. 0..(numVolID - 1) = {}
    BY <1>1
  <2> QED
    BY <2>1 DEF VolumesInit
<1> QED
  BY <1>1, <1>2, <1>3, FS_EmptySet DEF VolumesInit, VolumesInv

\* A new volume gets the next number.
LEMMA VolumeAdded ==
  ASSUME VolumesInv, NEW name, name \notin DOMAIN voltab, NEW v \in VmType,
         (name \in Names /\ DOMAIN voltab \subseteq Names) \/ numVolID = 0,
         \A i \in DOMAIN v2pmaps : ~TestOverlapVM(v2pmaps[i], v),
         AddVolume(name, v)
  PROVE  /\ VolumesInv'
         /\ DOMAIN voltab' = DOMAIN voltab \cup {name}
         /\ voltab'[name] = numVolID
         /\ DOMAIN v2pmaps' = DOMAIN v2pmaps \cup {numVolID}
         /\ \A i \in DOMAIN v2pmaps : v2pmaps'[i] = v2pmaps[i]
         /\ v2pmaps'[numVolID] = v
<1> DEFINE n == numVolID
<1>1. n \in Nat
  BY NumbersOfVolumes
<1>2. /\ DOMAIN voltab' = DOMAIN voltab \cup {name}
      /\ voltab'[name] = n
      /\ \A m \in DOMAIN voltab : voltab'[m] = voltab[m]
      /\ voltab' = [m \in DOMAIN voltab' |-> voltab'[m]]
  BY DEF AddVolume
<1>3. DOMAIN v2pmaps = 0..(n - 1)
  BY DEF VolumesInv
<1>4. IsFiniteSet(DOMAIN voltab') /\ numVolID' = n + 1
  BY <1>2, FS_AddElement DEF VolumesInv, numVolID
<1> HIDE DEF n
<1>5. /\ DOMAIN v2pmaps' = 0..n
      /\ v2pmaps'[n] = v
      /\ \A i \in 0..(n - 1) : v2pmaps'[i] = v2pmaps[i]
      /\ v2pmaps' = [i \in DOMAIN v2pmaps' |-> v2pmaps'[i]]
  <2>1. v2pmaps' = [i \in (0..(n - 1)) \cup {n} |-> IF i = n THEN v ELSE v2pmaps[i]]
    BY <1>3 DEF AddVolume, n
  <2>2. (0..(n - 1)) \cup {n} = 0..n
    BY <1>1
  <2> QED
    BY <1>1, <2>1, <2>2
<1>6. voltab' \in [DOMAIN voltab' -> 0..n]
  <2>1. \A m \in DOMAIN voltab' : voltab'[m] \in 0..n
    BY <1>1, <1>2 DEF VolumesInv, n
  <2> QED
    BY <1>2, <2>1
<1>7. v2pmaps' \in [0..n -> VmType]
  <2>1. \A i \in 0..n : v2pmaps'[i] \in VmType
    BY <1>1, <1>5 DEF VolumesInv, n
  <2> QED
    BY <1>5, <2>1
<1>8. \A l, m \in DOMAIN voltab' : voltab'[l] = voltab'[m] => l = m
  <2>1. \A m \in DOMAIN voltab : voltab[m] \in 0..(n - 1)
    BY DEF VolumesInv, n
  <2> QED
    BY <1>1, <1>2, <2>1 DEF VolumesInv
<1>9. n + 1 = 1 \/ DOMAIN voltab' \subseteq Names
  BY <1>2 DEF n
<1>10. ASSUME ~overlapped', NEW i \in 0..n, NEW j \in 0..n, i # j
       PROVE  ~TestOverlapVM(v2pmaps'[i], v2pmaps'[j])
  <2>1. ~overlapped
    BY <1>10 DEF AddVolume
  <2>2. CASE i \in 0..(n - 1) /\ j \in 0..(n - 1)
    BY <1>3, <1>5, <1>10, <2>1, <2>2 DEF VolumesInv
  <2>3. CASE i = n
    <3>1. j \in 0..(n - 1)
      BY <1>1, <1>10, <2>3
    <3> QED
      BY <1>3, <1>5, <2>3, <3>1 DEF TestOverlapVM
  <2>4. CASE j = n
    <3>1. i \in 0..(n - 1)
      BY <1>1, <1>10, <2>4
    <3> QED
      BY <1>3, <1>5, <2>4, <3>1
  <2> QED
    BY <1>1, <2>2, <2>3, <2>4
<1>11. overlapped' \in BOOLEAN
  BY DEF AddVolume, VolumesInv
<1>12. numVolID' - 1 = n
  BY <1>1, <1>4
<1>13. VolumesInv'
  BY <1>4, <1>5, <1>6, <1>7, <1>8, <1>9, <1>10, <1>11, <1>12 DEF VolumesInv
<1> QED
  BY <1>1, <1>2, <1>3, <1>5, <1>13 DEF n

\* A capacity grows to take in the block, and nothing else changes.
LEMMA CapacityGrown ==
  ASSUME VolumesInv, NEW vol \in DOMAIN v2pmaps, NEW blk \in Nat,
         UpdateVirttoPhysMap(vol, blk)
  PROVE  /\ VolumesInv'
         /\ UNCHANGED voltab
         /\ DOMAIN v2pmaps' = DOMAIN v2pmaps
         /\ \A i \in DOMAIN v2pmaps :
              /\ v2pmaps'[i].pBlkID_base = v2pmaps[i].pBlkID_base
              /\ v2pmaps'[i].vBlkID_cap = v2pmaps[i].vBlkID_cap
                   \/ (i = vol /\ v2pmaps'[i].vBlkID_cap = blk + 1)
              /\ v2pmaps[i].vBlkID_cap <= v2pmaps'[i].vBlkID_cap
         /\ blk < v2pmaps'[vol].vBlkID_cap
         /\ overlapped => overlapped'
<1>1. DOMAIN v2pmaps = 0..(numVolID - 1) /\ \A i \in DOMAIN v2pmaps : v2pmaps[i] \in VmType
  BY DEF VolumesInv
<1>2. \A i \in DOMAIN v2pmaps : v2pmaps[i].vBlkID_cap \in Nat
  BY <1>1 DEF VmType
<1>3. CASE blk + 1 <= v2pmaps[vol].vBlkID_cap
  <2>1. UNCHANGED volumeVars
    BY <1>3 DEF UpdateVirttoPhysMap
  <2> QED
    BY <1>2, <1>3, <2>1 DEF volumeVars, VolumesInv, numVolID
<1>4. CASE ~(blk + 1 <= v2pmaps[vol].vBlkID_cap)
  <2> DEFINE v == [v2pmaps[vol] EXCEPT !.vBlkID_cap = blk + 1]
  <2>1. /\ v2pmaps' = [v2pmaps EXCEPT ![vol] = v]
        /\ overlapped' = (overlapped \/ \E w \in DOMAIN v2pmaps \ {vol} :
                                          TestOverlapVM(v2pmaps[w], v))
        /\ UNCHANGED voltab
    BY <1>4 DEF UpdateVirttoPhysMap
  <2>2. /\ v \in VmType /\ v.pBlkID_base = v2pmaps[vol].pBlkID_base
        /\ v.vBlkID_cap = blk + 1
    BY <1>1 DEF VmType
  <2> HIDE DEF v
  <2>3. /\ DOMAIN v2pmaps' = DOMAIN v2pmaps /\ v2pmaps'[vol] = v
        /\ \A i \in DOMAIN v2pmaps : i # vol => v2pmaps'[i] = v2pmaps[i]
    BY <2>1
  <2>4. v2pmaps' \in [0..(numVolID - 1) -> VmType]
    BY <1>1, <2>1, <2>2 DEF VolumesInv
  <2>5. ASSUME ~overlapped', NEW i \in DOMAIN v2pmaps, NEW j \in DOMAIN v2pmaps, i # j
        PROVE  ~TestOverlapVM(v2pmaps'[i], v2pmaps'[j])
    <3>1. ~overlapped /\ \A w \in DOMAIN v2pmaps \ {vol} : ~TestOverlapVM(v2pmaps[w], v)
      BY <2>1, <2>5
    <3>2. CASE i # vol /\ j # vol
      BY <2>3, <2>5, <3>1, <3>2 DEF VolumesInv
    <3>3. CASE i = vol
      <4>1. ~TestOverlapVM(v2pmaps[j], v)
        BY <2>5, <3>1, <3>3
      <4> QED
        BY <2>3, <2>5, <3>3, <4>1 DEF TestOverlapVM
    <3>4. CASE j = vol
      BY <2>3, <2>5, <3>1, <3>4
    <3> QED
      BY <3>2, <3>3, <3>4
  <2>6. overlapped' \in BOOLEAN
    BY <2>1 DEF VolumesInv
  <2>7. VolumesInv'
    BY <2>1, <2>3, <2>4, <2>5, <2>6 DEF VolumesInv, numVolID
  <2>8. blk < blk + 1 /\ v2pmaps[vol].vBlkID_cap <= blk + 1
    BY <1>2, <1>4
  <2>9. ASSUME NEW i \in DOMAIN v2pmaps
        PROVE  /\ v2pmaps'[i].pBlkID_base = v2pmaps[i].pBlkID_base
               /\ v2pmaps'[i].vBlkID_cap = v2pmaps[i].vBlkID_cap
                    \/ (i = vol /\ v2pmaps'[i].vBlkID_cap = blk + 1)
               /\ v2pmaps[i].vBlkID_cap <= v2pmaps'[i].vBlkID_cap
    <3>1. CASE i = vol
      BY <2>2, <2>3, <2>8, <3>1
    <3>2. CASE i # vol
      <4>1. v2pmaps'[i] = v2pmaps[i] /\ v2pmaps[i].vBlkID_cap \in Nat
        BY <1>2, <2>3, <3>2
      <4> QED
        BY <4>1
    <3> QED
      BY <3>1, <3>2
  <2>10. blk < v2pmaps'[vol].vBlkID_cap /\ (overlapped => overlapped')
    BY <2>1, <2>2, <2>3, <2>8
  <2> QED
    BY <2>1, <2>3, <2>7, <2>9, <2>10
<1> QED
  BY <1>3, <1>4

\* No volume goes beyond the last block number: what the file of the mapping
\* says is looked at by the program, what the trace says is not.
TraceFits == \A r \in Records, base \in Bases : base + r.block + r.count <= Word
CapsFit == \A v \in DOMAIN v2pmaps : v2pmaps[v].pBlkID_base + v2pmaps[v].vBlkID_cap <= Word

\* A block of a volume as far as its capacity goes.
Mapped(p) == p[1] \in DOMAIN v2pmaps /\ p[2] < v2pmaps[p[1]].vBlkID_cap

VolumesGrow ==
  /\ DOMAIN v2pmaps \subseteq DOMAIN v2pmaps'
  /\ \A i \in DOMAIN v2pmaps :
       /\ v2pmaps'[i].pBlkID_base = v2pmaps[i].pBlkID_base
       /\ v2pmaps[i].vBlkID_cap <= v2pmaps'[i].vBlkID_cap
  /\ overlapped => overlapped'

LEMMA BasesAndCaps ==
  ASSUME VolumesInv, NEW i \in DOMAIN v2pmaps
  PROVE  /\ v2pmaps[i] \in VmType
         /\ v2pmaps[i].pBlkID_base \in Bases
         /\ v2pmaps[i].pBlkID_base \in Nat
         /\ v2pmaps[i].vBlkID_cap \in Nat
<1>1. v2pmaps[i] \in VmType
  BY DEF VolumesInv
<1> QED
  BY <1>1, VolumesAssumption DEF VmType, Bases

LEMMA BlocksOfVolume ==
  ASSUME VolumesInv, NEW p \in Places, Mapped(p)
  PROVE  Physical(p[1], p[2]) \in Blocks
<1>1. p[2] \in Nat
  BY SimDiskAssumption
<1>2. v2pmaps[p[1]].pBlkID_base \in Nat
  BY BasesAndCaps DEF Mapped
<1> QED
  BY <1>1, <1>2, VolumesAssumption, StandardAssumption DEF Physical

\* The last block of a volume that has one, and where its blocks are.
LEMMA BlocksWithin ==
  ASSUME VolumesInv, CapsFit, NEW v \in DOMAIN v2pmaps, NEW b \in Nat,
         b < v2pmaps[v].vBlkID_cap
  PROVE  /\ Physical(v, b) = v2pmaps[v].pBlkID_base + b
         /\ v2pmaps[v].pBlkID_base + b <= LastBlock(v2pmaps[v])
         /\ LastBlock(v2pmaps[v]) \in Nat
<1> DEFINE base == v2pmaps[v].pBlkID_base
           cap == v2pmaps[v].vBlkID_cap
<1>1. base \in Nat /\ cap \in Nat /\ base + cap <= Word /\ Word \in Nat
  BY BasesAndCaps, VolumesAssumption DEF CapsFit
<1>2. (base + cap - 1) % Word = base + cap - 1 /\ (base + b) % Word = base + b
  <2> HIDE DEF base, cap
  <2>1. base + cap - 1 \in 0..(Word - 1) /\ base + b \in 0..(Word - 1)
    BY <1>1 DEF cap
  <2>2. PICK x \in 0..(Word - 1), y \in 0..(Word - 1) : x = base + cap - 1 /\ y = base + b
    BY <2>1
  <2>3. x % Word = x /\ y % Word = y
    BY <1>1
  <2> QED
    BY <2>2, <2>3
<1>3. Physical(v, b) = base + b /\ LastBlock(v2pmaps[v]) = base + cap - 1
  BY <1>2 DEF Physical, LastBlock
<1> HIDE DEF base, cap
<1>4. base + b <= base + cap - 1 /\ base + cap - 1 \in Nat
  BY <1>1 DEF cap
<1> QED
  BY <1>3, <1>4 DEF base

\* Blocks of volumes that do not overlap are different blocks.
LEMMA BlocksApart ==
  ASSUME VolumesInv, CapsFit, ~overlapped,
         NEW v \in DOMAIN v2pmaps, NEW b \in Nat, b < v2pmaps[v].vBlkID_cap,
         NEW w \in DOMAIN v2pmaps, NEW c \in Nat, c < v2pmaps[w].vBlkID_cap,
         Physical(v, b) = Physical(w, c)
  PROVE  v = w /\ b = c
<1> DEFINE x == v2pmaps[v].pBlkID_base
           y == v2pmaps[w].pBlkID_base
           l == LastBlock(v2pmaps[v])
           m == LastBlock(v2pmaps[w])
<1>1. Physical(v, b) = x + b /\ x + b <= l /\ l \in Nat /\ x \in Nat
  BY BlocksWithin, BasesAndCaps
<1>2. Physical(w, c) = y + c /\ y + c <= m /\ m \in Nat /\ y \in Nat
  BY BlocksWithin, BasesAndCaps
<1>3. x + b = y + c
  BY <1>1, <1>2
<1> HIDE DEF x, y, l, m
<1>4. x <= m /\ y <= l
  BY <1>1, <1>2, <1>3
<1>5. v = w
  <2>1. TestOverlapVM(v2pmaps[v], v2pmaps[w])
    BY <1>4 DEF TestOverlapVM, x, y, l, m
  <2> QED
    BY <2>1 DEF VolumesInv
<1>6. x = y
  BY <1>5 DEF x, y
<1> QED
  BY <1>1, <1>2, <1>3, <1>5, <1>6

LEMMA VolumesAreApart == VolumesInv /\ CapsFit => VolumesApart
<1> SUFFICES ASSUME VolumesInv, CapsFit PROVE VolumesApart
  OBVIOUS
<1>1. \A n \in DOMAIN voltab : voltab[n] \in DOMAIN v2pmaps
  BY DEF VolumesInv
<1>2. ASSUME ~overlapped, NEW v \in DOMAIN v2pmaps, NEW w \in DOMAIN v2pmaps, v # w
      PROVE  Extent(v) \cap Extent(w) = {}
  <2> SUFFICES ASSUME NEW x \in Extent(v), x \in Extent(w) PROVE FALSE
    OBVIOUS
  <2>1. PICK b \in 0..(v2pmaps[v].vBlkID_cap - 1) : x = Physical(v, b)
    BY DEF Extent
  <2>2. PICK c \in 0..(v2pmaps[w].vBlkID_cap - 1) : x = Physical(w, c)
    BY DEF Extent
  <2>3. /\ b \in Nat /\ b < v2pmaps[v].vBlkID_cap
        /\ c \in Nat /\ c < v2pmaps[w].vBlkID_cap
    BY BasesAndCaps
  <2> QED
    BY <1>2, <2>1, <2>2, <2>3, BlocksApart
<1> QED
  BY <1>1, <1>2 DEF VolumesApart, VolumesInv

\* Two volumes are found to overlap where they share a block, or where one of
\* them is empty and starts at block 0 or inside the other.
LEMMA OverlapFound ==
  ASSUME NEW v \in VmType, NEW w \in VmType,
         v.pBlkID_base < Word, v.pBlkID_base + v.vBlkID_cap <= Word,
         w.pBlkID_base < Word, w.pBlkID_base + w.vBlkID_cap <= Word
  PROVE  TestOverlapVM(v, w) <=>
           \/ v.pBlkID_base..(v.pBlkID_base + v.vBlkID_cap - 1)
                \cap w.pBlkID_base..(w.pBlkID_base + w.vBlkID_cap - 1) # {}
           \/ FoundInside(v, w) \/ FoundInside(w, v)
<1> DEFINE x == v.pBlkID_base
           m == v.vBlkID_cap
           y == w.pBlkID_base
           n == w.vBlkID_cap
<1>1. x \in Nat /\ m \in Nat /\ y \in Nat /\ n \in Nat /\ Word \in Nat \ {0}
  BY VolumesAssumption DEF VmType, Bases
<1>2. x < Word /\ x + m <= Word /\ y < Word /\ y + n <= Word
  OBVIOUS
<1>3. ASSUME NEW b \in Nat, NEW c \in Nat, b < Word, b + c <= Word
      PROVE  (b + c - 1) % Word = IF b + c = 0 THEN Word - 1 ELSE b + c - 1
  <2>1. CASE b + c = 0
    <3>1. b + c - 1 = -1
      BY <2>1
    <3>2. (-1) % Word = Word - 1
      <4>1. Word = 1 \/ Word > 1
        BY <1>1
      <4> QED
        BY <1>1, <4>1
    <3> QED
      BY <2>1, <3>1, <3>2
  <2>2. CASE b + c # 0
    <3>1. PICK z \in 0..(Word - 1) : z = b + c - 1
      BY <1>1, <1>3, <2>2
    <3>2. z % Word = z
      BY <1>1
    <3> QED
      BY <2>2, <3>1, <3>2
  <2> QED
    BY <2>1, <2>2
<1>4. /\ LastBlock(v) = IF x + m = 0 THEN Word - 1 ELSE x + m - 1
      /\ LastBlock(w) = IF y + n = 0 THEN Word - 1 ELSE y + n - 1
  BY <1>1, <1>2, <1>3 DEF LastBlock
<1>5. TestOverlapVM(v, w) <=>
        /\ x <= IF y + n = 0 THEN Word - 1 ELSE y + n - 1
        /\ y <= IF x + m = 0 THEN Word - 1 ELSE x + m - 1
  BY <1>4 DEF TestOverlapVM
<1>6. /\ FoundInside(v, w) <=> m = 0 /\ (x = 0 \/ x - y \in 1..(n - 1))
      /\ FoundInside(w, v) <=> n = 0 /\ (y = 0 \/ y - x \in 1..(m - 1))
  BY DEF FoundInside
<1>7. x..(x + m - 1) \cap y..(y + n - 1) # {} <=>
        m > 0 /\ n > 0 /\ x <= y + n - 1 /\ y <= x + m - 1
  <2> HIDE DEF x, m, y, n
  <2>1. ASSUME NEW z \in x..(x + m - 1), z \in y..(y + n - 1)
        PROVE  m > 0 /\ n > 0 /\ x <= y + n - 1 /\ y <= x + m - 1
    BY <1>1, <2>1
  <2>2. ASSUME m > 0, n > 0, x <= y + n - 1, y <= x + m - 1
        PROVE  \E z : z \in x..(x + m - 1) /\ z \in y..(y + n - 1)
    <3>1. CASE x <= y
      <4>1. y \in x..(x + m - 1) /\ y \in y..(y + n - 1)
        BY <1>1, <2>2, <3>1
      <4> QED
        BY <4>1
    <3>2. CASE y <= x
      <4>1. x \in x..(x + m - 1) /\ x \in y..(y + n - 1)
        BY <1>1, <2>2, <3>2
      <4> QED
        BY <4>1
    <3> QED
      BY <1>1, <3>1, <3>2
  <2> QED
    BY <2>1, <2>2
<1> HIDE DEF x, m, y, n
<1>8. (/\ x <= IF y + n = 0 THEN Word - 1 ELSE y + n - 1
       /\ y <= IF x + m = 0 THEN Word - 1 ELSE x + m - 1) <=>
        \/ m > 0 /\ n > 0 /\ x <= y + n - 1 /\ y <= x + m - 1
        \/ m = 0 /\ (x = 0 \/ x - y \in 1..(n - 1))
        \/ n = 0 /\ (y = 0 \/ y - x \in 1..(m - 1))
  BY <1>1, <1>2
<1> QED
  BY <1>5, <1>6, <1>7, <1>8 DEF x, m, y, n

\* The blocks of a volume.
LEMMA ExtentIs ==
  ASSUME VolumesInv, CapsFit, NEW i \in DOMAIN v2pmaps
  PROVE  Extent(i) =
           v2pmaps[i].pBlkID_base..(v2pmaps[i].pBlkID_base + v2pmaps[i].vBlkID_cap - 1)
<1> DEFINE base == v2pmaps[i].pBlkID_base
           cap == v2pmaps[i].vBlkID_cap
<1>1. base \in Nat /\ cap \in Nat
  BY BasesAndCaps
<1>2. \A b \in 0..(cap - 1) : Physical(i, b) = base + b
  <2> SUFFICES ASSUME NEW b \in 0..(cap - 1) PROVE Physical(i, b) = base + b
    OBVIOUS
  <2>1. b \in Nat /\ b < cap
    BY <1>1
  <2> QED
    BY <2>1, BlocksWithin
<1>3. Extent(i) = {base + b : b \in 0..(cap - 1)}
  BY <1>2 DEF Extent
<1> HIDE DEF base, cap
<1>4. ASSUME NEW z \in base..(base + cap - 1)
      PROVE  z \in {base + b : b \in 0..(cap - 1)}
  <2>1. z - base \in 0..(cap - 1) /\ z = base + (z - base)
    BY <1>1, <1>4
  <2> QED
    BY <2>1
<1>5. {base + b : b \in 0..(cap - 1)} \subseteq base..(base + cap - 1)
  BY <1>1
<1>6. Extent(i) = base..(base + cap - 1)
  BY <1>3, <1>4, <1>5
<1> QED
  BY <1>6 DEF base, cap

\* A line of the mapping is refused for a shared block, or an empty volume.
LEMMA RefusedLines == VolumesInv /\ CapsFit => LinesRefused
<1> SUFFICES ASSUME VolumesInv, CapsFit, NEW row \in Rows, row.vmname \notin DOMAIN voltab
             PROVE  ~VerifyVmInfo(row) <=>
                      \E i \in DOMAIN v2pmaps :
                        \/ Extent(i) \cap row.base..(row.base + row.cap - 1) # {}
                        \/ FoundInside(v2pmaps[i], VmInfo(row.base, row.cap))
                        \/ FoundInside(VmInfo(row.base, row.cap), v2pmaps[i])
  BY DEF LinesRefused
<1> DEFINE w == VmInfo(row.base, row.cap)
<1>1. /\ w \in VmType /\ w.pBlkID_base = row.base /\ w.vBlkID_cap = row.cap
      /\ w.pBlkID_base < Word /\ w.pBlkID_base + w.vBlkID_cap <= Word
  BY VolumesAssumption DEF VmInfo, VmType, Bases
<1>2. ~VerifyVmInfo(row) <=> \E i \in DOMAIN v2pmaps : TestOverlapVM(v2pmaps[i], w)
  BY DEF VerifyVmInfo
<1> HIDE DEF w
<1>3. ASSUME NEW i \in DOMAIN v2pmaps
      PROVE  TestOverlapVM(v2pmaps[i], w) <=>
               \/ Extent(i) \cap row.base..(row.base + row.cap - 1) # {}
               \/ FoundInside(v2pmaps[i], w) \/ FoundInside(w, v2pmaps[i])
  <2>1. v2pmaps[i] \in VmType /\ v2pmaps[i].pBlkID_base \in Bases
    BY BasesAndCaps
  <2>2. v2pmaps[i].pBlkID_base < Word
    BY <2>1, VolumesAssumption DEF Bases
  <2>3. v2pmaps[i].pBlkID_base + v2pmaps[i].vBlkID_cap <= Word
    BY DEF CapsFit
  <2> QED
    BY <1>1, <2>1, <2>2, <2>3, OverlapFound, ExtentIs
<1> QED
  BY <1>2, <1>3 DEF w

\* What the steps of the volumes do, together.
LEMMA VolumesKept ==
  ASSUME VolumesInv, UNCHANGED volumeVars
  PROVE  VolumesInv' /\ VolumesGrow /\ (CapsFit => CapsFit')
<1>1. VolumesInv' /\ (CapsFit => CapsFit')
  BY DEF volumeVars, VolumesInv, numVolID, CapsFit
<1>2. \A i \in DOMAIN v2pmaps : v2pmaps[i].vBlkID_cap <= v2pmaps[i].vBlkID_cap
  BY BasesAndCaps
<1> QED
  BY <1>1, <1>2 DEF volumeVars, VolumesGrow

LEMMA VolumeOfRow ==
  ASSUME VolumesInv, DOMAIN voltab \subseteq Names, NEW row \in Rows, InterpretOneV2pMap(row)
  PROVE  /\ VolumesInv' /\ VolumesGrow /\ (CapsFit => CapsFit')
         /\ DOMAIN voltab' \subseteq Names
<1> DEFINE v == VmInfo(row.base, row.cap)
<1>1. v \in VmType /\ v.pBlkID_base + v.vBlkID_cap <= Word
  BY VolumesAssumption DEF VmInfo, VmType, Bases
<1>2. /\ row.vmname \in Names /\ row.vmname \notin DOMAIN voltab
      /\ \A i \in DOMAIN v2pmaps : ~TestOverlapVM(v2pmaps[i], v)
      /\ AddVolume(row.vmname, v)
  BY DEF InterpretOneV2pMap, VerifyVmInfo, Names
<1> HIDE DEF v
<1>3. /\ VolumesInv'
      /\ DOMAIN voltab' = DOMAIN voltab \cup {row.vmname}
      /\ DOMAIN v2pmaps' = DOMAIN v2pmaps \cup {numVolID}
      /\ \A i \in DOMAIN v2pmaps : v2pmaps'[i] = v2pmaps[i]
      /\ v2pmaps'[numVolID] = v
  BY <1>1, <1>2, VolumeAdded
<1>4. VolumesGrow
  <2>1. \A i \in DOMAIN v2pmaps : v2pmaps[i].vBlkID_cap <= v2pmaps[i].vBlkID_cap
    BY BasesAndCaps
  <2> QED
    BY <1>2, <1>3, <2>1 DEF VolumesGrow, AddVolume
<1> QED
  BY <1>1, <1>2, <1>3, <1>4 DEF CapsFit

LEMMA VolumeOfName ==
  ASSUME VolumesInv, NEW name, NameIsMet(name), GetVolID(name)
  PROVE  /\ VolumesInv' /\ VolumesGrow /\ (CapsFit => CapsFit')
         /\ VolumeOf(name) \in DOMAIN v2pmaps'
<1>1. CASE name \in DOMAIN voltab
  BY <1>1, VolumesKept DEF GetVolID, VolumeOf, volumeVars, VolumesInv
<1>2. CASE name \notin DOMAIN voltab
  <2> DEFINE v == VmInfo(0, 0)
  <2>1. v \in VmType /\ v.pBlkID_base + v.vBlkID_cap <= Word
    BY VolumesAssumption DEF VmInfo, VmType, Bases
  <2>2. /\ numVolID = 0 /\ AddVolume(name, v)
        /\ VolumeOf(name) = numVolID
    BY <1>2 DEF GetVolID, NameIsMet, VolumeOf
  <2> HIDE DEF v
  <2>3. DOMAIN v2pmaps = {}
    <3>1. 0..(numVolID - 1) = {}
      BY <2>2
    <3> QED
      BY <3>1 DEF VolumesInv
  <2>4. /\ VolumesInv'
        /\ DOMAIN v2pmaps' = DOMAIN v2pmaps \cup {numVolID}
        /\ v2pmaps'[numVolID] = v
    BY <1>2, <2>1, <2>2, <2>3, VolumeAdded
  <2>5. VolumesGrow
    BY <2>2, <2>3 DEF VolumesGrow, AddVolume
  <2> QED
    BY <2>1, <2>2, <2>3, <2>4, <2>5 DEF CapsFit
<1> QED
  BY <1>1, <1>2

-----------------------------------------------------------------------------
\* The replay.
SpecType == [rw : {"read", "write"}, volidx : Nat, block : Nat, contents : Seq(Contents)]
PktType == [place : Places, content : Contents]
Stages == {"mapping", "idle", "convert", "find", "fill", "cache", "store", "aborted", "crashed"}

\* What is left of the record in progress, and the bunch that it is turned
\* into.
RequestInv ==
  /\ stage \in Stages
  /\ warmup \in BOOLEAN
  /\ bunch \in Seq(PktType)
  /\ \A pkt \in ToSet(bunch) : pkt \in PktType /\ Mapped(pkt.place)
  /\ stage = "mapping" => DOMAIN voltab \subseteq Names
  /\ stage \in {"mapping", "idle"} => bunch = <<>>
  /\ stage \in {"find", "fill", "cache", "store"} => bunch # <<>>
  /\ stage \in {"find", "fill"} => spec.rw = "read"
  /\ stage \in {"cache", "store"} => spec.rw # "read"
  /\ stage = "convert" =>
       /\ spec \in SpecType
       /\ spec.volidx \in DOMAIN v2pmaps
       /\ \E r \in Records :
            /\ r.block <= spec.block
            /\ spec.block + Len(spec.contents) = r.block + r.count

\* A block that is to be read has on the disk the content of the bunch.
ReadsTrue ==
  stage \in {"convert", "find", "fill"} /\ spec.rw = "read" =>
    \A pkt \in ToSet(bunch) : Seen(pkt.place) /\ Fetched(pkt.place) = pkt.content

\* The block that is in the cache already and not yet on the disk.
InFlight(p) == stage = "store" /\ p = place

\* An entry of the cache is what the disk has of a block of a volume.
CacheTrue ==
  collectformat /\ ~overlapped =>
    \A x \in Cached : \E p \in Places :
      /\ Mapped(p) /\ Physical(p[1], p[2]) = x
      /\ IF InFlight(p) THEN ValueOf(x) = content ELSE Seen(p) /\ ValueOf(x) = Fetched(p)

StandardInv ==
  /\ DiskInv
  /\ VolumesInv
  /\ LruTypeOK
  /\ RequestInv
  /\ warmup => Cached = {}
  /\ TraceFits => CapsFit
  /\ DiskFits => ReadsTrue
  /\ TraceFits /\ DiskFits => CacheTrue
  /\ TraceFits /\ DiskFits => AbortsOnOverlap

\* A mapped block stays mapped, to the same physical block.
LEMMA MappedStays ==
  ASSUME VolumesInv, VolumesInv', VolumesGrow, NEW p \in Places, Mapped(p)
  PROVE  Mapped(p)' /\ Physical(p[1], p[2])' = Physical(p[1], p[2])
<1>1. p[1] \in DOMAIN v2pmaps /\ p[1] \in DOMAIN v2pmaps' /\ p[2] \in Nat
  BY SimDiskAssumption DEF Mapped, VolumesGrow
<1>2. v2pmaps[p[1]].vBlkID_cap \in Nat
  BY <1>1, BasesAndCaps
<1>3. v2pmaps'[p[1]].vBlkID_cap \in Nat
  BY <1>1 DEF VolumesInv, VmType
<1>4. /\ v2pmaps'[p[1]].pBlkID_base = v2pmaps[p[1]].pBlkID_base
      /\ v2pmaps[p[1]].vBlkID_cap <= v2pmaps'[p[1]].vBlkID_cap
      /\ p[2] < v2pmaps[p[1]].vBlkID_cap
  BY <1>1 DEF VolumesGrow, Mapped
<1>5. p[2] < v2pmaps'[p[1]].vBlkID_cap
  BY <1>1, <1>2, <1>3, <1>4
<1> QED
  BY <1>1, <1>4, <1>5 DEF Mapped, Physical

\* What a step of the disk leaves alone: all but the block written.
DiskKeeps(but) ==
  /\ collectformat' = collectformat
  /\ DiskFits' => DiskFits
  /\ \A q \in Places : Seen(q) => Seen(q)'
  /\ DiskFits' => \A q \in Places : Seen(q) /\ q \notin but => Fetched(q)' = Fetched(q)

LEMMA DiskUntouched ==
  ASSUME DiskInv, UNCHANGED diskVars
  PROVE  DiskInv' /\ DiskKeeps({})
BY SameDisk DEF DiskKeeps, diskVars

LEMMA DiskWritten ==
  ASSUME DiskInv, NEW p \in Places, NEW k \in Contents, DiskWriteTrap(p, k)
  PROVE  /\ DiskInv' /\ DiskKeeps({p})
         /\ Seen(p)' /\ Fetched(p)' = k
         /\ \A q \in Places : Seen(q)' <=> Seen(q) \/ q = p
<1>1. CASE Seen(p)
  <2>1. PutInFile(Search(DiskKey[p]), k) /\ UNCHANGED <<collectformat, chains, simdisk_blkid>>
    BY <1>1 DEF DiskWriteTrap
  <2>2. /\ DiskInv'
        /\ \A q \in Places : Seen(q)' = Seen(q)
        /\ Fetched(p)' = k
        /\ DiskFits => \A q \in Places : q # p /\ Seen(q) => Fetched(q)' = Fetched(q)
    BY <1>1, <2>1, BlockReplaced
  <2>3. DiskFits' = DiskFits
    BY <2>1 DEF DiskFits
  <2> QED
    BY <1>1, <2>1, <2>2, <2>3 DEF DiskKeeps
<1>2. CASE ~Seen(p)
  <2>1. NewBlock(p, k)
    BY <1>2 DEF DiskWriteTrap
  <2>2. /\ DiskInv'
        /\ simdisk_blkid' = simdisk_blkid + 1
        /\ \A q \in Places : Seen(q)' <=> Seen(q) \/ q = p
        /\ Fetched(p)' = k
        /\ DiskFits' => \A q \in Places : Seen(q) => Fetched(q)' = Fetched(q)
    BY <1>2, <2>1, BlockCreated
  <2>3. collectformat' = collectformat
    BY <2>1 DEF NewBlock
  <2>4. DiskFits' => DiskFits
    BY <2>2, <2>3, SimDiskAssumption DEF DiskFits, DiskInv
  <2> QED
    BY <2>2, <2>3, <2>4 DEF DiskKeeps
<1> QED
  BY <1>1, <1>2

LEMMA DiskChecked ==
  ASSUME DiskInv, NEW p \in Places, NEW k \in Contents, DiskReadCheckconsistency(p, k)
  PROVE  /\ DiskInv' /\ DiskKeeps({})
         /\ Checked(p, k) \in Contents
         /\ Seen(p)' /\ Fetched(p)' = Checked(p, k)
<1>1. CASE Seen(p)
  <2>1. UNCHANGED diskVars
    BY <1>1 DEF DiskReadCheckconsistency
  <2>2. Fetched(p) \in Contents
    BY <1>1, SeenBlock DEF SeenFacts
  <2> QED
    BY <1>1, <2>1, <2>2, DiskUntouched, SameDisk DEF Checked
<1>2. CASE ~Seen(p)
  <2>1. DiskWriteTrap(p, k)
    BY <1>2 DEF DiskReadCheckconsistency, DiskWriteTrap
  <2>2. DiskInv' /\ DiskKeeps({p}) /\ Seen(p)' /\ Fetched(p)' = k
    BY <2>1, DiskWritten
  <2>3. DiskKeeps({})
    BY <1>2, <2>2 DEF DiskKeeps
  <2> QED
    BY <1>2, <2>2, <2>3 DEF Checked
<1> QED
  BY <1>1, <1>2

\* The cache stays true while it only loses entries.
LEMMA CacheStaysTrue ==
  ASSUME StandardInv, VolumesInv', VolumesGrow, DiskKeeps({}), TraceFits, DiskFits',
         stage # "store", stage' # "store",
         Cached' \subseteq Cached, \A x \in Cached' : ValueOf(x)' = ValueOf(x)
  PROVE  CacheTrue'
<1> SUFFICES ASSUME collectformat', ~overlapped', NEW x \in Cached'
             PROVE  \E p \in Places : /\ Mapped(p)' /\ Physical(p[1], p[2])' = x
                                      /\ Seen(p)' /\ ValueOf(x)' = Fetched(p)'
  BY DEF CacheTrue, InFlight
<1>1. CacheTrue /\ collectformat /\ ~overlapped
  BY DEF StandardInv, DiskKeeps, VolumesGrow
<1>2. PICK p \in Places : /\ Mapped(p) /\ Physical(p[1], p[2]) = x
                          /\ Seen(p) /\ ValueOf(x) = Fetched(p)
  BY <1>1 DEF CacheTrue, InFlight
<1>3. Seen(p)' /\ Fetched(p)' = Fetched(p)
  BY <1>2 DEF DiskKeeps
<1> QED
  BY <1>2, <1>3, MappedStays DEF StandardInv

\* The contents of a bunch that loses blocks stay true.
LEMMA ReadsStayTrue ==
  ASSUME StandardInv, DiskKeeps({}), DiskFits',
         stage' \in {"convert", "find", "fill"} /\ spec'.rw = "read" =>
           /\ stage \in {"convert", "find", "fill"} /\ spec.rw = "read"
           /\ ToSet(bunch') \subseteq ToSet(bunch)
  PROVE  ReadsTrue'
<1> SUFFICES ASSUME stage' \in {"convert", "find", "fill"}, spec'.rw = "read",
                    NEW pkt \in ToSet(bunch')
             PROVE  Seen(pkt.place)' /\ Fetched(pkt.place)' = pkt.content
  BY DEF ReadsTrue
<1>1. pkt \in ToSet(bunch)
  OBVIOUS
<1>2. Seen(pkt.place) /\ Fetched(pkt.place) = pkt.content
  BY <1>1 DEF StandardInv, DiskKeeps, ReadsTrue
<1>3. pkt.place \in Places
  BY <1>1 DEF StandardInv, RequestInv, PktType
<1> QED
  BY <1>2, <1>3 DEF DiskKeeps

\* A step that writes nothing to the cache or over a block of the disk.
LEMMA QuietStep ==
  ASSUME StandardInv, DiskInv', DiskKeeps({}),
         VolumesInv', VolumesGrow, TraceFits /\ CapsFit => CapsFit',
         LruTypeOK', Cached' \subseteq Cached, \A x \in Cached' : ValueOf(x)' = ValueOf(x),
         RequestInv', stage # "store", stage' # "store",
         warmup' => warmup,
         DiskFits' => ReadsTrue',
         stage' = "aborted" /\ TraceFits /\ DiskFits => overlapped
  PROVE  StandardInv'
<1>1. TraceFits /\ DiskFits' => CacheTrue'
  BY CacheStaysTrue
<1>2. TraceFits' = TraceFits
  BY DEF TraceFits
<1>3. (TraceFits /\ DiskFits')  => AbortsOnOverlap'
  BY DEF AbortsOnOverlap, VolumesGrow, DiskKeeps
<1>4. warmup' => Cached' = {}
  BY DEF StandardInv
<1> QED
  BY <1>1, <1>2, <1>3, <1>4 DEF StandardInv

\* The block at the head of the bunch.
LEMMA HeadOfBunch ==
  ASSUME StandardInv, stage \in {"find", "fill", "cache", "store"}
  PROVE  /\ bunch # <<>> /\ Head(bunch) \in ToSet(bunch)
         /\ place \in Places /\ content \in Contents
         /\ Mapped(place) /\ ioblk \in Blocks
         /\ ioblk = Physical(place[1], place[2])
         /\ Tail(bunch) \in Seq(PktType) /\ ToSet(Tail(bunch)) \subseteq ToSet(bunch)
<1>1. bunch \in Seq(PktType) /\ bunch # <<>>
  BY DEF StandardInv, RequestInv
<1>2. Head(bunch) \in ToSet(bunch)
  <2>1. Len(bunch) \in Nat \ {0} /\ DOMAIN bunch = 1..Len(bunch) /\ Head(bunch) = bunch[1]
    BY <1>1, EmptySeq, LenProperties, HeadTailProperties
  <2> QED
    BY <2>1 DEF ToSet
<1>3. Tail(bunch) \in Seq(PktType) /\ ToSet(Tail(bunch)) \subseteq ToSet(bunch)
  <2>1. /\ Tail(bunch) \in Seq(PktType)
        /\ Len(Tail(bunch)) = Len(bunch) - 1
        /\ \A i \in 1..Len(Tail(bunch)) : Tail(bunch)[i] = bunch[i + 1]
    BY <1>1, HeadTailProperties
  <2>2. /\ Len(bunch) \in Nat /\ DOMAIN bunch = 1..Len(bunch)
        /\ DOMAIN Tail(bunch) = 1..Len(Tail(bunch))
    BY <1>1, <2>1, LenProperties
  <2>3. \A i \in DOMAIN Tail(bunch) : i + 1 \in DOMAIN bunch
    BY <2>1, <2>2
  <2> QED
    BY <2>1, <2>2, <2>3 DEF ToSet
<1>4. place \in Places /\ content \in Contents /\ Mapped(place)
  BY <1>2 DEF place, content, PktType, StandardInv, RequestInv
<1>5. ioblk \in Blocks
  BY <1>4, BlocksOfVolume DEF ioblk, StandardInv
<1> QED
  BY <1>1, <1>2, <1>3, <1>4, <1>5 DEF ioblk

\* The blocks of a bunch stay mapped.
LEMMA BunchStaysMapped ==
  ASSUME StandardInv, VolumesInv', VolumesGrow, ToSet(bunch') \subseteq ToSet(bunch)
  PROVE  \A pkt \in ToSet(bunch') : pkt \in PktType /\ Mapped(pkt.place)'
<1> SUFFICES ASSUME NEW pkt \in ToSet(bunch') PROVE pkt \in PktType /\ Mapped(pkt.place)'
  OBVIOUS
<1>1. pkt \in PktType /\ Mapped(pkt.place) /\ pkt.place \in Places
  BY DEF StandardInv, RequestInv, PktType
<1> QED
  BY <1>1, MappedStays DEF StandardInv

\* The next block, when one is done.
LEMMA NextBlock ==
  ASSUME StandardInv, stage \in {"find", "fill", "store"}, BlockDone, VolumesInv', VolumesGrow
  PROVE  /\ RequestInv'
         /\ stage' \in {"idle", "find", "cache"} /\ spec' = spec /\ warmup' = warmup
         /\ ToSet(bunch') \subseteq ToSet(bunch)
<1>1. /\ bunch' = Tail(bunch) /\ stage' = NextStage(Tail(bunch))
      /\ warmup' = warmup /\ spec' = spec
  BY DEF BlockDone
<1>2. bunch' \in Seq(PktType) /\ ToSet(bunch') \subseteq ToSet(bunch)
  BY <1>1, HeadOfBunch
<1>3. stage' = IF bunch' = <<>> THEN "idle" ELSE IF spec'.rw = "read" THEN "find" ELSE "cache"
  BY <1>1 DEF NextStage
<1>4. \A pkt \in ToSet(bunch') : pkt \in PktType /\ Mapped(pkt.place)'
  BY <1>2, BunchStaysMapped
<1>5. warmup' \in BOOLEAN
  BY <1>1 DEF StandardInv, RequestInv
<1>6. RequestInv'
  BY <1>2, <1>3, <1>4, <1>5 DEF RequestInv, Stages
<1> QED
  BY <1>1, <1>2, <1>3, <1>6

\* What holds where the cache is not touched.
LEMMA SameCache ==
  ASSUME UNCHANGED entries
  PROVE  /\ LruTypeOK => LruTypeOK'
         /\ Cached' = Cached /\ \A x : ValueOf(x)' = ValueOf(x)
BY DEF LruTypeOK, Cached, CachedIn, ValueOf

LEMMA StandardInitially == StandardInit => StandardInv
<1> SUFFICES ASSUME StandardInit PROVE StandardInv
  OBVIOUS
<1>1. LruTypeOK /\ Cached = {}
  BY LruInitially DEF StandardInit
<1>2. DiskInv
  BY DiskInitially DEF StandardInit
<1>3. VolumesInv /\ DOMAIN voltab = {}
  BY VolumesInitially DEF StandardInit
<1>4. RequestInv
  <2>1. ToSet(bunch) = {} /\ bunch \in Seq(PktType)
    BY EmptySeq DEF StandardInit, ToSet
  <2> QED
    BY <1>3, <2>1 DEF RequestInv, StandardInit, Stages
<1>5. CapsFit
  BY DEF CapsFit, StandardInit, VolumesInit
<1> QED
  BY <1>1, <1>2, <1>3, <1>4, <1>5
  DEF StandardInv, StandardInit, ReadsTrue, CacheTrue, AbortsOnOverlap

LEMMA MappingStep ==
  ASSUME StandardInv, NEW row \in Rows, ReadMapping(row)
  PROVE  StandardInv'
<1>1. /\ stage = "mapping" /\ InterpretOneV2pMap(row)
      /\ UNCHANGED <<entries, diskVars, warmup, stage, spec, bunch, reply>>
  BY DEF ReadMapping, requestVars
<1>2. /\ VolumesInv' /\ VolumesGrow /\ (CapsFit => CapsFit')
      /\ DOMAIN voltab' \subseteq Names
  BY <1>1, VolumeOfRow DEF StandardInv, RequestInv
<1>3. DiskInv' /\ DiskKeeps({})
  BY <1>1, DiskUntouched DEF StandardInv
<1>4. LruTypeOK' /\ Cached' = Cached /\ \A x : ValueOf(x)' = ValueOf(x)
  BY <1>1, SameCache DEF StandardInv
<1>5. RequestInv'
  <2>1. \A pkt \in ToSet(bunch') : pkt \in PktType /\ Mapped(pkt.place)'
    BY <1>1, <1>2, BunchStaysMapped
  <2> QED
    BY <1>1, <1>2, <2>1 DEF RequestInv, StandardInv
<1>6. DiskFits' => ReadsTrue'
  BY <1>1 DEF ReadsTrue
<1> QED
  BY <1>1, <1>2, <1>3, <1>4, <1>5, <1>6, QuietStep

\* The steps between the records of the trace.
LEMMA IdleStep ==
  ASSUME StandardInv, EndMapping \/ EndWarmup \/ \E r \in Records : TakeUpUnknown(r)
  PROVE  StandardInv'
<1>1. /\ stage \in {"mapping", "idle"} /\ stage' \in {"idle", "crashed"}
      /\ UNCHANGED <<entries, diskVars, volumeVars, spec, bunch, reply>>
      /\ warmup' = warmup \/ warmup' = FALSE
  BY DEF EndMapping, EndWarmup, TakeUpUnknown, requestVars
<1>2. VolumesInv' /\ VolumesGrow /\ (CapsFit => CapsFit')
  BY <1>1, VolumesKept DEF StandardInv
<1>3. DiskInv' /\ DiskKeeps({})
  BY <1>1, DiskUntouched DEF StandardInv
<1>4. LruTypeOK' /\ Cached' = Cached /\ \A x : ValueOf(x)' = ValueOf(x)
  BY <1>1, SameCache DEF StandardInv
<1>5. RequestInv'
  <2>1. \A pkt \in ToSet(bunch') : pkt \in PktType /\ Mapped(pkt.place)'
    BY <1>1, <1>2, BunchStaysMapped
  <2> QED
    BY <1>1, <2>1 DEF RequestInv, StandardInv, Stages
<1>6. DiskFits' => ReadsTrue'
  BY <1>1 DEF ReadsTrue
<1> QED
  BY <1>1, <1>2, <1>3, <1>4, <1>5, <1>6, QuietStep DEF StandardInv, RequestInv

LEMMA TakeUpStep ==
  ASSUME StandardInv, NEW r \in Records, NEW ks \in [1..r.count -> Contents],
         NEW rw \in {"read", "write"}, TakeUp(rw, r, ks)
  PROVE  StandardInv'
<1>1. /\ stage = "idle" /\ stage' = "convert" /\ Len(ks) = r.count
      /\ NameIsMet(r.vmname) /\ GetVolID(r.vmname)
      /\ spec' = [rw |-> rw, volidx |-> VolumeOf(r.vmname), block |-> r.block, contents |-> ks]
      /\ UNCHANGED <<entries, diskVars, warmup, bunch, reply>>
  BY DEF TakeUp
<1>2. /\ VolumesInv' /\ VolumesGrow /\ (CapsFit => CapsFit')
      /\ VolumeOf(r.vmname) \in DOMAIN v2pmaps'
  BY <1>1, VolumeOfName DEF StandardInv
<1>3. DiskInv' /\ DiskKeeps({})
  BY <1>1, DiskUntouched DEF StandardInv
<1>4. LruTypeOK' /\ Cached' = Cached /\ \A x : ValueOf(x)' = ValueOf(x)
  BY <1>1, SameCache DEF StandardInv
<1>5. RequestInv'
  <2>1. \A pkt \in ToSet(bunch') : pkt \in PktType /\ Mapped(pkt.place)'
    BY <1>1, <1>2, BunchStaysMapped
  <2>2. r.count \in Nat /\ r.block \in Nat
    BY StandardAssumption
  <2>3. ks \in Seq(Contents)
    BY <2>2
  <2>4. VolumeOf(r.vmname) \in Nat
    BY <1>2 DEF VolumesInv
  <2>5. spec' \in SpecType
    BY <1>1, <2>2, <2>3, <2>4 DEF SpecType
  <2>6. r.block <= spec'.block /\ spec'.block + Len(spec'.contents) = r.block + r.count
    BY <1>1, <2>2
  <2>7. spec'.volidx \in DOMAIN v2pmaps'
    BY <1>1, <1>2
  <2> QED
    BY <1>1, <2>1, <2>5, <2>6, <2>7 DEF RequestInv, StandardInv, Stages
<1>6. DiskFits' => ReadsTrue'
  <2>1. ToSet(bunch') = {}
    BY <1>1 DEF StandardInv, RequestInv, ToSet
  <2> QED
    BY <2>1 DEF ReadsTrue
<1> QED
  BY <1>1, <1>2, <1>3, <1>4, <1>5, <1>6, QuietStep DEF StandardInv, RequestInv

\* The next block of the record in progress.
LEMMA BlockOfSpec ==
  ASSUME StandardInv, stage = "convert", spec.contents # <<>>
  PROVE  /\ p0 \in Places /\ k0 \in Contents
         /\ p0[1] \in DOMAIN v2pmaps /\ p0[2] \in Nat
         /\ p0[1] = spec.volidx /\ p0[2] = spec.block
         /\ \E r \in Records : p0[2] + 1 <= r.block + r.count
         /\ NextOfSpec =>
              /\ spec' \in SpecType
              /\ spec'.volidx = spec.volidx /\ spec'.rw = spec.rw
              /\ \E r \in Records :
                   /\ r.block <= spec'.block
                   /\ spec'.block + Len(spec'.contents) = r.block + r.count
<1>1. /\ spec \in SpecType /\ spec.volidx \in DOMAIN v2pmaps
      /\ spec.block \in Nat /\ spec.contents \in Seq(Contents) /\ spec.volidx \in Nat
  BY DEF StandardInv, RequestInv, SpecType
<1>2. PICK r \in Records :
            r.block <= spec.block /\ spec.block + Len(spec.contents) = r.block + r.count
  BY DEF StandardInv, RequestInv
<1>3. /\ Len(spec.contents) \in Nat \ {0} /\ Head(spec.contents) \in Contents
      /\ Tail(spec.contents) \in Seq(Contents)
      /\ Len(Tail(spec.contents)) = Len(spec.contents) - 1
  BY <1>1, EmptySeq, LenProperties, HeadTailProperties
<1>4. r.count \in Nat /\ r.block \in Nat
  BY StandardAssumption
<1>5. p0[1] = spec.volidx /\ p0[2] = spec.block
  BY DEF p0
<1>6. spec.volidx \in VolumeNumbers
  BY <1>1, NumbersOfVolumes DEF StandardInv
<1>7. p0 \in Places
  <2> DEFINE i == spec.block - r.block
  <2>1. i \in 0..(r.count - 1) /\ spec.block = r.block + i
    BY <1>1, <1>2, <1>3, <1>4
  <2> QED
    BY <1>6, <2>1, StandardAssumption DEF p0
<1>8. ASSUME NextOfSpec
      PROVE  /\ spec' \in SpecType
             /\ spec'.volidx = spec.volidx /\ spec'.rw = spec.rw
             /\ r.block <= spec'.block
             /\ spec'.block + Len(spec'.contents) = r.block + r.count
  <2>1. /\ spec' \in SpecType
        /\ spec'.volidx = spec.volidx /\ spec'.rw = spec.rw
        /\ spec'.block = spec.block + 1 /\ spec'.contents = Tail(spec.contents)
    <3>1. spec' = [[spec EXCEPT !.block = spec.block + 1] EXCEPT !.contents = Tail(spec.contents)]
      BY <1>1, <1>8 DEF NextOfSpec, SpecType
    <3>2. [spec EXCEPT !.block = spec.block + 1] \in SpecType
      BY <1>1 DEF SpecType
    <3> QED
      BY <1>1, <1>3, <3>1, <3>2 DEF SpecType
  <2> DEFINE n == Len(spec.contents)
             b == spec.block
  <2>2. n \in Nat \ {0} /\ b \in Nat /\ r.block <= b /\ b + n = r.block + r.count
    BY <1>1, <1>2, <1>3
  <2>3. spec'.block = b + 1 /\ Len(spec'.contents) = n - 1
    BY <1>3, <2>1
  <2> HIDE DEF n, b
  <2> QED
    BY <1>4, <2>1, <2>2, <2>3
<1>9. p0[2] + 1 <= r.block + r.count
  BY <1>1, <1>2, <1>3, <1>4, <1>5
<1> QED
  BY <1>1, <1>3, <1>5, <1>7, <1>8, <1>9 DEF k0

LEMMA SkipStep ==
  ASSUME StandardInv, SkipZeroBlock
  PROVE  StandardInv'
<1>1. /\ stage = "convert" /\ stage' = "convert" /\ spec.contents # <<>> /\ NextOfSpec
      /\ UNCHANGED <<entries, diskVars, volumeVars, warmup, bunch, reply>>
  BY DEF SkipZeroBlock
<1>2. VolumesInv' /\ VolumesGrow /\ (CapsFit => CapsFit')
  BY <1>1, VolumesKept DEF StandardInv
<1>3. DiskInv' /\ DiskKeeps({})
  BY <1>1, DiskUntouched DEF StandardInv
<1>4. LruTypeOK' /\ Cached' = Cached /\ \A x : ValueOf(x)' = ValueOf(x)
  BY <1>1, SameCache DEF StandardInv
<1>5. /\ spec' \in SpecType /\ spec'.volidx = spec.volidx /\ spec'.rw = spec.rw
      /\ \E r \in Records :
           /\ r.block <= spec'.block
           /\ spec'.block + Len(spec'.contents) = r.block + r.count
  BY <1>1, BlockOfSpec
<1>6. RequestInv'
  <2>1. \A pkt \in ToSet(bunch') : pkt \in PktType /\ Mapped(pkt.place)'
    BY <1>1, <1>2, BunchStaysMapped
  <2>2. spec'.volidx \in DOMAIN v2pmaps'
    BY <1>1, <1>5 DEF volumeVars, StandardInv, RequestInv
  <2> QED
    BY <1>1, <1>5, <2>1, <2>2 DEF RequestInv, StandardInv, Stages
<1>7. DiskFits' => ReadsTrue'
  BY <1>1, <1>3, <1>5, ReadsStayTrue
<1> QED
  BY <1>1, <1>2, <1>3, <1>4, <1>6, <1>7, QuietStep

LEMMA ConvertStep ==
  ASSUME StandardInv, ConvertBlock
  PROVE  StandardInv'
<1> DEFINE k == IF spec.rw = "read" THEN Checked(p0, k0) ELSE k0
<1>1. /\ stage = "convert" /\ stage' = "convert" /\ spec.contents # <<>> /\ NextOfSpec
      /\ UpdateVirttoPhysMap(p0[1], p0[2])
      /\ bunch' = Append(bunch, Pkt(p0, k))
      /\ IF spec.rw = "read" THEN DiskReadCheckconsistency(p0, k0) ELSE UNCHANGED diskVars
      /\ UNCHANGED <<entries, warmup, reply>>
  BY DEF ConvertBlock
<1>2. /\ p0 \in Places /\ k0 \in Contents
      /\ p0[1] \in DOMAIN v2pmaps /\ p0[2] \in Nat /\ p0[1] = spec.volidx
      /\ \E r \in Records : p0[2] + 1 <= r.block + r.count
      /\ spec' \in SpecType /\ spec'.volidx = spec.volidx /\ spec'.rw = spec.rw
      /\ \E r \in Records :
           /\ r.block <= spec'.block
           /\ spec'.block + Len(spec'.contents) = r.block + r.count
  BY <1>1, BlockOfSpec
<1>3. PICK p \in Places : p = p0
  BY <1>2
<1>4. /\ VolumesInv' /\ DOMAIN v2pmaps' = DOMAIN v2pmaps
      /\ \A i \in DOMAIN v2pmaps :
           /\ v2pmaps'[i].pBlkID_base = v2pmaps[i].pBlkID_base
           /\ v2pmaps'[i].vBlkID_cap = v2pmaps[i].vBlkID_cap
                \/ (i = p[1] /\ v2pmaps'[i].vBlkID_cap = p[2] + 1)
           /\ v2pmaps[i].vBlkID_cap <= v2pmaps'[i].vBlkID_cap
      /\ p[2] < v2pmaps'[p[1]].vBlkID_cap
      /\ overlapped => overlapped'
  BY <1>1, <1>2, <1>3, CapacityGrown DEF StandardInv
<1>5. VolumesGrow
  BY <1>4 DEF VolumesGrow
<1>6. Mapped(p)'
  BY <1>2, <1>3, <1>4 DEF Mapped
<1>7. ASSUME TraceFits, CapsFit PROVE CapsFit'
  <2> SUFFICES ASSUME NEW i \in DOMAIN v2pmaps
               PROVE  v2pmaps'[i].pBlkID_base + v2pmaps'[i].vBlkID_cap <= Word
    BY <1>4 DEF CapsFit
  <2>1. CASE v2pmaps'[i].vBlkID_cap = v2pmaps[i].vBlkID_cap
    BY <1>4, <1>7, <2>1 DEF CapsFit
  <2>2. CASE v2pmaps'[i].vBlkID_cap = p[2] + 1
    <3>1. PICK r \in Records : p[2] + 1 <= r.block + r.count
      BY <1>2, <1>3
    <3>2. /\ v2pmaps[i].pBlkID_base \in Bases /\ v2pmaps[i].pBlkID_base \in Nat
          /\ r.block \in Nat /\ r.count \in Nat /\ p[2] \in Nat /\ Word \in Nat
      BY <1>2, <1>3, BasesAndCaps, StandardAssumption, VolumesAssumption DEF StandardInv
    <3> DEFINE base == v2pmaps[i].pBlkID_base
    <3>3. base + r.block + r.count <= Word
      BY <1>7, <3>2 DEF TraceFits
    <3>4. base + (p[2] + 1) <= Word
      <4> HIDE DEF base
      <4> QED
        BY <3>1, <3>2, <3>3 DEF base
    <3> QED
      BY <1>4, <2>2, <3>4
  <2> QED
    BY <1>4, <2>1, <2>2
<1>8. /\ DiskInv' /\ DiskKeeps({}) /\ k \in Contents
      /\ spec.rw = "read" => Seen(p)' /\ Fetched(p)' = k
  <2>1. CASE spec.rw = "read"
    BY <1>1, <1>2, <1>3, <2>1, DiskChecked DEF StandardInv
  <2>2. CASE spec.rw # "read"
    BY <1>1, <1>2, <2>2, DiskUntouched DEF StandardInv
  <2> QED
    BY <2>1, <2>2
<1>9. LruTypeOK' /\ Cached' = Cached /\ \A x : ValueOf(x)' = ValueOf(x)
  BY <1>1, SameCache DEF StandardInv
<1>10. PICK new \in PktType : new = Pkt(p, k)
  BY <1>8 DEF Pkt, PktType
<1>11. new.place = p /\ new.content = k
  BY <1>10 DEF Pkt
<1> HIDE DEF k
<1>12. bunch \in Seq(PktType) /\ bunch' = Append(bunch, new)
  BY <1>1, <1>3, <1>10 DEF StandardInv, RequestInv
<1>13. bunch' \in Seq(PktType) /\ ToSet(bunch') = ToSet(bunch) \cup {new}
  BY <1>12, AppendProperties, AppendedSet
<1>14. RequestInv'
  <2>1. ASSUME NEW pkt \in ToSet(bunch') PROVE pkt \in PktType /\ Mapped(pkt.place)'
    <3>1. CASE pkt = new
      BY <1>6, <1>11, <3>1
    <3>2. CASE pkt \in ToSet(bunch)
      <4>1. pkt \in PktType /\ Mapped(pkt.place) /\ pkt.place \in Places
        BY <3>2 DEF StandardInv, RequestInv, PktType
      <4> QED
        BY <1>4, <1>5, <4>1, MappedStays DEF StandardInv
    <3> QED
      BY <1>13, <3>1, <3>2
  <2>2. spec'.volidx \in DOMAIN v2pmaps'
    BY <1>2, <1>4
  <2> QED
    BY <1>1, <1>2, <1>13, <2>1, <2>2 DEF RequestInv, StandardInv, Stages
<1>15. ASSUME DiskFits' PROVE ReadsTrue'
  <2> SUFFICES ASSUME spec.rw = "read", NEW pkt \in ToSet(bunch')
               PROVE  Seen(pkt.place)' /\ Fetched(pkt.place)' = pkt.content
    BY <1>2 DEF ReadsTrue
  <2>1. CASE pkt = new
    BY <1>8, <1>11, <2>1
  <2>2. CASE pkt \in ToSet(bunch)
    <3>1. Seen(pkt.place) /\ Fetched(pkt.place) = pkt.content /\ pkt.place \in Places
      BY <1>1, <1>8, <1>15, <2>2 DEF StandardInv, DiskKeeps, ReadsTrue, RequestInv, PktType
    <3> QED
      BY <1>8, <1>15, <3>1 DEF DiskKeeps
  <2> QED
    BY <1>13, <2>1, <2>2
<1> QED
  BY <1>1, <1>4, <1>5, <1>7, <1>8, <1>9, <1>14, <1>15, QuietStep

LEMMA ConvertedStep ==
  ASSUME StandardInv, Converted
  PROVE  StandardInv'
<1>1. /\ stage = "convert" /\ stage' = NextStage(bunch)
      /\ UNCHANGED <<entries, diskVars, volumeVars, warmup, spec, bunch, reply>>
  BY DEF Converted
<1>2. VolumesInv' /\ VolumesGrow /\ (CapsFit => CapsFit')
  BY <1>1, VolumesKept DEF StandardInv
<1>3. DiskInv' /\ DiskKeeps({})
  BY <1>1, DiskUntouched DEF StandardInv
<1>4. LruTypeOK' /\ Cached' = Cached /\ \A x : ValueOf(x)' = ValueOf(x)
  BY <1>1, SameCache DEF StandardInv
<1>5. stage' = IF bunch' = <<>> THEN "idle" ELSE IF spec'.rw = "read" THEN "find" ELSE "cache"
  BY <1>1 DEF NextStage
<1>6. RequestInv'
  <2>1. \A pkt \in ToSet(bunch') : pkt \in PktType /\ Mapped(pkt.place)'
    BY <1>1, <1>2, BunchStaysMapped
  <2> QED
    BY <1>1, <1>5, <2>1 DEF RequestInv, StandardInv, Stages
<1>7. DiskFits' => ReadsTrue'
  BY <1>1, <1>3, ReadsStayTrue
<1> QED
  BY <1>1, <1>2, <1>3, <1>4, <1>5, <1>6, <1>7, QuietStep

\* What is found for a block is its content, unless volumes overlap.
LEMMA FoundIsContent ==
  ASSUME StandardInv, DiskFits, TraceFits, stage = "find", FindHit(ioblk), ~overlapped
  PROVE  FoundContent = content
<1>1. /\ ioblk \in Cached /\ place \in Places /\ Mapped(place)
      /\ ioblk = Physical(place[1], place[2])
  BY HeadOfBunch DEF FindHit
<1>2. Seen(place) /\ Fetched(place) = content
  BY HeadOfBunch DEF StandardInv, RequestInv, ReadsTrue, place, content
<1>3. CASE ~collectformat
  BY <1>2, <1>3 DEF FoundContent
<1>4. CASE collectformat
  <2>1. PICK p \in Places : /\ Mapped(p) /\ Physical(p[1], p[2]) = ioblk
                            /\ ValueOf(ioblk) = Fetched(p)
    BY <1>1, <1>4 DEF StandardInv, CacheTrue, InFlight
  <2>2. p[1] = place[1] /\ p[2] = place[2]
    <3>1. p[2] \in Nat /\ place[2] \in Nat
      BY <1>1, SimDiskAssumption
    <3> QED
      BY <1>1, <2>1, <3>1, BlocksApart DEF Mapped, StandardInv
  <2>3. p = place
    BY <1>1, <2>2, SimDiskAssumption
  <2> QED
    BY <1>2, <1>4, <2>1, <2>3 DEF FoundContent
<1> QED
  BY <1>3, <1>4 DEF StandardInv, DiskInv

LEMMA FindStep ==
  ASSUME StandardInv, FindInSectorcache
  PROVE  StandardInv'
<1>1. /\ stage = "find" /\ FindHit(ioblk) /\ BlockDone
      /\ UNCHANGED <<diskVars, volumeVars>>
  BY DEF FindInSectorcache
<1>2. VolumesInv' /\ VolumesGrow /\ (CapsFit => CapsFit')
  BY <1>1, VolumesKept DEF StandardInv
<1>3. DiskInv' /\ DiskKeeps({})
  BY <1>1, DiskUntouched DEF StandardInv
<1>4. LruTypeOK' /\ Cached' = Cached /\ \A x \in Cached' : ValueOf(x)' = ValueOf(x)
  BY <1>1, HeadOfBunch, FoundInCache DEF StandardInv
<1>5. /\ RequestInv'
      /\ stage' \in {"idle", "find", "cache"} /\ spec' = spec /\ warmup' = warmup
      /\ ToSet(bunch') \subseteq ToSet(bunch)
  BY <1>1, <1>2, NextBlock
<1>6. DiskFits' => ReadsTrue'
  BY <1>1, <1>3, <1>5, ReadsStayTrue
<1> QED
  BY <1>1, <1>2, <1>3, <1>4, <1>5, <1>6, QuietStep

\* The steps of a read that leave the bunch as it is.
LEMMA LookupStep ==
  ASSUME StandardInv, AssertionFails \/ ReadFromDisk
  PROVE  StandardInv'
<1>1. /\ stage = "find" /\ stage' \in {"aborted", "fill"}
      /\ UNCHANGED <<diskVars, volumeVars, warmup, spec, bunch>>
      /\ stage' = "aborted" => FindHit(ioblk) /\ FoundContent # content
      /\ FindHit(ioblk) \/ UNCHANGED entries
  BY DEF AssertionFails, ReadFromDisk, FindMiss
<1>2. VolumesInv' /\ VolumesGrow /\ (CapsFit => CapsFit')
  BY <1>1, VolumesKept DEF StandardInv
<1>3. DiskInv' /\ DiskKeeps({})
  BY <1>1, DiskUntouched DEF StandardInv
<1>4. LruTypeOK' /\ Cached' = Cached /\ \A x \in Cached' : ValueOf(x)' = ValueOf(x)
  BY <1>1, HeadOfBunch, FoundInCache, SameCache DEF StandardInv
<1>5. RequestInv'
  <2>1. \A pkt \in ToSet(bunch') : pkt \in PktType /\ Mapped(pkt.place)'
    BY <1>1, <1>2, BunchStaysMapped
  <2> QED
    BY <1>1, <2>1 DEF RequestInv, StandardInv, Stages
<1>6. DiskFits' => ReadsTrue'
  BY <1>1, <1>3, ReadsStayTrue
<1>7. stage' = "aborted" /\ TraceFits /\ DiskFits => overlapped
  BY <1>1, FoundIsContent
<1> QED
  BY <1>1, <1>2, <1>3, <1>4, <1>5, <1>6, <1>7, QuietStep

\* The block at the head of the bunch gets into the cache.
LEMMA Overwritten ==
  ASSUME StandardInv, stage \in {"fill", "cache"}, OverwriteInSectorcache, warmup' = warmup
  PROVE  /\ LruTypeOK' /\ (warmup' => Cached' = {})
         /\ Cached' \subseteq Cached \cup {ioblk}
         /\ \A x \in Cached' : IF x = ioblk THEN collectformat => ValueOf(x)' = content
                                            ELSE ValueOf(x)' = ValueOf(x)
<1>1. CASE warmup
  BY <1>1, SameCache DEF StandardInv, OverwriteInSectorcache
<1>2. CASE ~warmup
  <2>1. ioblk \in Blocks /\ CachedValue \in Values
    BY HeadOfBunch, StandardAssumption DEF CachedValue
  <2>2. AddToCache(ioblk, CachedValue)
    BY <1>2 DEF OverwriteInSectorcache
  <2>3. PICK b \in Blocks, v \in Values : b = ioblk /\ v = CachedValue
    BY <2>1
  <2>4. /\ LruTypeOK'
        /\ ValueOf(b)' = v
        /\ Cached' \subseteq Cached \cup {b}
        /\ \A x \in Cached' : x # b => ValueOf(x)' = ValueOf(x)
    BY <2>2, <2>3, AddedToCache DEF StandardInv
  <2> QED
    BY <1>2, <2>3, <2>4 DEF CachedValue
<1> QED
  BY <1>1, <1>2 DEF StandardInv, RequestInv

LEMMA FillStep ==
  ASSUME StandardInv, FillSectorcache
  PROVE  StandardInv'
<1>1. /\ stage = "fill" /\ OverwriteInSectorcache /\ BlockDone /\ warmup' = warmup
      /\ UNCHANGED <<diskVars, volumeVars, reply>>
  BY DEF FillSectorcache, BlockDone
<1>2. VolumesInv' /\ VolumesGrow /\ (CapsFit => CapsFit')
  BY <1>1, VolumesKept DEF StandardInv
<1>3. DiskInv' /\ DiskKeeps({}) /\ DiskFits' = DiskFits
  BY <1>1, DiskUntouched, SameDisk DEF StandardInv
<1>4. /\ LruTypeOK' /\ (warmup' => Cached' = {})
      /\ Cached' \subseteq Cached \cup {ioblk}
      /\ \A x \in Cached' : IF x = ioblk THEN collectformat => ValueOf(x)' = content
                                         ELSE ValueOf(x)' = ValueOf(x)
  BY <1>1, Overwritten
<1>5. /\ RequestInv'
      /\ stage' \in {"idle", "find", "cache"} /\ spec' = spec
      /\ ToSet(bunch') \subseteq ToSet(bunch)
  BY <1>1, <1>2, NextBlock
<1>6. DiskFits' => ReadsTrue'
  BY <1>1, <1>3, <1>5, ReadsStayTrue
<1>7. ASSUME TraceFits, DiskFits PROVE CacheTrue'
  <2> SUFFICES ASSUME collectformat', ~overlapped', NEW x \in Cached'
               PROVE  \E p \in Places : /\ Mapped(p)' /\ Physical(p[1], p[2])' = x
                                        /\ Seen(p)' /\ ValueOf(x)' = Fetched(p)'
    BY <1>5 DEF CacheTrue, InFlight
  <2>0. collectformat /\ ~overlapped
    BY <1>2, <1>3 DEF DiskKeeps, VolumesGrow
  <2>1. PICK p \in Places : /\ Mapped(p) /\ Physical(p[1], p[2]) = x
                            /\ Seen(p) /\ ValueOf(x)' = Fetched(p)
    <3>1. CASE x = ioblk
      <4>1. Seen(place) /\ Fetched(place) = content
        BY <1>1, <1>7, HeadOfBunch DEF StandardInv, RequestInv, ReadsTrue, place, content
      <4> QED
        BY <1>1, <1>4, <2>0, <3>1, <4>1, HeadOfBunch
    <3>2. CASE x # ioblk
      <4>1. x \in Cached /\ ValueOf(x)' = ValueOf(x)
        BY <1>4, <3>2
      <4> QED
        BY <1>1, <1>7, <2>0, <4>1 DEF StandardInv, CacheTrue, InFlight
    <3> QED
      BY <3>1, <3>2
  <2>2. Seen(p)' /\ Fetched(p)' = Fetched(p)
    BY <1>3, <1>7, <2>1 DEF DiskKeeps
  <2> QED
    BY <1>2, <2>1, <2>2, MappedStays DEF StandardInv
<1>8. TraceFits' = TraceFits /\ AbortsOnOverlap'
  BY <1>5 DEF TraceFits, AbortsOnOverlap
<1> QED
  BY <1>2, <1>3, <1>4, <1>5, <1>6, <1>7, <1>8 DEF StandardInv

LEMMA WriteCacheStep ==
  ASSUME StandardInv, WriteSectorcache
  PROVE  StandardInv'
<1>1. /\ stage = "cache" /\ stage' = "store" /\ OverwriteInSectorcache
      /\ UNCHANGED <<diskVars, volumeVars, warmup, spec, bunch, reply>>
  BY DEF WriteSectorcache
<1>2. VolumesInv' /\ VolumesGrow /\ (CapsFit => CapsFit')
  BY <1>1, VolumesKept DEF StandardInv
<1>3. DiskInv' /\ DiskKeeps({}) /\ DiskFits' = DiskFits
  BY <1>1, DiskUntouched, SameDisk DEF StandardInv
<1>4. /\ LruTypeOK' /\ (warmup' => Cached' = {})
      /\ Cached' \subseteq Cached \cup {ioblk}
      /\ \A x \in Cached' : IF x = ioblk THEN collectformat => ValueOf(x)' = content
                                         ELSE ValueOf(x)' = ValueOf(x)
  BY <1>1, Overwritten
<1>5. RequestInv'
  <2>1. \A pkt \in ToSet(bunch') : pkt \in PktType /\ Mapped(pkt.place)'
    BY <1>1, <1>2, BunchStaysMapped
  <2> QED
    BY <1>1, <2>1 DEF RequestInv, StandardInv, Stages
<1>6. ReadsTrue'
  BY <1>1 DEF ReadsTrue
<1>7. ASSUME TraceFits, DiskFits PROVE CacheTrue'
  <2>0. place' = place /\ content' = content
    BY <1>1 DEF place, content
  <2> SUFFICES ASSUME collectformat', ~overlapped', NEW x \in Cached'
               PROVE  \E p \in Places :
                        /\ Mapped(p)' /\ Physical(p[1], p[2])' = x
                        /\ IF p = place THEN ValueOf(x)' = content
                                        ELSE Seen(p)' /\ ValueOf(x)' = Fetched(p)'
    BY <1>1, <2>0 DEF CacheTrue, InFlight
  <2>1. collectformat /\ ~overlapped
    BY <1>2, <1>3 DEF DiskKeeps, VolumesGrow
  <2>2. CASE x = ioblk
    <3>1. PICK p \in Places : p = place
      BY <1>1, HeadOfBunch
    <3>2. Mapped(p) /\ Physical(p[1], p[2]) = x
      BY <1>1, <2>2, <3>1, HeadOfBunch
    <3>3. Mapped(p)' /\ Physical(p[1], p[2])' = x
      BY <1>2, <3>2, MappedStays DEF StandardInv
    <3> QED
      BY <1>4, <2>1, <2>2, <3>1, <3>3
  <2>3. CASE x # ioblk
    <3>1. x \in Cached /\ ValueOf(x)' = ValueOf(x)
      BY <1>4, <2>3
    <3>2. PICK p \in Places : /\ Mapped(p) /\ Physical(p[1], p[2]) = x
                              /\ Seen(p) /\ ValueOf(x) = Fetched(p)
      BY <1>1, <1>7, <2>1, <3>1 DEF StandardInv, CacheTrue, InFlight
    <3>3. p # place
      BY <1>1, <2>3, <3>2, HeadOfBunch
    <3>4. Seen(p)' /\ Fetched(p)' = Fetched(p)
      BY <1>3, <1>7, <3>2 DEF DiskKeeps
    <3> QED
      BY <1>2, <3>1, <3>2, <3>3, <3>4, MappedStays DEF StandardInv
  <2> QED
    BY <2>2, <2>3
<1>8. TraceFits' = TraceFits /\ AbortsOnOverlap'
  BY <1>1 DEF TraceFits, AbortsOnOverlap
<1> QED
  BY <1>2, <1>3, <1>4, <1>5, <1>6, <1>7, <1>8 DEF StandardInv

LEMMA WriteDiskStep ==
  ASSUME StandardInv, WriteToDisk
  PROVE  StandardInv'
<1>1. /\ stage = "store" /\ DiskWriteTrap(place, content) /\ BlockDone
      /\ UNCHANGED <<entries, volumeVars, reply>>
  BY DEF WriteToDisk
<1>2. VolumesInv' /\ VolumesGrow /\ (CapsFit => CapsFit')
  BY <1>1, VolumesKept DEF StandardInv
<1>3. PICK w \in Places, k \in Contents : w = place /\ k = content
  BY <1>1, HeadOfBunch
<1>4. DiskInv' /\ DiskKeeps({w}) /\ Seen(w)' /\ Fetched(w)' = k
  BY <1>1, <1>3, DiskWritten DEF StandardInv
<1>5. LruTypeOK' /\ Cached' = Cached /\ \A x : ValueOf(x)' = ValueOf(x)
  BY <1>1, SameCache DEF StandardInv
<1>6. /\ RequestInv'
      /\ stage' \in {"idle", "find", "cache"} /\ spec' = spec /\ warmup' = warmup
      /\ ToSet(bunch') \subseteq ToSet(bunch)
  BY <1>1, <1>2, NextBlock
<1>7. ReadsTrue'
  <2>1. spec.rw # "read"
    BY <1>1 DEF StandardInv, RequestInv
  <2> QED
    BY <1>6, <2>1 DEF ReadsTrue
<1>8. ASSUME TraceFits, DiskFits' PROVE CacheTrue'
  <2> SUFFICES ASSUME collectformat', ~overlapped', NEW x \in Cached'
               PROVE  \E p \in Places : /\ Mapped(p)' /\ Physical(p[1], p[2])' = x
                                        /\ Seen(p)' /\ ValueOf(x)' = Fetched(p)'
    BY <1>6 DEF CacheTrue, InFlight
  <2>1. collectformat /\ ~overlapped /\ DiskFits /\ x \in Cached
    BY <1>2, <1>4, <1>5, <1>8 DEF DiskKeeps, VolumesGrow
  <2>2. PICK p \in Places :
           /\ Mapped(p) /\ Physical(p[1], p[2]) = x
           /\ IF p = w THEN ValueOf(x) = k ELSE Seen(p) /\ ValueOf(x) = Fetched(p)
    BY <1>1, <1>3, <1>8, <2>1 DEF StandardInv, CacheTrue, InFlight
  <2>3. Seen(p)' /\ ValueOf(x) = Fetched(p)'
    BY <1>4, <1>8, <2>2 DEF DiskKeeps
  <2> QED
    BY <1>2, <1>5, <2>2, <2>3, MappedStays DEF StandardInv
<1>9. TraceFits' = TraceFits /\ AbortsOnOverlap'
  BY <1>6 DEF TraceFits, AbortsOnOverlap
<1> QED
  BY <1>2, <1>4, <1>5, <1>6, <1>7, <1>8, <1>9 DEF StandardInv

LEMMA NoStep ==
  ASSUME StandardInv, UNCHANGED standardVars
  PROVE  StandardInv'
<1>1. /\ UNCHANGED <<entries, diskVars, volumeVars, warmup, stage, spec, bunch, reply>>
  BY DEF standardVars, requestVars
<1>2. VolumesInv' /\ VolumesGrow /\ (CapsFit => CapsFit')
  BY <1>1, VolumesKept DEF StandardInv
<1>3. DiskInv' /\ DiskFits' = DiskFits
      /\ \A p \in Places : Seen(p)' = Seen(p) /\ Fetched(p)' = Fetched(p)
  BY <1>1, SameDisk DEF StandardInv
<1>4. LruTypeOK' /\ Cached' = Cached /\ \A x : ValueOf(x)' = ValueOf(x)
  BY <1>1, SameCache DEF StandardInv
<1>5. RequestInv' /\ TraceFits' = TraceFits /\ AbortsOnOverlap' = AbortsOnOverlap
  BY <1>1 DEF volumeVars, RequestInv, StandardInv, Mapped, TraceFits, AbortsOnOverlap
<1>6. (DiskFits => ReadsTrue) => (DiskFits' => ReadsTrue')
  <2>1. \A pkt \in ToSet(bunch) : pkt.place \in Places
    BY DEF StandardInv, RequestInv, PktType
  <2> QED
    BY <1>1, <1>3, <2>1 DEF ReadsTrue
<1>7. CacheTrue => CacheTrue'
  <2>1. \A p : Mapped(p)' = Mapped(p) /\ Physical(p[1], p[2])' = Physical(p[1], p[2])
    BY <1>1 DEF volumeVars, Mapped, Physical
  <2>2. \A p : InFlight(p)' = InFlight(p) /\ content' = content
    BY <1>1 DEF InFlight, place, content
  <2> QED
    BY <1>1, <1>3, <1>4, <2>1, <2>2 DEF CacheTrue, volumeVars, diskVars
<1> QED
  BY <1>1, <1>2, <1>3, <1>4, <1>5, <1>6, <1>7 DEF StandardInv

LEMMA StandardStep == StandardInv /\ [StandardNext]_standardVars => StandardInv'
<1> SUFFICES ASSUME StandardInv, [StandardNext]_standardVars PROVE StandardInv'
  OBVIOUS
<1>1. CASE \E row \in Rows : ReadMapping(row)
  BY <1>1, MappingStep
<1>2. CASE EndMapping \/ EndWarmup \/ \E r \in Records : TakeUpUnknown(r)
  BY <1>2, IdleStep
<1>3. CASE \E r \in Records : \E ks \in [1..r.count -> Contents] :
             \E rw \in {"read", "write"} : TakeUp(rw, r, ks)
  BY <1>3, TakeUpStep
<1>4. CASE SkipZeroBlock
  BY <1>4, SkipStep
<1>5. CASE ConvertBlock
  BY <1>5, ConvertStep
<1>6. CASE Converted
  BY <1>6, ConvertedStep
<1>7. CASE FindInSectorcache
  BY <1>7, FindStep
<1>8. CASE AssertionFails \/ ReadFromDisk
  BY <1>8, LookupStep
<1>9. CASE FillSectorcache
  BY <1>9, FillStep
<1>10. CASE WriteSectorcache
  BY <1>10, WriteCacheStep
<1>11. CASE WriteToDisk
  BY <1>11, WriteDiskStep
<1>12. CASE UNCHANGED standardVars
  BY <1>12, NoStep
<1> QED
  BY <1>1, <1>2, <1>3, <1>4, <1>5, <1>6, <1>7, <1>8, <1>9, <1>10, <1>11, <1>12
  DEF StandardNext

\* The invariant of the replay without deduplication: the table of the disk
\* is a bijection onto the blocks of the file, volumes overlap only where
\* that was reported, what a bunch says of a read is what the disk has, and
\* so is each entry of the sector cache (the standard branches of
\* sim_map_n_process_bunch).
THEOREM StandardInvariant == StandardSpec => []StandardInv
<1>1. StandardInit => StandardInv
  BY StandardInitially
<1>2. StandardInv /\ [StandardNext]_standardVars => StandardInv'
  BY StandardStep
<1> QED
  BY <1>1, <1>2, PTL DEF StandardSpec

\* The simulated disk finds each block at a place of its own, as long as the
\* places of the file can be told apart in 32 bits (simdisk_trap,
\* blkidtab.c).
THEOREM DiskTheorem == StandardSpec => [](DiskFits => DiskSearched)
<1>1. StandardInv => (DiskFits => DiskSearched)
  BY DiskIsSearched DEF StandardInv
<1> QED
  BY <1>1, StandardInvariant, PTL

\* Two volumes share a physical block only where that was reported, and the
\* lookup's assertion fails only then, if the blocks of the trace are in the
\* range of block numbers; and a line of the mapping is refused exactly for a
\* shared block, or an empty volume at block 0 or inside another
\* (updateVirttoPhysMap, verify_vm_info, sectorcache_lookup).
THEOREM OverlapsTheorem == StandardSpec => [](TraceFits /\ DiskFits => OverlapsReported)
<1>1. StandardInv => (TraceFits /\ DiskFits => OverlapsReported)
  BY VolumesAreApart, RefusedLines DEF StandardInv, OverlapsReported
<1> QED
  BY <1>1, StandardInvariant, PTL

\* A disk of at most 2^27 blocks always fits.
PlacesFit == IsFiniteSet(Places) /\ Cardinality(Places) <= Wrap

LEMMA FewPlacesFit == DiskInv /\ PlacesFit => DiskFits
<1> SUFFICES ASSUME DiskInv, PlacesFit PROVE simdisk_blkid <= Wrap
  BY DEF DiskFits
<1> DEFINE Ids == 0..(simdisk_blkid - 1)
           f == [i \in Ids |-> CHOOSE p \in Places : Seen(p) /\ IdOf(p) = i]
<1>1. \A i \in Ids : \E p \in Places : Seen(p) /\ IdOf(p) = i
  BY BlocksInUse
<1>2. \A i \in Ids : f[i] \in Places /\ IdOf(f[i]) = i
  BY <1>1
<1>3. f \in Injection(Ids, Places)
  <2>1. f \in [Ids -> Places]
    BY <1>2
  <2>2. \A i, j \in Ids : f[i] = f[j] => i = j
    BY <1>2
  <2> QED
    BY <2>1, <2>2 DEF Injection, IsInjective
<1>4. Cardinality(Ids) <= Cardinality(Places)
  BY <1>3, FS_Injection DEF PlacesFit
<1>5. Cardinality(Ids) = simdisk_blkid
  <2>1. simdisk_blkid \in Nat
    BY DEF DiskInv
  <2>2. Cardinality(Ids) = IF 0 > simdisk_blkid - 1 THEN 0 ELSE simdisk_blkid - 1 - 0 + 1
    BY <2>1, FS_Interval
  <2> QED
    BY <2>1, <2>2
<1>6. Cardinality(Places) \in Nat /\ Wrap \in Nat /\ simdisk_blkid \in Nat
  BY FS_CardinalityType, SimDiskAssumption DEF PlacesFit, DiskInv
<1> QED
  BY <1>4, <1>5, <1>6 DEF PlacesFit

\* Then nothing is asked of a run: the disk is always searched as it should
\* be.
THEOREM SmallDiskTheorem == ASSUME PlacesFit PROVE StandardSpec => []DiskSearched
<1>1. StandardInv => DiskSearched
  BY DiskIsSearched, FewPlacesFit DEF StandardInv
<1> QED
  BY <1>1, StandardInvariant, PTL

-----------------------------------------------------------------------------
\* The refinement of a plain device.
LEMMA ImageKept == DiskInv /\ UNCHANGED diskVars => DiskImage' = DiskImage
BY SameDisk DEF DiskImage

LEMMA ImageWritten ==
  ASSUME DiskInv, NEW p \in Places, NEW k \in Contents, DiskWriteTrap(p, k), DiskFits'
  PROVE  DiskImage' = [q \in DOMAIN DiskImage \cup {p} |-> IF q = p THEN k ELSE DiskImage[q]]
<1>1. /\ \A q \in Places : Seen(q)' <=> Seen(q) \/ q = p
      /\ Fetched(p)' = k
      /\ \A q \in Places : Seen(q) /\ q \notin {p} => Fetched(q)' = Fetched(q)
  BY DiskWritten DEF DiskKeeps
<1>2. {q \in Places : Seen(q)'} = {q \in Places : Seen(q)} \cup {p}
  BY <1>1
<1>3. DOMAIN DiskImage = {q \in Places : Seen(q)}
  BY DEF DiskImage
<1>4. \A q \in {r \in Places : Seen(r)} : DiskImage[q] = Fetched(q)
  BY DEF DiskImage
<1> QED
  BY <1>1, <1>2, <1>3, <1>4 DEF DiskImage

CopyTrue == image = DiskImage

LEMMA DeviceStep ==
  ASSUME StandardInv, DiskFits, DiskFits', CopyTrue, CopyTrue',
         [StandardNext]_standardVars
  PROVE  [Device!DeviceNext]_<<image, reply>>
<1>1. ASSUME UNCHANGED <<diskVars, reply>> PROVE UNCHANGED <<image, reply>>
  BY <1>1, ImageKept DEF StandardInv, CopyTrue
<1>2. ASSUME NEW p \in Places, NEW k \in Contents, DiskWriteTrap(p, k), UNCHANGED reply
      PROVE  Device!Hold(p, k) /\ UNCHANGED reply
  BY <1>2, ImageWritten DEF StandardInv, Device!Hold, CopyTrue
<1>3. ASSUME stage = "find", UNCHANGED diskVars, reply' = <<place, content>>
      PROVE  Device!DeviceNext
  <2>1. PICK p \in Places : p = place
    BY <1>3, HeadOfBunch
  <2>2. Seen(place) /\ Fetched(place) = content
    BY <1>3, HeadOfBunch DEF StandardInv, RequestInv, ReadsTrue, place, content
  <2>3. p \in DOMAIN image /\ image[p] = content
    BY <2>1, <2>2 DEF DiskImage, CopyTrue
  <2>4. image' = image
    BY <1>3, ImageKept DEF StandardInv, CopyTrue
  <2>5. Device!Read(p)
    BY <1>3, <2>1, <2>3, <2>4 DEF Device!Read
  <2> QED
    BY <2>5 DEF Device!DeviceNext
<1>4. CASE FindInSectorcache
  <2>1. stage = "find" /\ UNCHANGED diskVars /\ reply' = <<place, content>>
    BY <1>4 DEF FindInSectorcache
  <2> QED
    BY <1>3, <2>1
<1>5. CASE ReadFromDisk
  <2>1. stage = "find" /\ UNCHANGED diskVars /\ reply' = <<place, content>>
    BY <1>5 DEF ReadFromDisk
  <2> QED
    BY <1>3, <2>1
<1>6. CASE WriteToDisk
  <2>1. stage = "store" /\ DiskWriteTrap(place, content) /\ UNCHANGED reply
    BY <1>6 DEF WriteToDisk
  <2>2. PICK p \in Places, k \in Contents : p = place /\ k = content
    BY <2>1, HeadOfBunch
  <2>3. Device!Write(p, k)
    BY <1>2, <2>1, <2>2 DEF Device!Write
  <2> QED
    BY <2>3 DEF Device!DeviceNext
<1>7. CASE ConvertBlock
  <2>1. /\ stage = "convert" /\ spec.contents # <<>> /\ UNCHANGED reply
        /\ IF spec.rw = "read" THEN DiskReadCheckconsistency(p0, k0) ELSE UNCHANGED diskVars
    BY <1>7 DEF ConvertBlock
  <2>2. PICK p \in Places, k \in Contents : p = p0 /\ k = k0
    BY <2>1, BlockOfSpec
  <2>3. CASE spec.rw # "read" \/ Seen(p)
    <3>1. UNCHANGED diskVars
      BY <2>1, <2>2, <2>3 DEF DiskReadCheckconsistency
    <3> QED
      BY <1>1, <2>1, <3>1
  <2>4. CASE spec.rw = "read" /\ ~Seen(p)
    <3>1. DiskWriteTrap(p, k)
      BY <2>1, <2>2, <2>4 DEF DiskReadCheckconsistency, DiskWriteTrap
    <3>2. p \notin DOMAIN image
      BY <2>4 DEF DiskImage, CopyTrue
    <3>3. Device!Discover(p, k)
      BY <1>2, <2>1, <3>1, <3>2 DEF Device!Discover
    <3> QED
      BY <3>3 DEF Device!DeviceNext
  <2> QED
    BY <2>3, <2>4
<1>8. CASE \E row \in Rows : ReadMapping(row)
  BY <1>1, <1>8 DEF ReadMapping, requestVars
<1>9. CASE EndMapping \/ EndWarmup \/ \E r \in Records : TakeUpUnknown(r)
  BY <1>1, <1>9 DEF EndMapping, EndWarmup, TakeUpUnknown, requestVars
<1>10. CASE \E r \in Records : \E ks \in [1..r.count -> Contents] :
              \E rw \in {"read", "write"} : TakeUp(rw, r, ks)
  BY <1>1, <1>10 DEF TakeUp
<1>11. CASE SkipZeroBlock \/ Converted
  BY <1>1, <1>11 DEF SkipZeroBlock, Converted
<1>12. CASE AssertionFails \/ FillSectorcache \/ WriteSectorcache
  BY <1>1, <1>12 DEF AssertionFails, FillSectorcache, WriteSectorcache
<1>13. CASE UNCHANGED standardVars
  BY <1>1, <1>13 DEF standardVars, requestVars
<1> QED
  BY <1>4, <1>5, <1>6, <1>7, <1>8, <1>9, <1>10, <1>11, <1>12, <1>13 DEF StandardNext

\* The replay answers each read as a plain device would, as long as the disk
\* fits into its file; no limit is needed on the volumes, since what is read
\* from the sector cache is asserted to be the content of the request.
THEOREM VanillaTheorem == MCSpec /\ []DiskFits => VanillaImplementsDevice
<1>1. MCInit => StandardInv /\ CopyTrue /\ Device!DeviceInit
  <2> SUFFICES ASSUME MCInit PROVE StandardInv /\ CopyTrue /\ Device!DeviceInit
    OBVIOUS
  <2>1. StandardInit /\ image = DiskImage
    BY DEF MCInit
  <2>2. \A p \in Places : ~Seen(p)
    BY <2>1, DiskInitially DEF StandardInit
  <2>3. image = [p \in {} |-> p]
    BY <2>1, <2>2 DEF DiskImage, CopyTrue
  <2>4. reply = <<>>
    BY <2>1 DEF StandardInit
  <2> QED
    BY <2>1, <2>3, <2>4, StandardInitially DEF Device!DeviceInit, CopyTrue
<1>2. StandardInv /\ CopyTrue /\ [MCNext]_MCVars
      => StandardInv' /\ CopyTrue' /\ [StandardNext]_standardVars
  <2> SUFFICES ASSUME StandardInv, CopyTrue, [MCNext]_MCVars
               PROVE  StandardInv' /\ CopyTrue' /\ [StandardNext]_standardVars
    OBVIOUS
  <2>1. [StandardNext]_standardVars
    BY DEF MCNext, MCVars
  <2>2. CopyTrue'
    <3>1. CASE MCNext
      BY <3>1 DEF MCNext, CopyTrue
    <3>2. CASE UNCHANGED MCVars
      <4>1. UNCHANGED diskVars /\ image' = image
        BY <3>2 DEF MCVars, standardVars
      <4> QED
        BY <4>1, ImageKept DEF StandardInv, CopyTrue
    <3> QED
      BY <3>1, <3>2
  <2> QED
    BY <2>1, <2>2, StandardStep
<1>3. /\ StandardInv /\ DiskFits /\ DiskFits' /\ CopyTrue /\ CopyTrue'
      /\ [StandardNext]_standardVars
      => [Device!DeviceNext]_<<image, reply>>
  BY DeviceStep
<1> QED
  BY <1>1, <1>2, <1>3, PTL DEF MCSpec, VanillaImplementsDevice, Device!DeviceSpec

-----------------------------------------------------------------------------
\* The threads and the control blocks.
\* The counters that the handshake of an iteration goes by.
StartIsBit ==
  /\ counter \in [Counters -> Int]
  /\ counter["start"] \in {0, 1}

\* Main creates the replay thread only after it has joined the warm-up, and only
\* if there is a trace to replay.
CreationInOrder ==
  /\ main \in {"create", "join"} => sub = "none"
  /\ warm \in {"next", "process"} => main = "join" /\ warmupflag
  /\ warm \in {"none", "next", "process", "ended"}
  /\ nfiles = 0 => sub = "none" /\ counter["start"] = 0
  /\ sub # "none" => ~warmupflag

\* The replay thread works between the start of an iteration and the count of
\* its end, and main is then waiting for that end.
IterationHandshake ==
  /\ sub \in {"next", "process", "iter"} =>
       main = "iter" /\ counter["start"] = 0 /\ counter["iter"] <= 0
  /\ counter["start"] = 1 =>
       main = "iter" /\ counter["iter"] <= 0
  /\ counter["iter"] > 0 => main = "iter"

ThreadsInv == StartIsBit /\ CreationInOrder /\ IterationHandshake

-----------------------------------------------------------------------------
LEMMA FilesAre == nfiles \in {0, 1}
BY DEF nfiles

LEMMA ThreadsInitInv == ThreadsInit => ThreadsInv
BY ThreadsAssumption
DEF ThreadsInit, CvInit, ThreadsAssumption, ThreadsInv, StartIsBit, CreationInOrder,
    IterationHandshake

\* The steps of main.
LEMMA MainStepInv ==
  ASSUME ThreadsInv, MainStep
  PROVE  ThreadsInv'
<1> USE ThreadsAssumption, FilesAre
    DEF ThreadsAssumption, ThreadsInv, StartIsBit, CreationInOrder, IterationHandshake,
        MainAt, cvVars, fileVars, setup, flags
<1>0. UNCHANGED setup /\ nfiles' = nfiles
  BY DEF MainStep, CreateWarmup, JoinWarmup, CreateReplay, CreateNone, MainSleeps,
     WaitReplaysReady, StartIter, WaitItersDone, AfterIterations, WaitReplaysDone,
     RemInputFiles, MainOnly, nfiles
<1>1. CASE CreateWarmup
  BY <1>0, <1>1 DEF CreateWarmup
<1>2. CASE JoinWarmup
  BY <1>0, <1>2 DEF JoinWarmup
<1>3. CASE CreateReplay
  BY <1>0, <1>3 DEF CreateReplay
<1>4. CASE CreateNone
  BY <1>0, <1>4 DEF CreateNone, MainOnly
<1>5. CASE MainSleeps
  BY <1>0, <1>5 DEF MainSleeps, MainOnly, Sleep
<1>6. CASE WaitReplaysReady
  BY <1>0, <1>6 DEF WaitReplaysReady, MainTakes, TakeCv, MainOnly
<1>7. CASE StartIter
  BY <1>0, <1>7 DEF StartIter, SetAll
<1>8. CASE WaitItersDone
  BY <1>0, <1>8 DEF WaitItersDone, MainTakes, TakeCv, MainOnly, MustSleep
<1>9. CASE AfterIterations
  BY <1>0, <1>9 DEF AfterIterations, MainOnly
<1>10. CASE WaitReplaysDone
  BY <1>0, <1>10 DEF WaitReplaysDone, MainTakes, TakeCv, MainOnly
<1>11. CASE RemInputFiles
  BY <1>0, <1>11 DEF RemInputFiles, MainOnly
<1>12. QED
  BY <1>1, <1>2, <1>3, <1>4, <1>5, <1>6, <1>7, <1>8, <1>9, <1>10, <1>11 DEF MainStep

\* The steps of the warm-up.
LEMMA WarmStepInv ==
  ASSUME ThreadsInv, WarmStep
  PROVE  ThreadsInv'
<1> USE DEF ThreadsInv, StartIsBit, CreationInOrder, IterationHandshake, WarmAt, WarmOnly,
            cvVars, setup, flags
<1>0. nfiles' = nfiles
  BY DEF WarmStep, WarmNext, WarmProcess, WarmIterationEnds, nfiles
<1>1. CASE WarmNext
  BY <1>0, <1>1 DEF WarmNext
<1>2. CASE WarmProcess
  BY <1>0, <1>2 DEF WarmProcess
<1>3. CASE WarmIterationEnds
  BY <1>0, <1>3 DEF WarmIterationEnds
<1>4. QED
  BY <1>1, <1>2, <1>3 DEF WarmStep

\* The steps of the replay thread.
LEMMA SubStepInv ==
  ASSUME ThreadsInv, SubStep
  PROVE  ThreadsInv'
<1> USE ThreadsAssumption, FilesAre
    DEF ThreadsAssumption, ThreadsInv, StartIsBit, CreationInOrder, IterationHandshake,
        SubAt, SubOnly, cvVars, fileVars, setup
<1>0. nfiles' = nfiles
  BY DEF SubStep, SetReplayReady, SetIterDone, SetReplayDone, SubSets, Loop, SubSleeps,
     WaitIterStart, NextBunch, NextIoTip, Process, TraceEnds, ResetInputFile, nfiles
<1>1. CASE SetReplayReady
  BY <1>0, <1>1 DEF SetReplayReady, SubSets, SetCv
<1>2. CASE Loop
  BY <1>0, <1>2 DEF Loop
<1>3. CASE SubSleeps
  BY <1>0, <1>3 DEF SubSleeps, Sleep
<1>4. CASE WaitIterStart
  BY <1>0, <1>4 DEF WaitIterStart, TakeOne, MustSleep
<1>5. CASE NextBunch
  BY <1>0, <1>5 DEF NextBunch
<1>6. CASE NextIoTip
  BY <1>0, <1>6 DEF NextIoTip
<1>7. CASE Process
  BY <1>0, <1>7 DEF Process
<1>8. CASE TraceEnds
  BY <1>0, <1>8 DEF TraceEnds
<1>9. CASE SetIterDone
  BY <1>0, <1>9 DEF SetIterDone, SubSets, SetCv
<1>10. CASE ResetInputFile
  BY <1>0, <1>10 DEF ResetInputFile
<1>11. CASE SetReplayDone
  BY <1>0, <1>11 DEF SetReplayDone, SubSets, SetCv
<1>12. QED
  BY <1>1, <1>2, <1>3, <1>4, <1>5, <1>6, <1>7, <1>8, <1>9, <1>10, <1>11 DEF SubStep

-----------------------------------------------------------------------------
LEMMA ThreadsNextInv == ThreadsInv /\ [ThreadsNext]_threadVars => ThreadsInv'
<1> SUFFICES ASSUME ThreadsInv, [ThreadsNext]_threadVars
             PROVE  ThreadsInv'
  OBVIOUS
<1>1. CASE MainStep
  BY <1>1, MainStepInv
<1>2. CASE WarmStep
  BY <1>2, WarmStepInv
<1>3. CASE SubStep
  BY <1>3, SubStepInv
<1>4. CASE Interrupt \/ Spurious \/ UNCHANGED threadVars
  BY <1>4
  DEF Interrupt, Spurious, WakeSpuriously, threadVars, cvVars, progVars, fileVars, setup,
      flags, nfiles, ThreadsInv, StartIsBit, CreationInOrder, IterationHandshake
<1>5. QED
  BY <1>1, <1>2, <1>3, <1>4 DEF ThreadsNext

LEMMA ThreadsInvApart == ThreadsInv => WarmupApart
BY DEF ThreadsInv, CreationInOrder, IterationHandshake, WarmupApart

\* The warm-up, the replay and main take turns: no two of them use the caches
\* and the metadata at a time, whatever the trace and the iterations.
THEOREM ThreadsApart == ThreadsSpec => []WarmupApart
BY ThreadsInitInv, ThreadsNextInv, ThreadsInvApart, PTL DEF ThreadsSpec
-----------------------------------------------------------------------------
\* Where the replay is in its file.

FilesTypeOK ==
  /\ iterations \in [{"main", "warm", "sub"} -> Int]
  /\ trace \in [{"warm", "sub"} -> Nat] /\ ifd \in [{"warm", "sub"} -> Nat]
  /\ replayed \in Nat
  /\ format \in {"bunches", "events"}

\* A trace of events has no iteration left to replay once its only one began.
EventsOnce ==
  format = "events" =>
    /\ iterations["sub"] <= 1
    /\ sub \in {"start", "next", "process", "iter", "reset"} => iterations["sub"] <= 0

\* An iteration begins at the start of the file ...
BeginsAtStart ==
  \/ sub \in {"none", "ready", "start"}
  \/ sub = "loop" /\ iterations["sub"] > 0
  => ifd["sub"] = 0 /\ aligned

\* ... and the file is where the last request replayed ends.
OffsetAgrees ==
  /\ sub = "next" => aligned /\ ifd["sub"] = replayed
  /\ sub = "process" => aligned /\ ifd["sub"] = replayed + 1 /\ current = ifd["sub"]
  /\ sub = "iter" /\ ~signalDone => replayed = trace["sub"]

WholeInv == FilesTypeOK /\ EventsOnce /\ BeginsAtStart /\ OffsetAgrees

LEMMA WholeInitInv == EventIterations \in {0, 1} /\ ThreadsInit => WholeInv
<1> SUFFICES ASSUME EventIterations \in {0, 1}, ThreadsInit
             PROVE  WholeInv
  OBVIOUS
<1>1. PICK n \in 1..(IF format = "bunches" THEN BunchIterations ELSE EventIterations) :
        iterations = [main |-> n, warm |-> n, sub |-> n]
  BY DEF ThreadsInit
<1>2. n \in Int /\ (format = "events" => n <= 1)
  BY <1>1, ThreadsAssumption DEF ThreadsInit, ThreadsAssumption
<1>3. FilesTypeOK
  BY <1>1, <1>2, ThreadsAssumption DEF ThreadsInit, ThreadsAssumption, FilesTypeOK
<1>4. EventsOnce
  BY <1>1, <1>2 DEF ThreadsInit, EventsOnce
<1>5. BeginsAtStart /\ OffsetAgrees
  BY DEF ThreadsInit, BeginsAtStart, OffsetAgrees
<1>6. QED
  BY <1>3, <1>4, <1>5 DEF WholeInv

\* Main creates the replay thread, and lets it begin, without touching the file.
LEMMA MainStepWhole ==
  ASSUME WholeInv, CreationInOrder, MainStep
  PROVE  WholeInv'
<1>1. /\ UNCHANGED <<fileVars, setup, signalDone>>
      /\ iterations' \in [{"main", "warm", "sub"} -> Int]
      /\ iterations'["sub"] = iterations["sub"]
  BY DEF WholeInv, FilesTypeOK, MainStep, CreateWarmup, JoinWarmup, CreateReplay, CreateNone,
     MainSleeps, WaitReplaysReady, StartIter, WaitItersDone, AfterIterations,
     WaitReplaysDone, RemInputFiles, MainOnly, flags
<1>2. sub' = sub \/ (sub = "none" /\ sub' = "ready")
  BY DEF MainStep, CreateWarmup, JoinWarmup, CreateReplay, CreateNone, MainSleeps, MainAt,
     WaitReplaysReady, StartIter, WaitItersDone, AfterIterations, WaitReplaysDone,
     RemInputFiles, MainOnly, CreationInOrder
<1>3. QED
  BY <1>1, <1>2
  DEF WholeInv, FilesTypeOK, EventsOnce, BeginsAtStart, OffsetAgrees, fileVars, setup

\* The warm-up reads a file of its own.
LEMMA WarmStepWhole ==
  ASSUME WholeInv, WarmStep
  PROVE  WholeInv'
<1>1. /\ UNCHANGED <<sub, aligned, current, replayed, setup, signalDone>>
      /\ iterations' \in [{"main", "warm", "sub"} -> Int]
      /\ iterations'["sub"] = iterations["sub"]
      /\ ifd' \in [{"warm", "sub"} -> Nat] /\ ifd'["sub"] = ifd["sub"]
  BY DEF WholeInv, FilesTypeOK, WarmStep, WarmNext, WarmProcess, WarmIterationEnds,
     WarmOnly, flags
<1>2. QED
  BY <1>1 DEF WholeInv, FilesTypeOK, EventsOnce, BeginsAtStart, OffsetAgrees, setup

\* The replay thread reads its requests in order.
LEMMA SubStepWhole ==
  ASSUME WholeInv, SubStep
  PROVE  WholeInv'
<1> USE DEF WholeInv, FilesTypeOK, EventsOnce, BeginsAtStart, OffsetAgrees, SubAt, SubOnly,
            fileVars, setup
<1>1. CASE SetReplayReady
  BY <1>1 DEF SetReplayReady, SubSets
<1>2. CASE Loop
  BY <1>2 DEF Loop
<1>3. CASE SubSleeps
  BY <1>3 DEF SubSleeps
<1>4. CASE WaitIterStart
  BY <1>4 DEF WaitIterStart
<1>5. CASE NextBunch
  BY <1>5 DEF NextBunch, ReadNext
<1>6. CASE NextIoTip
  BY <1>6 DEF NextIoTip, ReadNext
<1>7. CASE Process
  BY <1>7 DEF Process
<1>8. CASE TraceEnds
  BY <1>8 DEF TraceEnds
<1>9. CASE SetIterDone
  BY <1>9 DEF SetIterDone, SubSets
<1>10. CASE ResetInputFile
  <2>1. format = "bunches" => aligned'
    BY <1>10, Zenon DEF ResetInputFile
  <2>2. sub' = "loop" /\ iterations' = iterations /\ format' = format
    BY <1>10 DEF ResetInputFile
  <2>3. iterations["sub"] > 0 => format = "bunches"
    BY <1>10 DEF ResetInputFile
  <2>4. FilesTypeOK' /\ ifd'["sub"] = 0
    BY <1>10 DEF ResetInputFile
  <2>5. QED
    BY <2>1, <2>2, <2>3, <2>4
<1>11. CASE SetReplayDone
  BY <1>11 DEF SetReplayDone, SubSets
<1>12. QED
  BY <1>1, <1>2, <1>3, <1>4, <1>5, <1>6, <1>7, <1>8, <1>9, <1>10, <1>11 DEF SubStep

LEMMA WholeNextInv ==
  ThreadsInv /\ WholeInv /\ [ThreadsNext]_threadVars => WholeInv'
<1> SUFFICES ASSUME ThreadsInv, WholeInv, [ThreadsNext]_threadVars
             PROVE  WholeInv'
  OBVIOUS
<1>1. CASE MainStep
  BY <1>1, MainStepWhole DEF ThreadsInv
<1>2. CASE WarmStep
  BY <1>2, WarmStepWhole
<1>3. CASE SubStep
  BY <1>3, SubStepWhole
<1>4. CASE Interrupt \/ Spurious \/ UNCHANGED threadVars
  BY <1>4
  DEF Interrupt, Spurious, threadVars, progVars, fileVars, setup, flags,
      WholeInv, FilesTypeOK, EventsOnce, BeginsAtStart, OffsetAgrees
<1>5. QED
  BY <1>1, <1>2, <1>3, <1>4 DEF ThreadsNext

LEMMA WholeInvWhole == WholeInv => IterationsWhole
BY DEF WholeInv, OffsetAgrees, IterationsWhole

\* Every iteration replays the trace from its first request to its last, for
\* any number of iterations of a trace of bunches, and for one iteration of a
\* trace of events (event_iterations shows what the second does).
THEOREM ThreadsWhole ==
  EventIterations \in {0, 1} /\ ThreadsSpec => []IterationsWhole
<1>1. ThreadsSpec => []ThreadsInv
  BY ThreadsInitInv, ThreadsNextInv, PTL DEF ThreadsSpec
<1>2. ASSUME EventIterations \in {0, 1}
      PROVE  ThreadsSpec => []IterationsWhole
  <2>1. ThreadsInit => WholeInv
    BY <1>2, WholeInitInv
  <2>2. QED
    BY <1>1, <2>1, WholeNextInv, WholeInvWhole, PTL DEF ThreadsSpec
<1>3. QED
  BY <1>2

-----------------------------------------------------------------------------
AsyncTypeOK ==
  /\ naiosFree \in Nat /\ naiosOut \in Nat
  /\ kernel \in Nat /\ ready \in Nat
  /\ packets \in Nat /\ ntodo \in Nat
  /\ recOut \in Nat /\ ndone \in Nat

\* The sender takes no more control blocks than were free when it looked: the
\* reclaimer can only have added to them since.
TodoFits ==
  /\ sender \in {"map", "submit", "count"} => ntodo <= packets
  /\ sender = "map" => ntodo <= naiosFree

\* The reclaimer takes back no more than it knew of: the sender can only have
\* added to what is out since.
ReclaimFits ==
  /\ recOut <= naiosOut
  /\ IF rec = "reclaim" THEN ndone <= recOut ELSE ndone = 0

Balance ==
  /\ naiosFree + naiosOut + Held = naios
  /\ kernel + ready + ndone = naiosOut + Uncounted

AsyncInv == AsyncTypeOK /\ TodoFits /\ ReclaimFits /\ Balance

\* What the steps of one side leave alone.
Accounts == <<naiosFree, naiosOut, kernel, ready, packets, ntodo, recOut, ndone>>

-----------------------------------------------------------------------------
LEMMA AsyncInitInv == AsyncInit => AsyncInv
BY AsyncAssumption
DEF AsyncInit, AsyncAssumption, AsyncInv, AsyncTypeOK, TodoFits, ReclaimFits, Balance,
    Held, Uncounted

\* A step that changes no account and keeps the sender and the reclaimer where
\* they hold what they hold changes nothing that is accounted.
LEMMA AccountsKept ==
  ASSUME AsyncInv, UNCHANGED Accounts,
         sender' = sender \/ {sender, sender'} \cap {"map", "submit", "count"} = {},
         rec' = rec \/ {rec, rec'} \cap {"reclaim"} = {}
  PROVE  AsyncInv'
BY DEF AsyncInv, AsyncTypeOK, TodoFits, ReclaimFits, Balance, Held, Uncounted, Accounts

LEMMA MinFits ==
  ASSUME NEW a \in Nat, NEW b \in Nat
  PROVE  Min2(a, b) \in Nat /\ Min2(a, b) <= a /\ Min2(a, b) <= b
BY DEF Min2

-----------------------------------------------------------------------------
\* The sender's steps keep the accounts.
LEMMA SendStepInv ==
  ASSUME AsyncInv, SendStep
  PROVE  AsyncInv'
<1>1. CASE NextPacket
  <2>1. packets' \in Nat
    BY <1>1, AsyncAssumption DEF NextPacket, AsyncAssumption
  <2>2. QED
    BY <1>1, <2>1
    DEF NextPacket, SenderAt, SenderOnly, senderVars, reclaimVars, deviceVars, countVars,
        AsyncInv, AsyncTypeOK, TodoFits, ReclaimFits, Balance, Held, Uncounted
<1>2. CASE AsyncTraceEnds
  BY <1>2, AccountsKept
  DEF AsyncTraceEnds, SenderAt, SenderOnly, reclaimVars, deviceVars, countVars, Accounts
<1>3. CASE NFreeSleeps
  BY <1>3, AccountsKept
  DEF NFreeSleeps, SenderAt, SenderOnly, senderVars, reclaimVars, deviceVars, countVars, Accounts
<1>4. CASE NFreeCurrent
  <2>1. ntodo' \in Nat /\ ntodo' <= naiosFree /\ ntodo' <= packets
    BY <1>4, MinFits DEF NFreeCurrent, AsyncInv, AsyncTypeOK
  <2>2. QED
    BY <1>4, <2>1
    DEF NFreeCurrent, SenderAt, SenderOnly, reclaimVars, deviceVars, countVars,
        AsyncInv, AsyncTypeOK, TodoFits, ReclaimFits, Balance, Held, Uncounted
<1>5. CASE IocbsMap
  BY <1>5
  DEF IocbsMap, SenderAt, SenderOnly, reclaimVars, deviceVars,
      AsyncInv, AsyncTypeOK, TodoFits, ReclaimFits, Balance, Held, Uncounted
<1>6. CASE IoSubmit
  BY <1>6
  DEF IoSubmit, SenderAt, SenderOnly, reclaimVars, countVars,
      AsyncInv, AsyncTypeOK, TodoFits, ReclaimFits, Balance, Held, Uncounted
<1>7. CASE CountSubmitted
  BY <1>7
  DEF CountSubmitted, SenderAt, SenderOnly, reclaimVars, deviceVars,
      AsyncInv, AsyncTypeOK, TodoFits, ReclaimFits, Balance, Held, Uncounted
<1>8. CASE Finish
  BY <1>8, AccountsKept
  DEF Finish, SenderAt, SenderOnly, reclaimVars, deviceVars, countVars, Accounts
<1>9. CASE SenderSetDone
  BY <1>9, AccountsKept
  DEF SenderSetDone, SenderAt, SenderOnly, reclaimVars, deviceVars, countVars, Accounts
<1>10. QED
  BY <1>1, <1>2, <1>3, <1>4, <1>5, <1>6, <1>7, <1>8, <1>9 DEF SendStep

\* The reclaimer's steps keep the accounts.
LEMMA ReclaimStepInv ==
  ASSUME AsyncInv, ReclaimStep
  PROVE  AsyncInv'
<1>1. CASE ReapCheck
  BY <1>1, AccountsKept
  DEF ReapCheck, RecAt, RecOnly, senderVars, deviceVars, countVars, Accounts
<1>2. CASE ReapSleeps
  BY <1>2, AccountsKept
  DEF ReapSleeps, RecAt, RecOnly, senderVars, reclaimVars, deviceVars, countVars, Accounts
<1>3. CASE ReapWaitAios
  BY <1>3
  DEF ReapWaitAios, RecAt, RecOnly, senderVars, deviceVars, countVars,
      AsyncInv, AsyncTypeOK, TodoFits, ReclaimFits, Balance, Held, Uncounted
<1>4. CASE GetEvents
  <2>1. PICK n \in 1..Min2(ready, recOut) : ndone' = n /\ ready' = ready - n
    BY <1>4 DEF GetEvents
  <2>2. n \in Nat /\ n <= ready /\ n <= recOut
    BY <2>1, MinFits DEF AsyncInv, AsyncTypeOK
  <2>3. QED
    BY <1>4, <2>1, <2>2
    DEF GetEvents, RecAt, RecOnly, senderVars, countVars,
        AsyncInv, AsyncTypeOK, TodoFits, ReclaimFits, Balance, Held, Uncounted
<1>5. CASE ReclaimIos
  <2>1. naiosOut' \in Nat /\ naiosFree' \in Nat
    BY <1>5 DEF ReclaimIos, RecAt, AsyncInv, AsyncTypeOK, ReclaimFits
  <2>2. recOut' \in Nat /\ recOut' <= naiosOut'
    BY <1>5, <2>1, MinFits DEF ReclaimIos, AsyncInv, AsyncTypeOK
  <2>3. QED
    BY <1>5, <2>1, <2>2
    DEF ReclaimIos, RecAt, RecOnly, senderVars, deviceVars,
        AsyncInv, AsyncTypeOK, TodoFits, ReclaimFits, Balance, Held, Uncounted
<1>6. CASE SetReclaimDone
  BY <1>6, AccountsKept
  DEF SetReclaimDone, RecAt, RecOnly, senderVars, deviceVars, countVars, Accounts
<1>7. QED
  BY <1>1, <1>2, <1>3, <1>4, <1>5, <1>6 DEF ReclaimStep

-----------------------------------------------------------------------------
LEMMA AsyncNextInv == AsyncInv /\ [AsyncNext]_asyncVars => AsyncInv'
<1> SUFFICES ASSUME AsyncInv, [AsyncNext]_asyncVars
             PROVE  AsyncInv'
  OBVIOUS
<1>1. CASE SendStep
  BY <1>1, SendStepInv
<1>2. CASE ReclaimStep
  BY <1>2, ReclaimStepInv
<1>3. CASE Complete
  BY <1>3
  DEF Complete, senderVars, reclaimVars, countVars,
      AsyncInv, AsyncTypeOK, TodoFits, ReclaimFits, Balance, Held, Uncounted
<1>4. CASE MainWaits \/ InterruptAsync \/ IoFails \/ TipSpurious \/ UNCHANGED asyncVars
  BY <1>4, AccountsKept
  DEF MainWaits, WaiterOnly, InterruptAsync, IoFails, TipSpurious, asyncVars,
      senderVars, reclaimVars, deviceVars, countVars, Accounts
<1>5. QED
  BY <1>1, <1>2, <1>3, <1>4 DEF AsyncNext

LEMMA AsyncInvAccounts == AsyncInv => IocbsAccounted
BY DEF AsyncInv, AsyncTypeOK, Balance, IocbsAccounted

\* No control block is lost or used twice, and no completed packet is lost,
\* although packets complete before they are counted: the assertions on
\* naios_out, naios_free and slist_len never fail, for any number of control
\* blocks.
THEOREM AsyncAccounted == AsyncSpec => []IocbsAccounted
BY AsyncInitInv, AsyncNextInv, AsyncInvAccounts, PTL DEF AsyncSpec
=============================================================================
