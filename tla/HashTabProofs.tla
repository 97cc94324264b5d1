--------------------------- MODULE HashTabProofs ---------------------------
(***************************************************************************)
(* Whatever is inserted into a hash table is found until it is removed,    *)
(* for any keys, any number of buckets, any hash function and any          *)
(* comparison that satisfies HashTabAssumption.                            *)
(***************************************************************************)
EXTENDS HashTab, SequenceFacts

Chain == Seq([key : TableKeys, datum : Data])

\* What is true of the chain of bucket b.
ChainOK(c, b) ==
  /\ c \in Chain
  /\ \A i \in DOMAIN c : HashValue(c[i].key) = b /\ Stop(c, c[i].key) = i

\* Where the walk of a key ends, said without CHOOSE.
EndsAt(c, k, i) ==
  /\ i <= Len(c) => ~After(k, c[i].key)
  /\ \A j \in 1..(i - 1) : After(k, c[j].key)

LEMMA ChainKeys ==
  ASSUME NEW c \in Chain
  PROVE  /\ Len(c) \in Nat
         /\ DOMAIN c = 1..Len(c)
         /\ \A i \in DOMAIN c : c[i].key \in TableKeys
<1>1. Len(c) \in Nat /\ DOMAIN c = 1..Len(c)
  BY LenProperties DEF Chain
<1>2. \A i \in 1..Len(c) : c[i] \in [key : TableKeys, datum : Data]
  BY ElementOfSeq DEF Chain
<1> QED
  BY <1>1, <1>2

\* The walk ends somewhere, ...
LEMMA WalkEnds ==
  ASSUME NEW c \in Chain, NEW k \in TableKeys
  PROVE  Stop(c, k) \in 1..(Len(c) + 1) /\ EndsAt(c, k, Stop(c, k))
<1> DEFINE T == {i \in 1..(Len(c) + 1) : i <= Len(c) => ~After(k, c[i].key)}
<1>1. Len(c) \in Nat
  BY LenProperties DEF Chain
<1>2. Len(c) + 1 \in T /\ T \in SUBSET Nat
  BY <1>1
<1>3. PICK i \in T : \A j \in T : i <= j
  BY <1>2, SmallestOne
<1>4. i \in 1..(Len(c) + 1) /\ EndsAt(c, k, i)
  <2>1. \A j \in 1..(i - 1) : j \notin T /\ j \in 1..(Len(c) + 1)
    BY <1>1, <1>2, <1>3
  <2> QED
    BY <2>1, <1>3 DEF EndsAt
<1> QED
  BY <1>4 DEF Stop, EndsAt

\* ... and in one place only.
LEMMA WalkEndsAt ==
  ASSUME NEW c \in Chain, NEW k \in TableKeys, NEW i \in 1..(Len(c) + 1), EndsAt(c, k, i)
  PROVE  Stop(c, k) = i
<1>1. Len(c) \in Nat
  BY LenProperties DEF Chain
<1>2. Stop(c, k) \in 1..(Len(c) + 1) /\ EndsAt(c, k, Stop(c, k))
  BY WalkEnds
<1>3. ~(i < Stop(c, k))
  <2> SUFFICES ASSUME i < Stop(c, k) PROVE FALSE
    OBVIOUS
  <2>1. i \in 1..(Stop(c, k) - 1) /\ i <= Len(c)
    BY <1>1, <1>2
  <2> QED
    BY <2>1, <1>2 DEF EndsAt
<1>4. ~(Stop(c, k) < i)
  <2> SUFFICES ASSUME Stop(c, k) < i PROVE FALSE
    OBVIOUS
  <2>1. Stop(c, k) \in 1..(i - 1) /\ Stop(c, k) <= Len(c)
    BY <1>1, <1>2
  <2> QED
    BY <2>1, <1>2 DEF EndsAt
<1> QED
  BY <1>1, <1>2, <1>3, <1>4

\* A chain is sorted as far as the comparison goes.
LEMMA ChainSorted ==
  ASSUME NEW b, NEW c, ChainOK(c, b)
  PROVE  /\ c \in Chain
         /\ Len(c) \in Nat
         /\ DOMAIN c = 1..Len(c)
         /\ \A i \in DOMAIN c : c[i].key \in TableKeys
         /\ \A i \in DOMAIN c : \A j \in 1..(i - 1) : After(c[i].key, c[j].key)
<1>1. c \in Chain /\ Len(c) \in Nat /\ DOMAIN c = 1..Len(c)
  BY ChainKeys DEF ChainOK
<1>2. \A i \in DOMAIN c : c[i].key \in TableKeys
  BY <1>1, ChainKeys
<1>3. ASSUME NEW i \in DOMAIN c
      PROVE  \A j \in 1..(i - 1) : After(c[i].key, c[j].key)
  <2>1. Stop(c, c[i].key) = i /\ EndsAt(c, c[i].key, i)
    BY <1>1, <1>2, WalkEnds DEF ChainOK
  <2> QED
    BY <2>1 DEF EndsAt
<1> QED
  BY <1>1, <1>2, <1>3

\* A sorted chain of the keys of a bucket is as it should be.
LEMMA SortedChain ==
  ASSUME NEW b, NEW c \in Chain,
         \A i \in 1..Len(c) : HashValue(c[i].key) = b,
         \A i \in 1..Len(c) : \A j \in 1..(i - 1) : After(c[i].key, c[j].key)
  PROVE  ChainOK(c, b)
<1>1. Len(c) \in Nat /\ DOMAIN c = 1..Len(c) /\ \A i \in 1..Len(c) : c[i].key \in TableKeys
  BY ChainKeys
<1>2. ASSUME NEW i \in 1..Len(c) PROVE Stop(c, c[i].key) = i
  <2>1. EndsAt(c, c[i].key, i)
    BY <1>1, HashTabAssumption DEF EndsAt
  <2> QED
    BY <1>1, <2>1, WalkEndsAt
<1> QED
  BY <1>1, <1>2 DEF ChainOK

\* A key is found when a node has it, and the node is where the walk ends.
LEMMA MeetsIts ==
  ASSUME NEW b, NEW c, ChainOK(c, b), NEW k \in TableKeys
  PROVE  /\ Meets(c, k) <=> \E i \in DOMAIN c : c[i].key = k
         /\ \A i \in DOMAIN c : c[i].key = k => Stop(c, k) = i
<1>1. c \in Chain /\ Len(c) \in Nat /\ DOMAIN c = 1..Len(c)
  BY ChainSorted
<1>2. \A i \in DOMAIN c : c[i].key = k => Stop(c, k) = i
  BY DEF ChainOK
<1>3. Stop(c, k) \in 1..(Len(c) + 1)
  BY <1>1, WalkEnds
<1> QED
  BY <1>1, <1>2, <1>3 DEF Meets

-----------------------------------------------------------------------------
\* What an insertion makes of a chain.
LEMMA ChainInserted ==
  ASSUME NEW b, NEW c, ChainOK(c, b), NEW k \in TableKeys, NEW d \in Data,
         HashValue(k) = b, ~Meets(c, k)
  PROVE  /\ ChainOK(Inserted(c, k, d), b)
         /\ ToSet(Inserted(c, k, d)) = ToSet(c) \cup {Node(k, d)}
<1> DEFINE s == Stop(c, k)
           t == Inserted(c, k, d)
<1>1. /\ c \in Chain /\ Len(c) \in Nat /\ DOMAIN c = 1..Len(c)
      /\ \A i \in 1..Len(c) : c[i].key \in TableKeys
      /\ \A i \in 1..Len(c) : \A j \in 1..(i - 1) : After(c[i].key, c[j].key)
  BY ChainSorted
<1>2. /\ s \in 1..(Len(c) + 1)
      /\ s <= Len(c) => ~After(k, c[s].key)
      /\ \A j \in 1..(s - 1) : After(k, c[j].key)
  BY <1>1, WalkEnds DEF EndsAt
<1>3. \A i \in 1..Len(c) : c[i].key # k /\ HashValue(c[i].key) = b
  <2>1. ~\E i \in DOMAIN c : c[i].key = k
    BY MeetsIts
  <2> QED
    BY <2>1, <1>1 DEF ChainOK
<1>4. Node(k, d) \in [key : TableKeys, datum : Data] /\ Node(k, d).key = k
  BY DEF Node
<1>5. /\ t \in Chain
      /\ Len(t) = Len(c) + 1
      /\ \A j \in 1..(Len(c) + 1) :
           t[j] = IF j < s THEN c[j] ELSE IF j = s THEN Node(k, d) ELSE c[j - 1]
  <2> DEFINE x == Node(k, d)
             N == [key : TableKeys, datum : Data]
  <2>1. c \in Seq(N) /\ s \in 1..(Len(c) + 1)
    BY <1>1, <1>2 DEF Chain
  <2>2. x \in N
    BY <1>4
  <2>3. t = InsertAt(c, s, x)
    BY DEF Inserted
  <2> HIDE DEF x, s, t, N
  <2>4. /\ InsertAt(c, s, x) \in Seq(N)
        /\ Len(InsertAt(c, s, x)) = Len(c) + 1
        /\ \A j \in 1..(Len(c) + 1) :
             InsertAt(c, s, x)[j] = IF j < s THEN c[j] ELSE IF j = s THEN x ELSE c[j - 1]
    BY <2>1, <2>2, InsertedAt
  <2> QED
    BY <2>3, <2>4 DEF Chain, x, N
<1> HIDE DEF s, t
<1>6. \A i \in 1..Len(t) : HashValue(t[i].key) = b
  BY <1>1, <1>2, <1>3, <1>4, <1>5
<1>7. ASSUME NEW i \in 1..Len(t), NEW j \in 1..(i - 1)
      PROVE  After(t[i].key, t[j].key)
  <2>1. CASE i < s
    BY <2>1, <1>1, <1>2, <1>5
  <2>2. CASE i = s
    BY <2>2, <1>1, <1>2, <1>4, <1>5
  <2>3. CASE i > s
    <3>1. i - 1 \in 1..Len(c) /\ t[i] = c[i - 1] /\ s <= Len(c)
      BY <2>3, <1>1, <1>2, <1>5
    <3>2. CASE j < s
      BY <3>1, <3>2, <2>3, <1>1, <1>2, <1>5
    <3>3. CASE j > s
      <4>1. j - 1 \in 1..(i - 1 - 1) /\ t[j] = c[j - 1]
        BY <3>1, <3>3, <1>1, <1>2, <1>5
      <4> QED
        BY <4>1, <3>1, <1>1
    <3>4. CASE j = s
      <4>1. t[j].key = k
        BY <3>4, <3>1, <1>1, <1>2, <1>4, <1>5
      <4>2. ~After(k, c[s].key) /\ c[s].key # k /\ c[s].key \in TableKeys
        BY <3>1, <1>1, <1>2, <1>3
      <4>3. CASE i - 1 = s
        BY <4>1, <4>2, <4>3, <3>1, HashTabAssumption
      <4>4. CASE i - 1 # s
        <5>1. s \in 1..(i - 1 - 1)
          BY <4>4, <2>3, <3>1, <1>1, <1>2
        <5>2. After(c[i - 1].key, c[s].key) /\ c[i - 1].key \in TableKeys
          BY <5>1, <3>1, <1>1
        <5> QED
          BY <4>1, <4>2, <5>2, <3>1, HashTabAssumption
      <4> QED
        BY <4>3, <4>4
    <3> QED
      BY <3>2, <3>3, <3>4, <1>2
  <2> QED
    BY <2>1, <2>2, <2>3, <1>2, <1>5, <1>1
<1>8. ChainOK(t, b)
  BY <1>5, <1>6, <1>7, SortedChain
<1>9. ToSet(t) = ToSet(c) \cup {Node(k, d)}
  <2>1. DOMAIN t = 1..(Len(c) + 1)
    BY <1>5, LenProperties DEF Chain
  <2>2. \A j \in DOMAIN t : t[j] \in ToSet(c) \cup {Node(k, d)}
    BY <2>1, <1>1, <1>2, <1>5 DEF ToSet
  <2>3. t[s] = Node(k, d) /\ s \in DOMAIN t
    BY <2>1, <1>1, <1>2, <1>5
  <2>4. \A j \in DOMAIN c : \E m \in DOMAIN t : t[m] = c[j]
    <3> TAKE j \in DOMAIN c
    <3>1. CASE j < s
      BY <3>1, <2>1, <1>1, <1>2, <1>5
    <3>2. CASE j >= s
      <4>1. j + 1 \in DOMAIN t /\ t[j + 1] = c[j]
        BY <3>2, <2>1, <1>1, <1>2, <1>5
      <4> QED
        BY <4>1
    <3> QED
      BY <3>1, <3>2, <1>1, <1>2
  <2> QED
    BY <2>2, <2>3, <2>4 DEF ToSet
<1> QED
  BY <1>8, <1>9 DEF t

\* What a removal makes of it.
LEMMA ChainRemoved ==
  ASSUME NEW b, NEW c, ChainOK(c, b), NEW k \in TableKeys, Meets(c, k)
  PROVE  /\ ChainOK(RemoveAt(c, Stop(c, k)), b)
         /\ ToSet(RemoveAt(c, Stop(c, k))) = {n \in ToSet(c) : n.key # k}
<1> DEFINE s == Stop(c, k)
           t == RemoveAt(c, s)
<1>1. /\ c \in Chain /\ Len(c) \in Nat /\ DOMAIN c = 1..Len(c)
      /\ \A i \in 1..Len(c) : c[i].key \in TableKeys
      /\ \A i \in 1..Len(c) : \A j \in 1..(i - 1) : After(c[i].key, c[j].key)
      /\ \A i \in 1..Len(c) : HashValue(c[i].key) = b
  BY ChainSorted DEF ChainOK
<1>2. s \in 1..Len(c) /\ c[s].key = k
  BY <1>1, WalkEnds DEF Meets
<1>3. \A i \in 1..Len(c) : c[i].key = k <=> i = s
  BY <1>1, <1>2, MeetsIts
<1>4. /\ t \in Chain
      /\ Len(t) = Len(c) - 1
      /\ \A j \in 1..(Len(c) - 1) : t[j] = c[IF j < s THEN j ELSE j + 1]
  BY <1>1, <1>2, RemovedAt DEF Chain
<1> HIDE DEF s, t
<1>5. \A i \in 1..Len(t) : HashValue(t[i].key) = b
  BY <1>1, <1>2, <1>4
<1>6. ASSUME NEW i \in 1..Len(t), NEW j \in 1..(i - 1)
      PROVE  After(t[i].key, t[j].key)
  <2> DEFINE ii == IF i < s THEN i ELSE i + 1
             jj == IF j < s THEN j ELSE j + 1
  <2>1. ii \in 1..Len(c) /\ jj \in 1..(ii - 1) /\ t[i] = c[ii] /\ t[j] = c[jj]
    BY <1>1, <1>2, <1>4
  <2> QED
    BY <2>1, <1>1
<1>7. ChainOK(t, b)
  BY <1>4, <1>5, <1>6, SortedChain
<1>8. ToSet(t) = {n \in ToSet(c) : n.key # k}
  <2>1. DOMAIN t = 1..(Len(c) - 1)
    BY <1>4, LenProperties DEF Chain
  <2>2. ASSUME NEW j \in DOMAIN t PROVE t[j] \in ToSet(c) /\ t[j].key # k
    <3> DEFINE jj == IF j < s THEN j ELSE j + 1
    <3>1. jj \in 1..Len(c) /\ jj # s /\ t[j] = c[jj]
      BY <2>1, <1>1, <1>2, <1>4
    <3> HIDE DEF jj
    <3> QED
      BY <3>1, <1>1, <1>3 DEF ToSet
  <2>3. ASSUME NEW j \in DOMAIN c, c[j].key # k PROVE \E m \in DOMAIN t : t[m] = c[j]
    <3>1. j # s
      BY <2>3, <1>2
    <3>2. CASE j < s
      <4>1. j \in DOMAIN t /\ t[j] = c[j]
        BY <3>2, <2>1, <1>1, <1>2, <1>4
      <4> QED
        BY <4>1
    <3>3. CASE j > s
      <4>1. j - 1 \in DOMAIN t /\ t[j - 1] = c[j]
        BY <3>3, <2>1, <1>1, <1>2, <1>4
      <4> QED
        BY <4>1
    <3> QED
      BY <3>1, <3>2, <3>3, <1>1, <1>2
  <2> QED
    BY <2>2, <2>3 DEF ToSet
<1> QED
  BY <1>7, <1>8 DEF t, s

-----------------------------------------------------------------------------
HashInv ==
  /\ chains \in [Buckets -> Chain]
  /\ \A b \in Buckets : ChainOK(chains[b], b)

LEMMA HashInitInv == HashtabCreate => HashInv
<1> SUFFICES ASSUME HashtabCreate PROVE HashInv
  OBVIOUS
<1>1. <<>> \in Chain /\ \A b : ChainOK(<<>>, b)
  BY DEF Chain, ChainOK
<1> QED
  BY <1>1 DEF HashInv, HashtabCreate

\* Insertion keeps the table in order, and adds exactly the node of its key.
LEMMA InsertInv ==
  ASSUME HashInv, NEW k \in TableKeys, NEW d \in Data, HashtabInsert(k, d)
  PROVE  /\ HashInv'
         /\ Nodes' = IF Finds(k) THEN Nodes ELSE Nodes \cup {Node(k, d)}
<1> DEFINE h == HashValue(k)
<1>1. h \in Buckets
  BY HashTabAssumption
<1>2. CASE Finds(k)
  <2>1. chains' = chains
    BY <1>2 DEF HashtabInsert
  <2> QED
    BY <2>1, <1>2 DEF HashInv, Nodes
<1>3. CASE ~Finds(k)
  <2> DEFINE t == Inserted(chains[h], k, d)
  <2>1. chains' = [chains EXCEPT ![h] = t]
    BY <1>3 DEF HashtabInsert
  <2>2. ChainOK(t, h) /\ ToSet(t) = ToSet(chains[h]) \cup {Node(k, d)}
    BY <1>1, <1>3, ChainInserted DEF HashInv, Finds
  <2>3. t \in Chain
    BY <2>2 DEF ChainOK
  <2> HIDE DEF t, h
  <2>4. HashInv'
    BY <2>1, <2>2, <2>3, <1>1 DEF HashInv
  <2>5. \A b \in Buckets : ToSet(chains'[b]) = IF b = h THEN ToSet(chains[h]) \cup {Node(k, d)}
                                               ELSE ToSet(chains[b])
    BY <2>1, <2>2, <1>1 DEF HashInv
  <2>6. Nodes' = Nodes \cup {Node(k, d)}
    BY <2>5, <1>1 DEF Nodes
  <2> QED
    BY <2>4, <2>6, <1>3
<1> QED
  BY <1>2, <1>3

\* Removal keeps it in order, and takes out exactly the node of its key.
LEMMA RemoveInv ==
  ASSUME HashInv, NEW k \in TableKeys, HashtabRemove(k)
  PROVE  HashInv' /\ Nodes' = {n \in Nodes : n.key # k}
<1> DEFINE h == HashValue(k)
<1>1. h \in Buckets
  BY HashTabAssumption
<1>2. \A b \in Buckets : b # h => \A n \in ToSet(chains[b]) : n.key # k
  BY DEF HashInv, ChainOK, ToSet
<1>3. CASE ~Finds(k)
  <2>1. chains' = chains
    BY <1>3 DEF HashtabRemove
  <2>2. \A n \in ToSet(chains[h]) : n.key # k
    BY <1>1, <1>3, MeetsIts DEF HashInv, Finds, ToSet
  <2>3. Nodes = {n \in Nodes : n.key # k}
    BY <2>2, <1>1, <1>2 DEF Nodes
  <2>4. Nodes' = Nodes /\ HashInv'
    BY <2>1 DEF Nodes, HashInv
  <2> QED
    BY <2>3, <2>4
<1>4. CASE Finds(k)
  <2> DEFINE t == RemoveAt(chains[h], Stop(chains[h], k))
  <2>1. chains' = [chains EXCEPT ![h] = t]
    BY <1>4 DEF HashtabRemove
  <2>2. ChainOK(t, h) /\ ToSet(t) = {n \in ToSet(chains[h]) : n.key # k}
    BY <1>1, <1>4, ChainRemoved DEF HashInv, Finds
  <2>3. t \in Chain
    BY <2>2 DEF ChainOK
  <2> HIDE DEF t, h
  <2>4. HashInv'
    BY <2>1, <2>2, <2>3, <1>1 DEF HashInv
  <2>5. \A b \in Buckets : ToSet(chains'[b]) = {n \in ToSet(chains[b]) : n.key # k}
    <3> TAKE b \in Buckets
    <3>1. CASE b = h
      BY <3>1, <2>1, <2>2, <1>1 DEF HashInv
    <3>2. CASE b # h
      <4>1. chains'[b] = chains[b]
        BY <3>2, <2>1, <1>1 DEF HashInv
      <4> QED
        BY <4>1, <3>2, <1>2
    <3> QED
      BY <3>1, <3>2
  <2>6. Nodes' = {n \in Nodes : n.key # k}
    BY <2>5 DEF Nodes
  <2> QED
    BY <2>4, <2>6
<1> QED
  BY <1>3, <1>4

\* What a search finds is the node of its key.
LEMMA FindsNode ==
  ASSUME HashInv, NEW k \in TableKeys
  PROVE  /\ Finds(k) <=> \E n \in Nodes : n.key = k
         /\ \A n \in Nodes : n.key = k => Search(k) = n.datum
<1> DEFINE c == chains[HashValue(k)]
<1>1. HashValue(k) \in Buckets /\ ChainOK(c, HashValue(k))
  BY HashTabAssumption DEF HashInv
<1>2. \A n \in Nodes : n.key = k => n \in ToSet(c)
  BY DEF Nodes, HashInv, ChainOK, ToSet
<1>3. Meets(c, k) <=> \E i \in DOMAIN c : c[i].key = k
  BY <1>1, MeetsIts
<1>4. \A i \in DOMAIN c : c[i].key = k => Stop(c, k) = i
  BY <1>1, MeetsIts
<1>5. ToSet(c) \subseteq Nodes
  BY <1>1 DEF Nodes
<1> QED
  BY <1>2, <1>3, <1>4, <1>5 DEF Finds, Search, ToSet

\* Every node is met by the walk with its own key (the table of any of the
\* program's modes, whatever is inserted and removed).
THEOREM NodesMetTheorem == HashTabSpec => []EveryNodeMet
<1>1. HashtabCreate => HashInv
  BY HashInitInv
<1>2. HashInv /\ [HashTabNext]_chains => HashInv'
  <2> SUFFICES ASSUME HashInv, [HashTabNext]_chains PROVE HashInv'
    OBVIOUS
  <2>1. ASSUME NEW k \in TableKeys, NEW d \in Data, HashtabInsert(k, d) PROVE HashInv'
    BY <2>1, InsertInv
  <2>2. ASSUME NEW k \in TableKeys, HashtabRemove(k) PROVE HashInv'
    BY <2>2, RemoveInv
  <2>3. CASE HashtabDestroy
    <3>1. <<>> \in Chain /\ \A b : ChainOK(<<>>, b)
      BY DEF Chain, ChainOK
    <3> QED
      BY <2>3, <3>1 DEF HashInv, HashtabDestroy
  <2>4. CASE UNCHANGED chains
    BY <2>4 DEF HashInv
  <2> QED
    BY <2>1, <2>2, <2>3, <2>4 DEF HashTabNext
<1>3. HashInv => EveryNodeMet
  BY DEF HashInv, ChainOK, EveryNodeMet
<1> QED
  BY <1>1, <1>2, <1>3, PTL DEF HashTabSpec
=============================================================================
