--------------------------- MODULE ProvidedProofs ---------------------------
(***************************************************************************)
(* Theorems about the metadata of PROVIDED mode and the replay of requests *)
(* in that mode, for any set of blocks, any contents and any chunker that  *)
(* tiles them, any replacement policy of the sector cache and traces of    *)
(* any length.                                                             *)
(***************************************************************************)
EXTENDS ProvidedReplay, SequenceFacts

-----------------------------------------------------------------------------
\* Lists of places.  A list has one tuple with the mark, but may have several
\* tuples of a block; what a step does to it is to take one tuple in or out.
TupleType == [blockID : Blocks, offset : 0..BlockSize - 1, dedupfetch : BOOLEAN]

GoodList(f) ==
  /\ f \in Seq(TupleType)
  /\ \E p \in DOMAIN f : Marked(f) = {p}

Times(f, x) == Cardinality(PlacesOf(f, x))
Holds(f, x, o) == \E p \in DOMAIN f : f[p].blockID = x /\ f[p].offset = o

\* List g is list f with a tuple at i more, but for the marks.
Skip(p, i) == IF p < i THEN p ELSE p + 1
SamePlace(t, u) == t.blockID = u.blockID /\ t.offset = u.offset
Widens(f, g, i) ==
  /\ f \in Seq(TupleType) /\ g \in Seq(TupleType)
  /\ Len(g) = Len(f) + 1 /\ i \in 1..Len(g)
  /\ \A p \in 1..Len(f) : SamePlace(f[p], g[Skip(p, i)])

LEMMA FirstOfOne ==
  ASSUME NEW p \in Nat
  PROVE  First({p}) = p
BY DEF First

LEMMA ListFacts ==
  ASSUME NEW f, f \in Seq(TupleType)
  PROVE  /\ DOMAIN f = 1..Len(f) /\ Len(f) \in Nat
         /\ \A p \in DOMAIN f : f[p] \in TupleType
         /\ \A p \in DOMAIN f : /\ f[p].blockID \in Blocks
                                /\ f[p].offset \in 0..BlockSize - 1
                                /\ f[p].dedupfetch \in BOOLEAN
<1>1. DOMAIN f = 1..Len(f) /\ Len(f) \in Nat /\ \A p \in DOMAIN f : f[p] \in TupleType
  BY LenProperties, ElementOfSeq
<1> QED
  BY <1>1 DEF TupleType

LEMMA GoodListFacts ==
  ASSUME NEW f, GoodList(f)
  PROVE  /\ f \in Seq(TupleType)
         /\ Cardinality(Marked(f)) = 1
         /\ First(Marked(f)) \in DOMAIN f /\ Marked(f) = {First(Marked(f))}
         /\ DOMAIN f = 1..Len(f) /\ Len(f) \in Nat \ {0}
         /\ \A p \in DOMAIN f : f[p] \in TupleType
<1>1. f \in Seq(TupleType)
  BY DEF GoodList
<1>2. DOMAIN f = 1..Len(f) /\ Len(f) \in Nat /\ \A p \in DOMAIN f : f[p] \in TupleType
  BY <1>1, ListFacts
<1>3. PICK p \in DOMAIN f : Marked(f) = {p}
  BY DEF GoodList
<1>4. First(Marked(f)) = p
  BY <1>2, <1>3, FirstOfOne
<1>5. Cardinality(Marked(f)) = 1
  BY <1>3, FS_Singleton
<1>6. Len(f) # 0
  BY <1>2, <1>3
<1> QED
  BY <1>1, <1>2, <1>3, <1>4, <1>5, <1>6

LEMMA PlacesFinite ==
  ASSUME NEW f, f \in Seq(TupleType), NEW x
  PROVE  IsFiniteSet(PlacesOf(f, x)) /\ Times(f, x) \in Nat
<1>1. DOMAIN f = 1..Len(f) /\ Len(f) \in Nat
  BY ListFacts
<1>2. IsFiniteSet(1..Len(f))
  BY <1>1, FS_Interval
<1>3. PlacesOf(f, x) \in SUBSET (1..Len(f))
  BY <1>1 DEF PlacesOf
<1>4. IsFiniteSet(PlacesOf(f, x))
  BY <1>2, <1>3, FS_Subset
<1> QED
  BY <1>4, FS_CardinalityType DEF Times

\* The tuple at i is the only one of its block more.
LEMMA WidenedTimes ==
  ASSUME NEW f, NEW g, NEW i, Widens(f, g, i), NEW x
  PROVE  Times(g, x) = Times(f, x) + IF g[i].blockID = x THEN 1 ELSE 0
<1>1. /\ DOMAIN f = 1..Len(f) /\ Len(f) \in Nat /\ DOMAIN g = 1..(Len(f) + 1)
      /\ i \in 1..(Len(f) + 1) /\ f \in Seq(TupleType) /\ g \in Seq(TupleType)
  BY ListFacts DEF Widens
<1>2. \A p \in 1..Len(f) : f[p].blockID = g[Skip(p, i)].blockID
  BY DEF Widens, SamePlace
<1> DEFINE P == PlacesOf(f, x)
           Q == PlacesOf(g, x) \ {i}
           h == [p \in P |-> Skip(p, i)]
<1>3. P \subseteq 1..Len(f) /\ IsFiniteSet(P)
  BY <1>1, PlacesFinite DEF PlacesOf
<1>4. h \in [P -> Q]
  <2> SUFFICES ASSUME NEW p \in P PROVE Skip(p, i) \in Q
    OBVIOUS
  <2>1. p \in 1..Len(f) /\ f[p].blockID = x
    BY <1>3 DEF PlacesOf
  <2>2. Skip(p, i) \in 1..(Len(f) + 1) /\ Skip(p, i) # i
    BY <1>1, <2>1 DEF Skip
  <2> QED
    BY <1>1, <1>2, <2>1, <2>2 DEF PlacesOf
<1>5. ASSUME NEW p \in P, NEW q \in P, h[p] = h[q] PROVE p = q
  <2>1. p \in Int /\ q \in Int /\ i \in Int /\ Skip(p, i) = Skip(q, i)
    BY <1>1, <1>3, <1>5
  <2> QED
    BY <2>1 DEF Skip
<1>6. ASSUME NEW q \in Q PROVE \E p \in P : h[p] = q
  <2>1. q \in 1..(Len(f) + 1) /\ q # i /\ g[q].blockID = x
    BY <1>1 DEF PlacesOf
  <2>2. PICK p \in 1..Len(f) : Skip(p, i) = q
    <3>1. CASE q < i
      <4>1. q \in 1..Len(f) /\ Skip(q, i) = q
        BY <1>1, <2>1, <3>1 DEF Skip
      <4> QED
        BY <4>1
    <3>2. CASE ~(q < i)
      <4>1. q - 1 \in 1..Len(f) /\ Skip(q - 1, i) = q
        BY <1>1, <2>1, <3>2 DEF Skip
      <4> QED
        BY <4>1
    <3> QED
      BY <3>1, <3>2
  <2>3. p \in P
    BY <1>1, <1>2, <2>1, <2>2 DEF PlacesOf
  <2> QED
    BY <2>2, <2>3
<1> HIDE DEF h
<1>7. Cardinality(Q) = Cardinality(P) /\ IsFiniteSet(Q)
  <2>1. h \in Bijection(P, Q)
    BY <1>4, <1>5, <1>6 DEF Bijection, Injection, Surjection, IsInjective
  <2>2. ExistsBijection(P, Q)
    BY <2>1 DEF ExistsBijection
  <2> QED
    BY <1>3, <2>2, FS_Bijection
<1>8. CASE g[i].blockID = x
  <2>1. i \in PlacesOf(g, x)
    BY <1>1, <1>8 DEF PlacesOf
  <2>2. PlacesOf(g, x) = Q \cup {i} /\ i \notin Q
    BY <2>1
  <2>3. Cardinality(PlacesOf(g, x)) = Cardinality(Q) + 1
    BY <1>7, <2>2, FS_AddElement
  <2> QED
    BY <1>7, <1>8, <2>3 DEF Times
<1>9. CASE g[i].blockID # x
  <2>1. PlacesOf(g, x) = Q
    BY <1>9 DEF PlacesOf
  <2>2. Times(f, x) \in Nat
    BY <1>1, PlacesFinite
  <2>3. Times(g, x) = Times(f, x)
    BY <1>7, <2>1, Zenon DEF Times
  <2> QED
    BY <1>9, <2>2, <2>3
<1> QED
  BY <1>8, <1>9

LEMMA WidenedPlaces ==
  ASSUME NEW f, NEW g, NEW i, Widens(f, g, i), NEW x, NEW o
  PROVE  Holds(g, x, o) <=> Holds(f, x, o) \/ SamePlace(g[i], [blockID |-> x, offset |-> o])
<1>1. /\ DOMAIN f = 1..Len(f) /\ Len(f) \in Nat /\ DOMAIN g = 1..(Len(f) + 1)
      /\ i \in 1..(Len(f) + 1)
  BY ListFacts DEF Widens
<1>2. \A p \in 1..Len(f) : /\ f[p].blockID = g[Skip(p, i)].blockID
                           /\ f[p].offset = g[Skip(p, i)].offset
  BY DEF Widens, SamePlace
<1>3. ASSUME Holds(f, x, o) PROVE Holds(g, x, o)
  <2>1. PICK p \in 1..Len(f) : f[p].blockID = x /\ f[p].offset = o
    BY <1>1, <1>3 DEF Holds
  <2>2. Skip(p, i) \in DOMAIN g
    BY <1>1, <2>1 DEF Skip
  <2> QED
    BY <1>2, <2>1, <2>2 DEF Holds
<1>4. ASSUME SamePlace(g[i], [blockID |-> x, offset |-> o]) PROVE Holds(g, x, o)
  BY <1>1, <1>4 DEF Holds, SamePlace
<1>5. ASSUME Holds(g, x, o), ~SamePlace(g[i], [blockID |-> x, offset |-> o])
      PROVE  Holds(f, x, o)
  <2>1. PICK q \in 1..(Len(f) + 1) : g[q].blockID = x /\ g[q].offset = o
    BY <1>1, <1>5 DEF Holds
  <2>2. q # i
    BY <1>5, <2>1 DEF SamePlace
  <2>3. PICK p \in 1..Len(f) : Skip(p, i) = q
    <3>1. CASE q < i
      <4>1. q \in 1..Len(f) /\ Skip(q, i) = q
        BY <1>1, <2>1, <3>1 DEF Skip
      <4> QED
        BY <4>1
    <3>2. CASE ~(q < i)
      <4>1. q - 1 \in 1..Len(f) /\ Skip(q - 1, i) = q
        BY <1>1, <2>1, <2>2, <3>2 DEF Skip
      <4> QED
        BY <4>1
    <3> QED
      BY <3>1, <3>2
  <2> QED
    BY <1>1, <1>2, <2>1, <2>3 DEF Holds
<1> QED
  BY <1>3, <1>4, <1>5

LEMMA FirstIn ==
  ASSUME NEW P \in SUBSET Nat, P # {}
  PROVE  First(P) \in P
<1>1. \E i \in P : \A j \in P : i <= j
  BY SmallestOne
<1> QED
  BY <1>1 DEF First

\* Lists that differ by their marks.
LEMMA RemarkedList ==
  ASSUME NEW f, NEW g, f \in Seq(TupleType), g \in Seq(TupleType), Len(g) = Len(f),
         \A p \in 1..Len(f) : SamePlace(g[p], f[p])
  PROVE  \A x, o : Times(g, x) = Times(f, x) /\ (Holds(g, x, o) <=> Holds(f, x, o))
<1>1. DOMAIN f = 1..Len(f) /\ DOMAIN g = 1..Len(f)
  BY ListFacts
<1> SUFFICES ASSUME NEW x, NEW o
             PROVE  Times(g, x) = Times(f, x) /\ (Holds(g, x, o) <=> Holds(f, x, o))
  OBVIOUS
<1>2. PlacesOf(g, x) = PlacesOf(f, x)
  BY <1>1 DEF PlacesOf, SamePlace
<1>3. Holds(g, x, o) <=> Holds(f, x, o)
  BY <1>1 DEF Holds, SamePlace
<1> QED
  BY <1>2, <1>3 DEF Times

LEMMA UnmarkedList ==
  ASSUME NEW f, GoodList(f)
  PROVE  /\ Unmark(f) \in Seq(TupleType) /\ Len(Unmark(f)) = Len(f)
         /\ \A p \in 1..Len(f) : SamePlace(Unmark(f)[p], f[p]) /\ ~Unmark(f)[p].dedupfetch
<1> DEFINE m == First(Marked(f))
           u == Unmark(f)
<1>1. /\ m \in 1..Len(f) /\ Marked(f) = {m}
      /\ DOMAIN f = 1..Len(f) /\ Len(f) \in Nat /\ f \in Seq(TupleType)
      /\ \A p \in 1..Len(f) : f[p] \in TupleType
  BY GoodListFacts
<1>2. u = [f EXCEPT ![m] = [f[m] EXCEPT !.dedupfetch = FALSE]]
  BY DEF Unmark, SetMark
<1>3. [f[m] EXCEPT !.dedupfetch = FALSE] \in TupleType
  BY <1>1 DEF TupleType
<1>4. /\ u \in Seq(TupleType) /\ Len(u) = Len(f)
      /\ \A p \in 1..Len(f) : u[p] = IF p = m THEN [f[m] EXCEPT !.dedupfetch = FALSE]
                                     ELSE f[p]
  BY <1>1, <1>2, <1>3, ExceptSeq
<1>5. \A p \in 1..Len(f) : p # m => ~f[p].dedupfetch
  BY <1>1 DEF Marked
<1>6. SamePlace([f[m] EXCEPT !.dedupfetch = FALSE], f[m])
  BY <1>1 DEF TupleType, SamePlace
<1>7. ~[f[m] EXCEPT !.dedupfetch = FALSE].dedupfetch
  BY <1>1 DEF TupleType
<1>8. \A t : SamePlace(t, t)
  BY DEF SamePlace
<1> HIDE DEF m, u
<1> QED
  BY <1>4, <1>5, <1>6, <1>7, <1>8 DEF u

\* The list of a new chunk.
LEMMA NewList ==
  ASSUME NEW b \in Blocks, NEW o \in 0..BlockSize - 1
  PROVE  /\ GoodList(<<Tuple(b, o)>>)
         /\ \A x : Times(<<Tuple(b, o)>>, x) = IF x = b THEN 1 ELSE 0
         /\ \A x, q : Holds(<<Tuple(b, o)>>, x, q) <=> x = b /\ q = o
<1> DEFINE f == <<Tuple(b, o)>>
<1>1. f \in Seq(TupleType) /\ DOMAIN f = {1} /\ f[1] = Tuple(b, o)
  BY DEF Tuple, TupleType
<1> HIDE DEF f
<1>2. f[1].blockID = b /\ f[1].offset = o /\ f[1].dedupfetch
  BY <1>1 DEF Tuple
<1>3. Marked(f) = {1}
  BY <1>1, <1>2 DEF Marked
<1>4. ASSUME NEW x PROVE Times(f, x) = IF x = b THEN 1 ELSE 0
  <2>1. CASE x = b
    <3>1. PlacesOf(f, x) = {1}
      BY <1>1, <1>2, <2>1 DEF PlacesOf
    <3> QED
      BY <2>1, <3>1, FS_Singleton DEF Times
  <2>2. CASE x # b
    <3>1. PlacesOf(f, x) = {}
      BY <1>1, <1>2, <2>2 DEF PlacesOf
    <3> QED
      BY <2>2, <3>1, FS_EmptySet DEF Times
  <2> QED
    BY <2>1, <2>2
<1>5. \A x, q : Holds(f, x, q) <=> x = b /\ q = o
  BY <1>1, <1>2 DEF Holds
<1> QED
  BY <1>1, <1>3, <1>4, <1>5 DEF GoodList, f

\* A place that joins takes the mark over.
Joins(f, g, b, o) ==
  /\ GoodList(g)
  /\ \A x : Times(g, x) = Times(f, x) + IF x = b THEN 1 ELSE 0
  /\ \A x, q : Holds(g, x, q) <=> Holds(f, x, q) \/ (x = b /\ q = o)

LEMMA JoinedList ==
  ASSUME NEW f, GoodList(f), NEW b \in Blocks, NEW o \in 0..BlockSize - 1
  PROVE  Joins(f, <<Tuple(b, o)>> \o Unmark(f), b, o)
<1> DEFINE u == Unmark(f)
           one == <<Tuple(b, o)>>
           g == one \o u
<1>1. /\ DOMAIN f = 1..Len(f) /\ Len(f) \in Nat /\ f \in Seq(TupleType)
      /\ u \in Seq(TupleType) /\ Len(u) = Len(f)
      /\ \A p \in 1..Len(f) : SamePlace(u[p], f[p]) /\ ~u[p].dedupfetch
  BY GoodListFacts, UnmarkedList
<1>2. one \in Seq(TupleType) /\ Len(one) = 1 /\ one[1] = Tuple(b, o)
  BY DEF Tuple, TupleType
<1> HIDE DEF u, one
<1>3. /\ g \in Seq(TupleType) /\ Len(g) = Len(one) + Len(u)
      /\ \A p \in 1..(Len(one) + Len(u)) :
           g[p] = IF p <= Len(one) THEN one[p] ELSE u[p - Len(one)]
  <2>1. u \in Seq(TupleType) /\ one \in Seq(TupleType)
    BY <1>1, <1>2
  <2> QED
    BY <2>1, ConcatProperties
<1> HIDE DEF g
<1>4. /\ Len(g) = Len(f) + 1 /\ DOMAIN g = 1..(Len(f) + 1)
      /\ g[1] = Tuple(b, o)
  <2>1. Len(g) = Len(f) + 1
    BY <1>1, <1>2, <1>3
  <2>2. DOMAIN g = 1..Len(g)
    BY <1>3, ListFacts
  <2>3. g[1] = one[1]
    BY <1>1, <1>2, <1>3
  <2> QED
    BY <1>2, <2>1, <2>2, <2>3
<1>5. \A p \in 1..Len(f) : p + 1 \in 1..(Len(f) + 1) /\ g[p + 1] = u[p]
  <2> SUFFICES ASSUME NEW p \in 1..Len(f)
               PROVE  p + 1 \in 1..(Len(f) + 1) /\ g[p + 1] = u[p]
    OBVIOUS
  <2>1. p + 1 \in 1..(1 + Len(f)) /\ ~(p + 1 <= 1) /\ p + 1 - 1 = p
    BY <1>1
  <2> QED
    BY <1>1, <1>2, <1>3, <2>1
<1>6. g[1].blockID = b /\ g[1].offset = o /\ g[1].dedupfetch
  BY <1>4 DEF Tuple
<1>7. Widens(f, g, 1)
  <2>1. \A p \in 1..Len(f) : Skip(p, 1) = p + 1
    BY <1>1 DEF Skip
  <2>2. \A p \in 1..Len(f) : SamePlace(f[p], g[Skip(p, 1)])
    BY <1>1, <1>5, <2>1 DEF SamePlace
  <2> QED
    BY <1>1, <1>3, <1>4, <2>2 DEF Widens
<1>8. Marked(g) = {1}
  <2>1. ASSUME NEW q \in DOMAIN g, q # 1 PROVE ~g[q].dedupfetch
    <3>1. q - 1 \in 1..Len(f) /\ q - 1 + 1 = q
      BY <1>1, <1>4, <2>1
    <3> QED
      BY <1>1, <1>5, <3>1
  <2> QED
    BY <1>1, <1>4, <1>6, <2>1 DEF Marked
<1>9. GoodList(g)
  BY <1>1, <1>3, <1>4, <1>8 DEF GoodList
<1>10. \A x : Times(g, x) = Times(f, x) + IF x = b THEN 1 ELSE 0
  BY <1>6, <1>7, WidenedTimes
<1>11. \A x, q : Holds(g, x, q) <=> Holds(f, x, q) \/ (x = b /\ q = o)
  BY <1>6, <1>7, WidenedPlaces DEF SamePlace
<1> QED
  BY <1>9, <1>10, <1>11 DEF g, u, one, Joins

\* A place of a block leaves a list of several, and hands the mark on.
Leaves(f, g, b) ==
  /\ GoodList(g)
  /\ \A x : Times(f, x) = Times(g, x) + IF x = b THEN 1 ELSE 0
  /\ \A x, q : Holds(g, x, q) => Holds(f, x, q)
  /\ \A x, q : Holds(f, x, q) /\ x # b => Holds(g, x, q)

LEMMA LeftList ==
  ASSUME NEW f, GoodList(f), NEW b \in Blocks, PlacesOf(f, b) # {}, Len(f) > 1
  PROVE  Leaves(f, DelC2V(f, b), b)
<1> DEFINE i == First(PlacesOf(f, b))
           m == First(Marked(f))
           h == IF f[i].dedupfetch THEN MarkAnother(f) ELSE f
           g == RemoveAt(h, i)
<1>1. /\ m \in 1..Len(f) /\ Marked(f) = {m} /\ f \in Seq(TupleType)
      /\ DOMAIN f = 1..Len(f) /\ Len(f) \in Nat
      /\ \A p \in 1..Len(f) : f[p] \in TupleType
  BY GoodListFacts
<1>2. i \in 1..Len(f) /\ f[i].blockID = b
  <2>1. PlacesOf(f, b) \in SUBSET Nat
    BY <1>1 DEF PlacesOf
  <2>2. i \in PlacesOf(f, b)
    BY <2>1, FirstIn
  <2> QED
    BY <1>1, <2>2 DEF PlacesOf
<1>3. \A p \in 1..Len(f) : f[p].dedupfetch <=> p = m
  BY <1>1 DEF Marked
<1> HIDE DEF i, m
<1>4. /\ h \in Seq(TupleType) /\ Len(h) = Len(f)
      /\ \A p \in 1..Len(f) : SamePlace(h[p], f[p])
      /\ \E n \in 1..Len(f) : /\ n # i
                              /\ \A p \in 1..Len(f) : p # i => (h[p].dedupfetch <=> p = n)
  <2>1. CASE f[i].dedupfetch
    <3> DEFINE n == First(DOMAIN f \ Marked(f))
    <3>1. n \in 1..Len(f) /\ n # m
      <4>1. DOMAIN f \ Marked(f) # {}
        <5>1. 1 \in DOMAIN f /\ 2 \in DOMAIN f
          BY <1>1
        <5> QED
          BY <1>1, <5>1
      <4>2. DOMAIN f \ Marked(f) \in SUBSET Nat
        BY <1>1
      <4>3. n \in DOMAIN f \ Marked(f)
        BY <4>1, <4>2, FirstIn
      <4> QED
        BY <1>1, <4>3
    <3>2. h = [f EXCEPT ![n] = [f[n] EXCEPT !.dedupfetch = TRUE]]
      BY <2>1 DEF MarkAnother, SetMark
    <3> HIDE DEF n, h
    <3>3. [f[n] EXCEPT !.dedupfetch = TRUE] \in TupleType
      BY <1>1, <3>1 DEF TupleType
    <3>4. /\ h \in Seq(TupleType) /\ Len(h) = Len(f)
          /\ \A p \in 1..Len(f) : h[p] = IF p = n THEN [f[n] EXCEPT !.dedupfetch = TRUE]
                                         ELSE f[p]
      BY <1>1, <3>1, <3>2, <3>3, ExceptSeq
    <3>5. /\ SamePlace([f[n] EXCEPT !.dedupfetch = TRUE], f[n])
          /\ [f[n] EXCEPT !.dedupfetch = TRUE].dedupfetch
      BY <1>1, <3>1 DEF TupleType, SamePlace
    <3>6. i = m
      BY <1>2, <1>3, <2>1
    <3>7. \A p \in 1..Len(f) : p # i => (h[p].dedupfetch <=> p = n)
      BY <1>3, <3>4, <3>5, <3>6
    <3>8. \A p \in 1..Len(f) : SamePlace(h[p], f[p])
      BY <3>4, <3>5 DEF SamePlace
    <3> QED
      BY <3>1, <3>4, <3>6, <3>7, <3>8
  <2>2. CASE ~f[i].dedupfetch
    <3>1. h = f /\ i # m
      BY <1>2, <1>3, <2>2
    <3>2. \A p \in 1..Len(f) : p # i => (h[p].dedupfetch <=> p = m)
      BY <1>3, <3>1
    <3>3. \A p \in 1..Len(f) : SamePlace(h[p], f[p])
      BY <3>1 DEF SamePlace
    <3> QED
      BY <1>1, <3>1, <3>2, <3>3
  <2> QED
    BY <2>1, <2>2
<1>5. PICK n \in 1..Len(f) : /\ n # i
                            /\ \A p \in 1..Len(f) : p # i => (h[p].dedupfetch <=> p = n)
  BY <1>4
<1> HIDE DEF h
<1>6. /\ g \in Seq(TupleType) /\ Len(g) = Len(f) - 1 /\ DOMAIN g = 1..(Len(f) - 1)
      /\ \A p \in 1..(Len(f) - 1) : g[p] = h[Skip(p, i)]
  <2>1. /\ g \in Seq(TupleType) /\ Len(g) = Len(f) - 1
        /\ \A p \in 1..(Len(f) - 1) : g[p] = h[IF p < i THEN p ELSE p + 1]
    <3>1. h \in Seq(TupleType) /\ i \in 1..Len(h) /\ Len(h) = Len(f)
      BY <1>2, <1>4
    <3>2. /\ g \in Seq(TupleType) /\ Len(g) = Len(h) - 1
          /\ \A p \in 1..(Len(h) - 1) : g[p] = h[IF p < i THEN p ELSE p + 1]
      BY <3>1, RemovedAt
    <3> HIDE DEF g
    <3> QED
      BY <3>1, <3>2
  <2> HIDE DEF g
  <2>2. DOMAIN g = 1..(Len(f) - 1)
    BY <2>1, ListFacts
  <2> QED
    BY <2>1, <2>2 DEF Skip
<1> HIDE DEF g
<1>7. /\ \A p \in 1..(Len(f) - 1) : Skip(p, i) \in 1..Len(f) /\ Skip(p, i) # i
      /\ \A p, q \in 1..(Len(f) - 1) : Skip(p, i) = Skip(q, i) => p = q
  BY <1>1, <1>2 DEF Skip
<1>8. PICK r \in 1..(Len(f) - 1) : Skip(r, i) = n
  <2>1. CASE n < i
    <3>1. n \in 1..(Len(f) - 1) /\ Skip(n, i) = n
      BY <1>1, <1>2, <2>1 DEF Skip
    <3> QED
      BY <3>1
  <2>2. CASE ~(n < i)
    <3>1. n - 1 \in 1..(Len(f) - 1) /\ Skip(n - 1, i) = n
      BY <1>1, <1>2, <1>5, <2>2 DEF Skip
    <3> QED
      BY <3>1
  <2> QED
    BY <2>1, <2>2
<1>9. Marked(g) = {r}
  <2>1. ASSUME NEW p \in 1..(Len(f) - 1) PROVE g[p].dedupfetch <=> p = r
    <3>1. g[p].dedupfetch <=> Skip(p, i) = n
      BY <1>5, <1>6, <1>7
    <3> QED
      BY <1>7, <1>8, <3>1
  <2> QED
    BY <1>6, <2>1 DEF Marked
<1>10. GoodList(g)
  BY <1>6, <1>9 DEF GoodList
<1>11. Widens(g, f, i)
  <2>1. \A p \in 1..Len(g) : SamePlace(g[p], f[Skip(p, i)])
    BY <1>4, <1>6, <1>7
  <2>2. /\ f \in Seq(TupleType) /\ g \in Seq(TupleType)
        /\ Len(f) = Len(g) + 1 /\ i \in 1..Len(f)
    BY <1>1, <1>2, <1>6
  <2> QED
    BY <2>1, <2>2, Zenon DEF Widens
<1>12. \A x : Times(f, x) = Times(g, x) + IF x = b THEN 1 ELSE 0
  BY <1>2, <1>11, WidenedTimes
<1>13. \A x, q : Holds(f, x, q) <=> Holds(g, x, q) \/ (x = b /\ q = f[i].offset)
  BY <1>2, <1>11, WidenedPlaces DEF SamePlace
<1>14. DelC2V(f, b) = g
  BY DEF DelC2V, g, h, i
<1> QED
  BY <1>10, <1>12, <1>13, <1>14 DEF Leaves

\* The last place of a list.
LEMMA LastList ==
  ASSUME NEW f, GoodList(f), NEW b, PlacesOf(f, b) # {}, ~(Len(f) > 1)
  PROVE  \A x : Times(f, x) = IF x = b THEN 1 ELSE 0
<1>1. DOMAIN f = {1}
  <2>1. DOMAIN f = 1..Len(f) /\ Len(f) \in Nat \ {0}
    BY GoodListFacts
  <2> QED
    BY <2>1
<1>2. f[1].blockID = b
  BY <1>1 DEF PlacesOf
<1> SUFFICES ASSUME NEW x PROVE Times(f, x) = IF x = b THEN 1 ELSE 0
  OBVIOUS
<1>3. CASE x = b
  <2>1. PlacesOf(f, x) = {1}
    BY <1>1, <1>2, <1>3 DEF PlacesOf
  <2> QED
    BY <1>3, <2>1, FS_Singleton DEF Times
<1>4. CASE x # b
  <2>1. PlacesOf(f, x) = {}
    BY <1>1, <1>2, <1>4 DEF PlacesOf
  <2> QED
    BY <1>4, <2>1, FS_EmptySet DEF Times
<1> QED
  BY <1>3, <1>4

\* A place that takes the mark over.
Leads(f, g) ==
  /\ GoodList(g)
  /\ \A x, o : Times(g, x) = Times(f, x) /\ (Holds(g, x, o) <=> Holds(f, x, o))

LEMMA LeadList ==
  ASSUME NEW f, GoodList(f), NEW i \in DOMAIN f
  PROVE  Leads(f, SetMark(Unmark(f), i, TRUE))
<1> DEFINE u == Unmark(f)
           t == [u[i] EXCEPT !.dedupfetch = TRUE]
           g == [u EXCEPT ![i] = t]
<1>1. /\ DOMAIN f = 1..Len(f) /\ Len(f) \in Nat /\ f \in Seq(TupleType)
      /\ u \in Seq(TupleType) /\ Len(u) = Len(f)
      /\ \A p \in 1..Len(f) : SamePlace(u[p], f[p]) /\ ~u[p].dedupfetch
  BY GoodListFacts, UnmarkedList
<1> HIDE DEF u
<1>2. u[i] \in TupleType /\ DOMAIN u = 1..Len(f)
  BY <1>1, ListFacts
<1>3. t \in TupleType /\ SamePlace(t, u[i]) /\ t.dedupfetch
  BY <1>2 DEF TupleType, SamePlace
<1> HIDE DEF t
<1>4. /\ g \in Seq(TupleType) /\ Len(g) = Len(f)
      /\ \A p \in 1..Len(f) : g[p] = IF p = i THEN t ELSE u[p]
  BY <1>1, <1>3, ExceptSeq
<1> HIDE DEF g
<1>5. \A p \in 1..Len(f) : SamePlace(g[p], f[p])
  BY <1>1, <1>3, <1>4 DEF SamePlace
<1>6. DOMAIN g = 1..Len(f)
  BY <1>4, ListFacts
<1>7. Marked(g) = {i}
  BY <1>1, <1>3, <1>4, <1>6 DEF Marked
<1>8. GoodList(g)
  BY <1>1, <1>4, <1>6, <1>7 DEF GoodList
<1>9. \A x, o : Times(g, x) = Times(f, x) /\ (Holds(g, x, o) <=> Holds(f, x, o))
  BY <1>1, <1>4, <1>5, RemarkedList
<1>10. SetMark(u, i, TRUE) = g
  BY DEF SetMark, g, t
<1> QED
  BY <1>8, <1>9, <1>10 DEF u, Leads

-----------------------------------------------------------------------------
\* The tables, as the steps of one call hand them on.
InfoType == [chashkey : Seq(Letters), c2vmaps : Seq(TupleType)]

ListIn(s, i) == s.map[i].c2vmaps
KeyIn(s, i) == s.map[i].chashkey

AreTables(s) ==
  /\ s = [map |-> s.map, tab |-> s.tab, reusable |-> s.reusable, num |-> s.num]
  /\ DOMAIN s.map \subseteq Nat /\ s.map \in [DOMAIN s.map -> InfoType]
  /\ s.tab \in [DOMAIN s.tab -> Nat]
  /\ s.reusable \in Seq(Nat) /\ s.num \in Nat

ListsGood(s) == \A i \in DOMAIN s.map : GoodList(ListIn(s, i))

KeysFound(s) ==
  /\ \A i \in DOMAIN s.map : KeyIn(s, i) \in DOMAIN s.tab /\ s.tab[KeyIn(s, i)] = i
  /\ \A k \in DOMAIN s.tab : s.tab[k] \in DOMAIN s.map /\ KeyIn(s, s.tab[k]) = k

NumsAccounted(s) ==
  /\ 2 <= s.num
  /\ DOMAIN s.map \cup ToSet(s.reusable) = 3..s.num
  /\ DOMAIN s.map \cap ToSet(s.reusable) = {}
  /\ IsInjective(s.reusable)

Sound(s) == AreTables(s) /\ ListsGood(s) /\ KeysFound(s) /\ NumsAccounted(s)

\* One chunk gets another list.
Relisted(s, i, g) == [s EXCEPT !.map[i].c2vmaps = g]
Relists(s, t, i, g) ==
  /\ Sound(t)
  /\ DOMAIN t.map = DOMAIN s.map /\ t.tab = s.tab
  /\ ListIn(t, i) = g
  /\ \A j \in DOMAIN s.map : KeyIn(t, j) = KeyIn(s, j)
  /\ \A j \in DOMAIN s.map : j # i => ListIn(t, j) = ListIn(s, j)

LEMMA ChangedList ==
  ASSUME NEW s, Sound(s), NEW i \in DOMAIN s.map, NEW g, GoodList(g),
         NEW t, t = Relisted(s, i, g)
  PROVE  Relists(s, t, i, g)
<1>1. AreTables(s) /\ g \in Seq(TupleType)
  BY GoodListFacts DEF Sound
<1>2. PICK e : e = [s.map[i] EXCEPT !.c2vmaps = g]
  OBVIOUS
<1>3. /\ s = [map |-> s.map, tab |-> s.tab, reusable |-> s.reusable, num |-> s.num]
      /\ DOMAIN s.map \subseteq Nat /\ s.map \in [DOMAIN s.map -> InfoType]
      /\ s.tab \in [DOMAIN s.tab -> Nat] /\ s.reusable \in Seq(Nat) /\ s.num \in Nat
  BY <1>1 DEF AreTables
<1>4. e \in InfoType /\ e.c2vmaps = g /\ e.chashkey = s.map[i].chashkey
  BY <1>1, <1>2, <1>3 DEF InfoType
<1>5. t = [s EXCEPT !.map = [s.map EXCEPT ![i] = e]]
  BY <1>2 DEF Relisted
<1>6. /\ t = [map |-> t.map, tab |-> t.tab, reusable |-> t.reusable, num |-> t.num]
      /\ t.map = [s.map EXCEPT ![i] = e]
      /\ t.tab = s.tab /\ t.reusable = s.reusable /\ t.num = s.num
  BY <1>3, <1>5
<1>7. /\ DOMAIN t.map = DOMAIN s.map
      /\ t.map \in [DOMAIN t.map -> InfoType]
      /\ t.map[i] = e
      /\ \A j \in DOMAIN s.map : j # i => t.map[j] = s.map[j]
  BY <1>3, <1>4, <1>6
<1>8. /\ ListIn(t, i) = g
      /\ \A j \in DOMAIN s.map : KeyIn(t, j) = KeyIn(s, j)
      /\ \A j \in DOMAIN s.map : j # i => ListIn(t, j) = ListIn(s, j)
  BY <1>4, <1>7 DEF ListIn, KeyIn
<1>9. AreTables(t)
  BY <1>3, <1>6, <1>7 DEF AreTables
<1>10. ListsGood(t)
  BY <1>7, <1>8 DEF Sound, ListsGood
<1>11. KeysFound(t)
  BY <1>6, <1>7, <1>8 DEF Sound, KeysFound
<1>12. NumsAccounted(t)
  BY <1>6, <1>7 DEF Sound, NumsAccounted
<1> QED
  BY <1>6, <1>7, <1>8, <1>9, <1>10, <1>11, <1>12 DEF Sound, Relists

\* A chunk that has no place any more is forgotten.
Dropped(s, i) == [s EXCEPT !.map = Only(@, DOMAIN @ \ {i}),
                           !.tab = Only(@, DOMAIN @ \ {s.map[i].chashkey}),
                           !.reusable = Append(@, i)]
Drops(s, t, i) ==
  /\ Sound(t)
  /\ DOMAIN t.map = DOMAIN s.map \ {i}
  /\ DOMAIN t.tab = DOMAIN s.tab \ {KeyIn(s, i)}
  /\ \A k \in DOMAIN t.tab : t.tab[k] = s.tab[k]
  /\ \A j \in DOMAIN t.map : KeyIn(t, j) = KeyIn(s, j) /\ ListIn(t, j) = ListIn(s, j)

LEMMA DroppedChunk ==
  ASSUME NEW s, Sound(s), NEW i \in DOMAIN s.map, NEW t, t = Dropped(s, i)
  PROVE  Drops(s, t, i)
<1>1. /\ s = [map |-> s.map, tab |-> s.tab, reusable |-> s.reusable, num |-> s.num]
      /\ DOMAIN s.map \subseteq Nat /\ s.map \in [DOMAIN s.map -> InfoType]
      /\ s.tab \in [DOMAIN s.tab -> Nat] /\ s.reusable \in Seq(Nat) /\ s.num \in Nat
  BY DEF Sound, AreTables
<1>2. PICK k : k = KeyIn(s, i)
  OBVIOUS
<1>3. PICK m, u, r : /\ m = Only(s.map, DOMAIN s.map \ {i})
                     /\ u = Only(s.tab, DOMAIN s.tab \ {k})
                     /\ r = Append(s.reusable, i)
  OBVIOUS
<1>4. t = [s EXCEPT !.map = m, !.tab = u, !.reusable = r]
  BY <1>2, <1>3 DEF KeyIn, Dropped
<1>5. /\ t = [map |-> t.map, tab |-> t.tab, reusable |-> t.reusable, num |-> t.num]
      /\ t.map = m /\ t.tab = u /\ t.reusable = r /\ t.num = s.num
  BY <1>1, <1>4
<1>6. /\ DOMAIN m = DOMAIN s.map \ {i} /\ \A j \in DOMAIN m : m[j] = s.map[j]
      /\ m \in [DOMAIN m -> InfoType]
      /\ DOMAIN u = DOMAIN s.tab \ {k} /\ \A l \in DOMAIN u : u[l] = s.tab[l]
      /\ u \in [DOMAIN u -> Nat]
  BY <1>1, <1>3 DEF Only
<1>7. /\ i \in Nat /\ r \in Seq(Nat)
      /\ ToSet(r) = ToSet(s.reusable) \cup {i} /\ IsInjective(r)
  <2>1. i \in Nat
    BY <1>1
  <2>2. i \notin ToSet(s.reusable) /\ IsInjective(s.reusable)
    BY DEF Sound, NumsAccounted
  <2>3. r \in Seq(Nat)
    BY <1>1, <1>3, <2>1, AppendProperties
  <2> QED
    BY <1>1, <1>3, <2>1, <2>2, <2>3, AppendedSet
<1>8. \A j \in DOMAIN t.map : KeyIn(t, j) = KeyIn(s, j) /\ ListIn(t, j) = ListIn(s, j)
  BY <1>5, <1>6 DEF KeyIn, ListIn
<1>9. AreTables(t)
  BY <1>1, <1>5, <1>6, <1>7 DEF AreTables
<1>10. ListsGood(t)
  BY <1>5, <1>6, <1>8 DEF Sound, ListsGood
<1>11. KeysFound(t)
  <2>1. ASSUME NEW j \in DOMAIN t.map
        PROVE  KeyIn(t, j) \in DOMAIN t.tab /\ t.tab[KeyIn(t, j)] = j
    <3>1. j \in DOMAIN s.map /\ j # i /\ KeyIn(t, j) = KeyIn(s, j)
      BY <1>5, <1>6, <1>8
    <3>2. /\ KeyIn(s, j) \in DOMAIN s.tab /\ s.tab[KeyIn(s, j)] = j
          /\ s.tab[k] = i
      BY <1>2, <3>1 DEF Sound, KeysFound
    <3> QED
      BY <1>5, <1>6, <3>1, <3>2
  <2>2. ASSUME NEW l \in DOMAIN t.tab
        PROVE  t.tab[l] \in DOMAIN t.map /\ KeyIn(t, t.tab[l]) = l
    <3>1. l \in DOMAIN s.tab /\ l # k /\ t.tab[l] = s.tab[l]
      BY <1>5, <1>6
    <3>2. s.tab[l] \in DOMAIN s.map /\ KeyIn(s, s.tab[l]) = l
      BY <3>1 DEF Sound, KeysFound
    <3>3. PICK j : j = s.tab[l]
      OBVIOUS
    <3>4. j \in DOMAIN s.map /\ j # i /\ KeyIn(s, j) = l
      BY <1>2, <3>1, <3>2, <3>3
    <3>5. j \in DOMAIN t.map
      BY <1>5, <1>6, <3>4
    <3> QED
      BY <1>8, <3>1, <3>3, <3>4, <3>5
  <2> QED
    BY <2>1, <2>2 DEF KeysFound
<1>12. NumsAccounted(t)
  <2>1. /\ 2 <= s.num
        /\ DOMAIN s.map \cup ToSet(s.reusable) = 3..s.num
        /\ DOMAIN s.map \cap ToSet(s.reusable) = {}
    BY DEF Sound, NumsAccounted
  <2>2. /\ DOMAIN t.map = DOMAIN s.map \ {i} /\ t.num = s.num
        /\ ToSet(t.reusable) = ToSet(s.reusable) \cup {i} /\ IsInjective(t.reusable)
    BY <1>5, <1>6, <1>7
  <2>3. /\ DOMAIN t.map \cup ToSet(t.reusable) = DOMAIN s.map \cup ToSet(s.reusable)
        /\ DOMAIN t.map \cap ToSet(t.reusable) = {}
    BY <2>1, <2>2
  <2> QED
    BY <2>1, <2>2, <2>3, Zenon DEF NumsAccounted
<1> QED
  BY <1>2, <1>5, <1>6, <1>8, <1>9, <1>10, <1>11, <1>12 DEF Sound, Drops

\* A chunk comes under a number that none has, or that none has any more.
LEMMA NumberTaken ==
  ASSUME NEW s, Sound(s)
  PROVE  LET u == TakeChunkNum(s)
             i == NextChunkNum(s)
         IN  /\ i \in Nat /\ i \notin DOMAIN s.map
             /\ u = [map |-> s.map, tab |-> s.tab, reusable |-> u.reusable, num |-> u.num]
             /\ u.reusable \in Seq(Nat) /\ u.num \in Nat /\ 2 <= u.num
             /\ IsInjective(u.reusable)
             /\ i \notin ToSet(u.reusable) /\ ToSet(u.reusable) \subseteq ToSet(s.reusable)
             /\ DOMAIN s.map \cup {i} \cup ToSet(u.reusable) = 3..u.num
<1> DEFINE u == TakeChunkNum(s)
           i == NextChunkNum(s)
<1>1. /\ s = [map |-> s.map, tab |-> s.tab, reusable |-> s.reusable, num |-> s.num]
      /\ DOMAIN s.map \subseteq Nat /\ s.reusable \in Seq(Nat) /\ s.num \in Nat
  BY DEF Sound, AreTables
<1>2. /\ 2 <= s.num
      /\ DOMAIN s.map \cup ToSet(s.reusable) = 3..s.num
      /\ DOMAIN s.map \cap ToSet(s.reusable) = {}
      /\ IsInjective(s.reusable)
  BY DEF Sound, NumsAccounted
<1>3. CASE s.reusable = <<>>
  <2>1. i = s.num + 1 /\ u = [s EXCEPT !.num = s.num + 1]
    BY <1>3 DEF NextChunkNum, TakeChunkNum
  <2>2. /\ u = [map |-> s.map, tab |-> s.tab, reusable |-> u.reusable, num |-> u.num]
        /\ u.reusable = s.reusable /\ u.num = s.num + 1
    BY <1>1, <2>1
  <2>3. i \notin 3..s.num /\ i \in Nat /\ (3..s.num) \cup {i} = 3..(s.num + 1)
    BY <1>1, <1>2, <2>1
  <2>4. s.num + 1 \in Nat /\ 2 <= s.num + 1
    BY <1>1, <1>2
  <2> QED
    BY <1>1, <1>2, <2>2, <2>3, <2>4
<1>4. CASE s.reusable # <<>>
  <2>1. i = Head(s.reusable) /\ u = [s EXCEPT !.reusable = Tail(s.reusable)]
    BY <1>4 DEF NextChunkNum, TakeChunkNum
  <2>2. /\ u = [map |-> s.map, tab |-> s.tab, reusable |-> u.reusable, num |-> u.num]
        /\ u.reusable = Tail(s.reusable) /\ u.num = s.num
    BY <1>1, <2>1
  <2>3. /\ ToSet(u.reusable) = ToSet(s.reusable) \ {i} /\ i \in ToSet(s.reusable)
        /\ IsInjective(u.reusable) /\ u.reusable \in Seq(Nat)
    BY <1>1, <1>2, <1>4, <2>1, <2>2, TailSet, HeadTailProperties
  <2>4. i \in 3..s.num /\ i \notin DOMAIN s.map
    BY <1>2, <2>3
  <2> QED
    BY <1>1, <1>2, <2>2, <2>3, <2>4
<1> QED
  BY <1>3, <1>4

Added(s, key, g) ==
  [TakeChunkNum(s) EXCEPT
     !.map = With(@, NextChunkNum(s), [chashkey |-> key, c2vmaps |-> g]),
     !.tab = With(@, key, NextChunkNum(s))]
Adds(s, t, i, key, g) ==
  /\ Sound(t)
  /\ i \notin DOMAIN s.map /\ DOMAIN t.map = DOMAIN s.map \cup {i}
  /\ DOMAIN t.tab = DOMAIN s.tab \cup {key}
  /\ t.tab[key] = i /\ KeyIn(t, i) = key /\ ListIn(t, i) = g
  /\ \A k \in DOMAIN s.tab : t.tab[k] = s.tab[k]
  /\ \A j \in DOMAIN s.map : KeyIn(t, j) = KeyIn(s, j) /\ ListIn(t, j) = ListIn(s, j)

LEMMA AddedChunk ==
  ASSUME NEW s, Sound(s), NEW key \in Seq(Letters), key \notin DOMAIN s.tab,
         NEW g, GoodList(g), NEW t, t = Added(s, key, g)
  PROVE  Adds(s, t, NextChunkNum(s), key, g)
<1>1. PICK i, u : i = NextChunkNum(s) /\ u = TakeChunkNum(s)
  OBVIOUS
<1>2. /\ i \in Nat /\ i \notin DOMAIN s.map
      /\ u = [map |-> s.map, tab |-> s.tab, reusable |-> u.reusable, num |-> u.num]
      /\ u.reusable \in Seq(Nat) /\ u.num \in Nat /\ 2 <= u.num
      /\ IsInjective(u.reusable)
      /\ i \notin ToSet(u.reusable) /\ ToSet(u.reusable) \subseteq ToSet(s.reusable)
      /\ DOMAIN s.map \cup {i} \cup ToSet(u.reusable) = 3..u.num
  BY <1>1, NumberTaken
<1>3. /\ DOMAIN s.map \subseteq Nat /\ s.map \in [DOMAIN s.map -> InfoType]
      /\ s.tab \in [DOMAIN s.tab -> Nat]
      /\ DOMAIN s.map \cap ToSet(s.reusable) = {}
  BY DEF Sound, AreTables, NumsAccounted
<1>4. PICK e : e = [chashkey |-> key, c2vmaps |-> g]
  OBVIOUS
<1>5. e.chashkey = key /\ e.c2vmaps = g /\ e \in InfoType
  <2>1. g \in Seq(TupleType)
    BY GoodListFacts
  <2> QED
    BY <1>4, <2>1 DEF InfoType
<1>6. PICK m, v : m = With(s.map, i, e) /\ v = With(s.tab, key, i)
  OBVIOUS
<1>7. u.map = s.map /\ u.tab = s.tab
  BY <1>2
<1>8. t = [u EXCEPT !.map = m, !.tab = v]
  BY <1>1, <1>4, <1>6, <1>7 DEF Added
<1>9. /\ t = [map |-> t.map, tab |-> t.tab, reusable |-> t.reusable, num |-> t.num]
      /\ t.map = m /\ t.tab = v /\ t.reusable = u.reusable /\ t.num = u.num
  BY <1>2, <1>8
<1>10. /\ DOMAIN m = DOMAIN s.map \cup {i} /\ m[i] = e
       /\ \A j \in DOMAIN s.map : m[j] = s.map[j]
       /\ m \in [DOMAIN m -> InfoType]
  BY <1>2, <1>3, <1>5, <1>6 DEF With
<1>11. /\ DOMAIN v = DOMAIN s.tab \cup {key} /\ v[key] = i
       /\ \A k \in DOMAIN s.tab : v[k] = s.tab[k]
       /\ v \in [DOMAIN v -> Nat]
  BY <1>2, <1>3, <1>6 DEF With
<1>12. /\ KeyIn(t, i) = key /\ ListIn(t, i) = g
       /\ \A j \in DOMAIN s.map : KeyIn(t, j) = KeyIn(s, j) /\ ListIn(t, j) = ListIn(s, j)
  BY <1>5, <1>9, <1>10 DEF KeyIn, ListIn
<1>13. AreTables(t)
  BY <1>2, <1>3, <1>9, <1>10, <1>11 DEF AreTables
<1>14. ListsGood(t)
  BY <1>9, <1>10, <1>12 DEF Sound, ListsGood
<1>15. KeysFound(t)
  <2>1. ASSUME NEW j \in DOMAIN t.map
        PROVE  KeyIn(t, j) \in DOMAIN t.tab /\ t.tab[KeyIn(t, j)] = j
    <3>1. CASE j = i
      BY <1>9, <1>11, <1>12, <3>1
    <3>2. CASE j # i
      <4>1. j \in DOMAIN s.map /\ KeyIn(t, j) = KeyIn(s, j)
        BY <1>9, <1>10, <1>12, <3>2
      <4>2. KeyIn(s, j) \in DOMAIN s.tab /\ s.tab[KeyIn(s, j)] = j
        BY <4>1 DEF Sound, KeysFound
      <4> QED
        BY <1>9, <1>11, <4>1, <4>2
    <3> QED
      BY <3>1, <3>2
  <2>2. ASSUME NEW k \in DOMAIN t.tab
        PROVE  t.tab[k] \in DOMAIN t.map /\ KeyIn(t, t.tab[k]) = k
    <3>1. CASE k = key
      BY <1>9, <1>10, <1>11, <1>12, <3>1
    <3>2. CASE k # key
      <4>1. k \in DOMAIN s.tab /\ t.tab[k] = s.tab[k]
        BY <1>9, <1>11, <3>2
      <4>2. s.tab[k] \in DOMAIN s.map /\ KeyIn(s, s.tab[k]) = k
        BY <4>1 DEF Sound, KeysFound
      <4> QED
        BY <1>9, <1>10, <1>12, <4>1, <4>2
    <3> QED
      BY <3>1, <3>2
  <2> QED
    BY <2>1, <2>2 DEF KeysFound
<1>16. NumsAccounted(t)
  BY <1>2, <1>3, <1>9, <1>10 DEF NumsAccounted
<1> QED
  BY <1>1, <1>2, <1>9, <1>10, <1>11, <1>12, <1>13, <1>14, <1>15, <1>16 DEF Sound, Adds

-----------------------------------------------------------------------------
\* The tables fit chunks K[x] of the blocks x, of which those numbered J[x]
\* are mapped: a chunk has as many places in a block as the block has it, and
\* they are where the block has it.  While the chunks of a block are taken out
\* one by one, which of its places is left is not known: W are the blocks of
\* which it is.
ChunkType == [offset : 0..BlockSize - 1, key : Seq(Letters)]
Spots(C, N, key) == {j \in N : C[j].key = key}

Cutting(K, J) ==
  /\ \A x \in Blocks : K[x] \in Seq(ChunkType)
  /\ J \in [Blocks -> SUBSET Nat]
  /\ \A x \in Blocks : J[x] \subseteq DOMAIN K[x]

TimesRight(s, K, J) ==
  \A i \in DOMAIN s.map : \A x \in Blocks :
    Times(ListIn(s, i), x) = Cardinality(Spots(K[x], J[x], KeyIn(s, i)))
KeysKnown(s, K, J) == \A x \in Blocks : \A j \in J[x] : K[x][j].key \in DOMAIN s.tab
PlacesRight(s, K) ==
  \A i \in DOMAIN s.map : \A x \in Blocks : \A o : Holds(ListIn(s, i), x, o) =>
    \E j \in DOMAIN K[x] : K[x][j].key = KeyIn(s, i) /\ K[x][j].offset = o
PlacesFound(s, K, J, W) ==
  \A x \in W : \A j \in J[x] :
    Holds(ListIn(s, s.tab[K[x][j].key]), x, K[x][j].offset)

Fits(s, K, J, W) ==
  /\ Sound(s) /\ Cutting(K, J) /\ W \subseteq Blocks
  /\ TimesRight(s, K, J) /\ KeysKnown(s, K, J) /\ PlacesRight(s, K)
  /\ PlacesFound(s, K, J, W)

LEMMA SpotsFinite ==
  ASSUME NEW K, NEW J, Cutting(K, J), NEW x \in Blocks, NEW key
  PROVE  /\ IsFiniteSet(J[x]) /\ IsFiniteSet(Spots(K[x], J[x], key))
         /\ Cardinality(Spots(K[x], J[x], key)) \in Nat
<1>1. DOMAIN K[x] = 1..Len(K[x]) /\ Len(K[x]) \in Nat
  BY LenProperties DEF Cutting
<1>2. IsFiniteSet(DOMAIN K[x])
  BY <1>1, FS_Interval
<1>3. J[x] \in SUBSET DOMAIN K[x]
  BY DEF Cutting
<1>4. IsFiniteSet(J[x])
  BY <1>2, <1>3, FS_Subset
<1>5. Spots(K[x], J[x], key) \in SUBSET J[x]
  BY DEF Spots
<1>6. IsFiniteSet(Spots(K[x], J[x], key))
  BY <1>4, <1>5, FS_Subset
<1> QED
  BY <1>4, <1>6, FS_CardinalityType

LEMMA OneSpotLess ==
  ASSUME NEW C, NEW N, IsFiniteSet(N), NEW n \in N, NEW key
  PROVE  Cardinality(Spots(C, N, key)) =
           Cardinality(Spots(C, N \ {n}, key)) + IF C[n].key = key THEN 1 ELSE 0
<1> DEFINE S == Spots(C, N \ {n}, key)
<1>1. IsFiniteSet(S) /\ Cardinality(S) \in Nat
  <2>1. S \in SUBSET N
    BY DEF Spots
  <2>2. IsFiniteSet(S)
    BY <2>1, FS_Subset
  <2> QED
    BY <2>2, FS_CardinalityType
<1>2. CASE C[n].key = key
  <2>1. Spots(C, N, key) = S \cup {n} /\ n \notin S
    BY <1>2 DEF Spots
  <2> QED
    BY <1>1, <1>2, <2>1, FS_AddElement
<1>3. CASE C[n].key # key
  <2>1. Spots(C, N, key) = S
    BY <1>3 DEF Spots
  <2> QED
    BY <1>1, <1>3, <2>1
<1> QED
  BY <1>2, <1>3

\* Chunk n of block b, whose number is i, is mapped in J and not in L.
Apart(s, K, J, L, b, n, i) ==
  \A j \in DOMAIN s.map : \A x \in Blocks :
    Cardinality(Spots(K[x], J[x], KeyIn(s, j))) =
      Cardinality(Spots(K[x], L[x], KeyIn(s, j))) + IF x = b /\ j = i THEN 1 ELSE 0

LEMMA SpotApart ==
  ASSUME NEW s, Sound(s), NEW K, NEW J, Cutting(K, J), NEW b \in Blocks, NEW n \in J[b],
         NEW i \in DOMAIN s.map, KeyIn(s, i) = K[b][n].key,
         NEW L, L = [J EXCEPT ![b] = J[b] \ {n}]
  PROVE  Cutting(K, L) /\ Apart(s, K, J, L, b, n, i)
<1>1. /\ J \in [Blocks -> SUBSET Nat] /\ L \in [Blocks -> SUBSET Nat]
      /\ L[b] = J[b] \ {n} /\ \A x \in Blocks : x # b => L[x] = J[x]
  BY DEF Cutting
<1>2. Cutting(K, L)
  BY <1>1 DEF Cutting
<1>3. ASSUME NEW j \in DOMAIN s.map, NEW x \in Blocks
      PROVE  Cardinality(Spots(K[x], J[x], KeyIn(s, j))) =
               Cardinality(Spots(K[x], L[x], KeyIn(s, j))) + IF x = b /\ j = i THEN 1 ELSE 0
  <2>1. KeyIn(s, j) = KeyIn(s, i) <=> j = i
    BY DEF Sound, KeysFound
  <2>2. PICK m \in Nat : m = Cardinality(Spots(K[x], L[x], KeyIn(s, j)))
    BY <1>2, SpotsFinite
  <2>3. CASE x = b
    <3>1. IsFiniteSet(J[b])
      BY SpotsFinite
    <3>2. Cardinality(Spots(K[b], J[b], KeyIn(s, j))) =
            Cardinality(Spots(K[b], J[b] \ {n}, KeyIn(s, j)))
              + IF K[b][n].key = KeyIn(s, j) THEN 1 ELSE 0
      <4>1. PICK C, N, k : C = K[b] /\ N = J[b] /\ k = KeyIn(s, j)
        OBVIOUS
      <4>2. IsFiniteSet(N) /\ n \in N
        BY <3>1, <4>1
      <4>3. Cardinality(Spots(C, N, k)) =
              Cardinality(Spots(C, N \ {n}, k)) + IF C[n].key = k THEN 1 ELSE 0
        BY <4>2, OneSpotLess
      <4> QED
        BY <4>1, <4>3
    <3>3. m = Cardinality(Spots(K[b], J[b] \ {n}, KeyIn(s, j)))
      <4>1. L[x] = J[b] \ {n} /\ K[x] = K[b]
        BY <1>1, <2>3
      <4> QED
        BY <2>2, <4>1, Zenon
    <3>4. K[b][n].key = KeyIn(s, j) <=> j = i
      BY <2>1
    <3>5. Cardinality(Spots(K[b], J[b], KeyIn(s, j))) = m + IF j = i THEN 1 ELSE 0
      BY <3>2, <3>3, <3>4, Zenon
    <3> QED
      BY <2>2, <2>3, <3>5
  <2>4. CASE x # b
    BY <1>1, <2>2, <2>4
  <2> QED
    BY <2>3, <2>4
<1> QED
  BY <1>2, <1>3 DEF Apart

\* Of the tables that a step leaves, the keys have the numbers they had.
Keeps(s, t) == \A k \in DOMAIN t.tab : k \in DOMAIN s.tab /\ t.tab[k] = s.tab[k]

\* What a block has of a chunk is in the chunk's list.
LEMMA HasPlace ==
  ASSUME NEW s, NEW K, NEW J, NEW W, Fits(s, K, J, W), NEW b \in Blocks, NEW n \in J[b]
  PROVE  LET i == s.tab[K[b][n].key]
         IN  /\ i \in DOMAIN s.map /\ KeyIn(s, i) = K[b][n].key
             /\ PlacesOf(ListIn(s, i), b) # {}
<1> DEFINE i == s.tab[K[b][n].key]
<1>1. i \in DOMAIN s.map /\ KeyIn(s, i) = K[b][n].key
  BY DEF Fits, KeysKnown, Sound, KeysFound
<1>2. n \in Spots(K[b], J[b], KeyIn(s, i))
  BY <1>1 DEF Spots
<1>3. /\ IsFiniteSet(Spots(K[b], J[b], KeyIn(s, i)))
      /\ Times(ListIn(s, i), b) = Cardinality(Spots(K[b], J[b], KeyIn(s, i)))
  BY <1>1, SpotsFinite DEF Fits, TimesRight
<1>4. Times(ListIn(s, i), b) # 0
  BY <1>2, <1>3, FS_EmptySet
<1>5. Times(ListIn(s, i), b) = 0 <=> PlacesOf(ListIn(s, i), b) = {}
  <2>1. GoodList(ListIn(s, i))
    BY <1>1 DEF Fits, Sound, ListsGood
  <2>2. IsFiniteSet(PlacesOf(ListIn(s, i), b))
    BY <2>1, PlacesFinite DEF GoodList
  <2> QED
    BY <2>2, FS_EmptySet DEF Times
<1> QED
  BY <1>1, <1>4, <1>5

\* A chunk of a block is recycled, which is known by its number alone.
LEMMA RecycleStep ==
  ASSUME NEW s, NEW K, NEW J, NEW W, Fits(s, K, J, W),
         NEW b \in Blocks, b \notin W, NEW n \in J[b],
         NEW i, i = s.tab[K[b][n].key],
         NEW L, L = [J EXCEPT ![b] = J[b] \ {n}],
         NEW t, t = RecycleChunkID(s, i, b)
  PROVE  Fits(t, K, L, W) /\ Keeps(s, t)
<1>1. /\ i \in DOMAIN s.map /\ KeyIn(s, i) = K[b][n].key
      /\ PlacesOf(ListIn(s, i), b) # {}
  BY HasPlace
<1>2. PICK f : f = ListIn(s, i) /\ GoodList(f) /\ PlacesOf(f, b) # {}
  BY <1>1 DEF Fits, Sound, ListsGood
<1>3. Sound(s) /\ Cutting(K, J) /\ W \subseteq Blocks
  BY DEF Fits
<1>4. Cutting(K, L) /\ Apart(s, K, J, L, b, n, i)
  BY <1>1, <1>3, SpotApart
<1>5. /\ \A x \in Blocks : L[x] \subseteq J[x]
      /\ \A x \in W : L[x] = J[x]
  BY <1>3 DEF Cutting
<1>6. ASSUME NEW j \in DOMAIN s.map, NEW x \in Blocks
      PROVE  Times(ListIn(s, j), x) =
               Cardinality(Spots(K[x], L[x], KeyIn(s, j))) + IF x = b /\ j = i THEN 1 ELSE 0
  BY <1>4 DEF Fits, TimesRight, Apart
<1>7. \A x \in Blocks : \A k : Cardinality(Spots(K[x], L[x], k)) \in Nat
  BY <1>4, SpotsFinite
<1>8. CASE Len(f) > 1
  <2>1. PICK g : g = DelC2V(f, b)
    OBVIOUS
  <2>2. /\ GoodList(g)
        /\ \A x : Times(f, x) = Times(g, x) + IF x = b THEN 1 ELSE 0
        /\ \A x, q : Holds(g, x, q) => Holds(f, x, q)
        /\ \A x, q : Holds(f, x, q) /\ x # b => Holds(g, x, q)
    <3>1. Leaves(f, g, b)
      BY <1>2, <1>8, <2>1, LeftList
    <3> QED
      BY <3>1 DEF Leaves
  <2>3. t = Relisted(s, i, g)
    BY <1>2, <1>8, <2>1 DEF RecycleChunkID, ListIn, Relisted
  <2>4. /\ Sound(t)
        /\ DOMAIN t.map = DOMAIN s.map /\ t.tab = s.tab
        /\ ListIn(t, i) = g
        /\ \A j \in DOMAIN s.map : KeyIn(t, j) = KeyIn(s, j)
        /\ \A j \in DOMAIN s.map : j # i => ListIn(t, j) = ListIn(s, j)
    <3>1. Relists(s, t, i, g)
      BY <1>1, <1>3, <2>2, <2>3, ChangedList
    <3> QED
      BY <3>1 DEF Relists
  <2>5. TimesRight(t, K, L)
    <3> SUFFICES ASSUME NEW j \in DOMAIN t.map, NEW x \in Blocks
                 PROVE  Times(ListIn(t, j), x) = Cardinality(Spots(K[x], L[x], KeyIn(t, j)))
      BY DEF TimesRight
    <3>1. j \in DOMAIN s.map /\ KeyIn(t, j) = KeyIn(s, j)
      BY <2>4
    <3>2. PICK m \in Nat : m = Cardinality(Spots(K[x], L[x], KeyIn(s, j)))
      BY <1>7
    <3>3. Times(ListIn(s, j), x) = m + IF x = b /\ j = i THEN 1 ELSE 0
      BY <1>6, <3>1, <3>2
    <3>4. CASE j = i
      <4>1. Times(f, x) = Times(g, x) + IF x = b THEN 1 ELSE 0
        BY <2>2
      <4>2. Times(g, x) \in Nat
        BY <2>2, PlacesFinite DEF GoodList
      <4>3. m = Times(g, x)
        <5>1. PICK a \in Nat : a = IF x = b THEN 1 ELSE 0
          OBVIOUS
        <5>2. PICK d \in Nat : d = Times(g, x)
          BY <4>2
        <5>3. Times(f, x) = d + a
          BY <4>1, <5>1, <5>2
        <5>4. Times(f, x) = m + a
          BY <1>2, <3>3, <3>4, <5>1
        <5> QED
          BY <5>2, <5>3, <5>4
      <4>4. ListIn(t, j) = g
        BY <2>4, <3>4
      <4> QED
        BY <3>1, <3>2, <4>3, <4>4
    <3>5. CASE j # i
      <4>1. Times(ListIn(s, j), x) = m
        <5>1. m + (IF x = b /\ j = i THEN 1 ELSE 0) = m
          BY <3>5
        <5> QED
          BY <3>3, <5>1
      <4>2. ListIn(t, j) = ListIn(s, j)
        BY <2>4, <3>1, <3>5
      <4> QED
        BY <3>1, <3>2, <4>1, <4>2, Zenon
    <3> QED
      BY <3>4, <3>5
  <2>6. KeysKnown(t, K, L)
    BY <1>5, <2>4 DEF Fits, KeysKnown
  <2>7. PlacesRight(t, K)
    <3> SUFFICES ASSUME NEW j \in DOMAIN t.map, NEW x \in Blocks, NEW o,
                        Holds(ListIn(t, j), x, o)
                 PROVE  \E m \in DOMAIN K[x] : K[x][m].key = KeyIn(t, j) /\ K[x][m].offset = o
      BY DEF PlacesRight
    <3>1. j \in DOMAIN s.map /\ KeyIn(t, j) = KeyIn(s, j) /\ Holds(ListIn(s, j), x, o)
      BY <1>2, <2>2, <2>4
    <3>2. PlacesRight(s, K)
      BY DEF Fits
    <3> QED
      BY <3>1, <3>2 DEF PlacesRight
  <2>8. PlacesFound(t, K, L, W)
    <3> SUFFICES ASSUME NEW x \in W, NEW j \in L[x]
                 PROVE  Holds(ListIn(t, t.tab[K[x][j].key]), x, K[x][j].offset)
      BY DEF PlacesFound
    <3>1. PICK l : l = s.tab[K[x][j].key] /\ l = t.tab[K[x][j].key]
      BY <2>4
    <3>2. x \in Blocks /\ x # b /\ j \in J[x]
      BY <1>3, <1>5
    <3>3. l \in DOMAIN s.map /\ Holds(ListIn(s, l), x, K[x][j].offset)
      BY <3>1, <3>2 DEF Fits, PlacesFound, KeysKnown, Sound, KeysFound
    <3>4. CASE l = i
      BY <1>2, <2>2, <2>4, <3>1, <3>2, <3>3, <3>4
    <3>5. CASE l # i
      BY <2>4, <3>1, <3>3, <3>5
    <3> QED
      BY <3>4, <3>5
  <2>9. Keeps(s, t)
    BY <2>4 DEF Keeps
  <2> QED
    BY <1>3, <1>4, <2>4, <2>5, <2>6, <2>7, <2>8, <2>9 DEF Fits
<1>9. CASE ~(Len(f) > 1)
  <2>1. t = Dropped(s, i)
    BY <1>2, <1>9 DEF RecycleChunkID, ListIn, Dropped
  <2>2. /\ Sound(t)
        /\ DOMAIN t.map = DOMAIN s.map \ {i}
        /\ DOMAIN t.tab = DOMAIN s.tab \ {KeyIn(s, i)}
        /\ \A k \in DOMAIN t.tab : t.tab[k] = s.tab[k]
        /\ \A j \in DOMAIN t.map : KeyIn(t, j) = KeyIn(s, j) /\ ListIn(t, j) = ListIn(s, j)
    <3>1. Drops(s, t, i)
      BY <1>1, <1>3, <2>1, DroppedChunk
    <3> QED
      BY <3>1 DEF Drops
  <2>3. ASSUME NEW x \in Blocks, NEW j \in L[x]
        PROVE  K[x][j].key # KeyIn(s, i)
    <3>1. Times(f, x) = IF x = b THEN 1 ELSE 0
      BY <1>2, <1>9, LastList
    <3>2. PICK m \in Nat : m = Cardinality(Spots(K[x], L[x], KeyIn(s, i)))
      BY <1>7
    <3>3. Times(f, x) = m + IF x = b THEN 1 ELSE 0
      BY <1>1, <1>2, <1>6, <3>2
    <3>4. m = 0
      BY <3>1, <3>3
    <3>5. IsFiniteSet(Spots(K[x], L[x], KeyIn(s, i)))
      BY <1>4, SpotsFinite
    <3>6. Spots(K[x], L[x], KeyIn(s, i)) = {}
      BY <3>2, <3>4, <3>5, FS_EmptySet
    <3> QED
      BY <3>6 DEF Spots
  <2>4. TimesRight(t, K, L)
    <3> SUFFICES ASSUME NEW j \in DOMAIN t.map, NEW x \in Blocks
                 PROVE  Times(ListIn(t, j), x) = Cardinality(Spots(K[x], L[x], KeyIn(t, j)))
      BY DEF TimesRight
    <3>1. j \in DOMAIN s.map /\ j # i /\ KeyIn(t, j) = KeyIn(s, j) /\ ListIn(t, j) = ListIn(s, j)
      BY <2>2
    <3>2. PICK m \in Nat : m = Cardinality(Spots(K[x], L[x], KeyIn(s, j)))
      BY <1>7
    <3>3. Times(ListIn(s, j), x) = m
      <4>1. Times(ListIn(s, j), x) = m + IF x = b /\ j = i THEN 1 ELSE 0
        BY <1>6, <3>1, <3>2
      <4>2. m + 0 = m
        OBVIOUS
      <4> QED
        BY <3>1, <4>1, <4>2, Zenon
    <3> QED
      BY <3>1, <3>2, <3>3, Zenon
  <2>5. KeysKnown(t, K, L)
    <3>1. \A x \in Blocks : \A j \in L[x] : K[x][j].key \in DOMAIN s.tab
      BY <1>5 DEF Fits, KeysKnown
    <3> QED
      BY <2>2, <2>3, <3>1 DEF KeysKnown
  <2>6. PlacesRight(t, K)
    <3> SUFFICES ASSUME NEW j \in DOMAIN t.map, NEW x \in Blocks, NEW o,
                        Holds(ListIn(t, j), x, o)
                 PROVE  \E m \in DOMAIN K[x] : K[x][m].key = KeyIn(t, j) /\ K[x][m].offset = o
      BY DEF PlacesRight
    <3>1. j \in DOMAIN s.map /\ KeyIn(t, j) = KeyIn(s, j) /\ Holds(ListIn(s, j), x, o)
      BY <2>2
    <3>2. PlacesRight(s, K)
      BY DEF Fits
    <3> QED
      BY <3>1, <3>2 DEF PlacesRight
  <2>7. PlacesFound(t, K, L, W)
    <3> SUFFICES ASSUME NEW x \in W, NEW j \in L[x]
                 PROVE  Holds(ListIn(t, t.tab[K[x][j].key]), x, K[x][j].offset)
      BY DEF PlacesFound
    <3>1. PICK l : l = s.tab[K[x][j].key]
      OBVIOUS
    <3>2. x \in Blocks /\ j \in J[x]
      BY <1>3, <1>5
    <3>3. /\ K[x][j].key \in DOMAIN s.tab /\ l \in DOMAIN s.map /\ KeyIn(s, l) = K[x][j].key
          /\ Holds(ListIn(s, l), x, K[x][j].offset)
      BY <3>1, <3>2 DEF Fits, PlacesFound, KeysKnown, Sound, KeysFound
    <3>4. K[x][j].key # KeyIn(s, i)
      BY <2>3, <3>2
    <3>5. l \in DOMAIN t.map /\ t.tab[K[x][j].key] = l
      BY <2>2, <3>1, <3>3, <3>4
    <3> QED
      BY <2>2, <3>3, <3>5
  <2>8. Keeps(s, t)
    BY <2>2 DEF Keeps
  <2> QED
    BY <1>3, <1>4, <2>2, <2>4, <2>5, <2>6, <2>7, <2>8 DEF Fits
<1> QED
  BY <1>8, <1>9

\* A chunk of a block is processed, known or not.
LEMMA ProcessStep ==
  ASSUME NEW s, NEW K, NEW J, NEW W, Fits(s, K, J, W),
         NEW b \in Blocks, NEW n \in DOMAIN K[b], n \notin J[b],
         NEW L, L = [J EXCEPT ![b] = J[b] \cup {n}],
         NEW t, t = ProcessChunk(s, K[b][n], b)
  PROVE  Fits(t, K, L, W) /\ Keeps(t, s)
<1> DEFINE key == K[b][n].key
           o == K[b][n].offset
<1>1. Sound(s) /\ Cutting(K, J) /\ W \subseteq Blocks
  BY DEF Fits
<1>2. n \in Nat /\ K[b][n] \in ChunkType /\ key \in Seq(Letters) /\ o \in 0..BlockSize - 1
  <2>1. K[b] \in Seq(ChunkType)
    BY <1>1 DEF Cutting
  <2>2. n \in 1..Len(K[b]) /\ Len(K[b]) \in Nat /\ K[b][n] \in ChunkType
    BY <2>1, LenProperties, ElementOfSeq
  <2> QED
    BY <2>2 DEF ChunkType
<1>3. /\ J \in [Blocks -> SUBSET Nat] /\ L \in [Blocks -> SUBSET Nat]
      /\ L[b] = J[b] \cup {n} /\ \A x \in Blocks : x # b => L[x] = J[x]
  BY <1>1, <1>2 DEF Cutting
<1>4. Cutting(K, L) /\ n \in L[b] /\ J = [L EXCEPT ![b] = L[b] \ {n}]
  <2>1. Cutting(K, L)
    BY <1>1, <1>3 DEF Cutting
  <2>2. L[b] \ {n} = J[b]
    BY <1>3
  <2>3. J = [L EXCEPT ![b] = L[b] \ {n}]
    BY <1>3, <2>2
  <2> QED
    BY <1>3, <2>1, <2>3
<1>5. \A x \in Blocks : \A k : Cardinality(Spots(K[x], J[x], k)) \in Nat
  BY <1>1, SpotsFinite
<1> HIDE DEF key, o
<1>6. CASE key \in DOMAIN s.tab
  <2>1. PICK i, f : i = s.tab[key] /\ f = ListIn(s, i)
    OBVIOUS
  <2>2. i \in DOMAIN s.map /\ KeyIn(s, i) = key /\ GoodList(f)
    BY <1>1, <1>6, <2>1 DEF Sound, KeysFound, ListsGood
  <2>3. PICK g : g = <<Tuple(b, o)>> \o Unmark(f)
    OBVIOUS
  <2>4. /\ GoodList(g)
        /\ \A x : Times(g, x) = Times(f, x) + IF x = b THEN 1 ELSE 0
        /\ \A x, q : Holds(g, x, q) <=> Holds(f, x, q) \/ (x = b /\ q = o)
    <3>1. Joins(f, g, b, o)
      BY <1>2, <2>2, <2>3, JoinedList
    <3> QED
      BY <3>1 DEF Joins
  <2>5. t = Relisted(s, i, g)
    BY <1>6, <2>1, <2>3 DEF ProcessChunk, Relisted, ListIn, key, o
  <2>6. /\ Sound(t)
        /\ DOMAIN t.map = DOMAIN s.map /\ t.tab = s.tab
        /\ ListIn(t, i) = g
        /\ \A j \in DOMAIN s.map : KeyIn(t, j) = KeyIn(s, j)
        /\ \A j \in DOMAIN s.map : j # i => ListIn(t, j) = ListIn(s, j)
    <3>1. Relists(s, t, i, g)
      BY <1>1, <2>2, <2>4, <2>5, ChangedList
    <3> QED
      BY <3>1 DEF Relists
  <2>7. Apart(t, K, L, J, b, n, i)
    <3>1. i \in DOMAIN t.map /\ KeyIn(t, i) = K[b][n].key
      BY <2>2, <2>6 DEF key
    <3> QED
      BY <1>4, <2>6, <3>1, SpotApart
  <2>8. TimesRight(t, K, L)
    <3> SUFFICES ASSUME NEW j \in DOMAIN t.map, NEW x \in Blocks
                 PROVE  Times(ListIn(t, j), x) = Cardinality(Spots(K[x], L[x], KeyIn(t, j)))
      BY DEF TimesRight
    <3>1. j \in DOMAIN s.map /\ KeyIn(t, j) = KeyIn(s, j)
      BY <2>6
    <3>2. PICK m \in Nat : m = Cardinality(Spots(K[x], J[x], KeyIn(s, j)))
      BY <1>5
    <3>3. Times(ListIn(s, j), x) = m
      BY <3>1, <3>2 DEF Fits, TimesRight
    <3>4. Cardinality(Spots(K[x], L[x], KeyIn(t, j))) = m + IF x = b /\ j = i THEN 1 ELSE 0
      BY <2>7, <3>1, <3>2 DEF Apart
    <3>5. CASE j = i
      <4>1. Times(g, x) = Times(f, x) + IF x = b THEN 1 ELSE 0
        BY <2>4
      <4>2. Times(f, x) = m /\ ListIn(t, j) = g
        BY <2>1, <2>6, <3>3, <3>5
      <4> QED
        BY <3>4, <3>5, <4>1, <4>2
    <3>6. CASE j # i
      <4>1. Times(ListIn(t, j), x) = m
        BY <2>6, <3>1, <3>3, <3>6
      <4>2. m + 0 = m
        OBVIOUS
      <4> QED
        BY <3>4, <3>6, <4>1, <4>2, Zenon
    <3> QED
      BY <3>5, <3>6
  <2>9. KeysKnown(t, K, L)
    <3> SUFFICES ASSUME NEW x \in Blocks, NEW j \in L[x]
                 PROVE  K[x][j].key \in DOMAIN t.tab
      BY DEF KeysKnown
    <3>1. j \in J[x] \/ (x = b /\ j = n)
      BY <1>3
    <3>2. \A l \in J[x] : K[x][l].key \in DOMAIN s.tab
      BY DEF Fits, KeysKnown
    <3> QED
      BY <1>6, <2>6, <3>1, <3>2 DEF key
  <2>10. PlacesRight(t, K)
    <3> SUFFICES ASSUME NEW j \in DOMAIN t.map, NEW x \in Blocks, NEW q,
                        Holds(ListIn(t, j), x, q)
                 PROVE  \E m \in DOMAIN K[x] : K[x][m].key = KeyIn(t, j) /\ K[x][m].offset = q
      BY DEF PlacesRight
    <3>1. j \in DOMAIN s.map /\ KeyIn(t, j) = KeyIn(s, j)
      BY <2>6
    <3>2. CASE Holds(ListIn(s, j), x, q)
      BY <3>1, <3>2 DEF Fits, PlacesRight
    <3>3. CASE ~Holds(ListIn(s, j), x, q)
      <4>1. j = i /\ x = b /\ q = o
        BY <2>1, <2>4, <2>6, <3>1, <3>3
      <4> QED
        BY <2>2, <3>1, <4>1 DEF key, o
    <3> QED
      BY <3>2, <3>3
  <2>11. PlacesFound(t, K, L, W)
    <3> SUFFICES ASSUME NEW x \in W, NEW j \in L[x]
                 PROVE  Holds(ListIn(t, t.tab[K[x][j].key]), x, K[x][j].offset)
      BY DEF PlacesFound
    <3>1. PICK l : l = s.tab[K[x][j].key] /\ l = t.tab[K[x][j].key]
      BY <2>6
    <3>2. x \in Blocks
      BY <1>1
    <3>3. CASE j \in J[x]
      <4>1. l \in DOMAIN s.map /\ Holds(ListIn(s, l), x, K[x][j].offset)
        BY <3>1, <3>2, <3>3 DEF Fits, PlacesFound, KeysKnown, Sound, KeysFound
      <4>2. CASE l = i
        BY <2>1, <2>4, <2>6, <3>1, <4>1, <4>2
      <4>3. CASE l # i
        BY <2>6, <3>1, <4>1, <4>3
      <4> QED
        BY <4>2, <4>3
    <3>4. CASE j \notin J[x]
      <4>1. x = b /\ j = n
        BY <1>3, <3>2, <3>4
      <4>2. l = i /\ K[x][j].offset = o
        BY <2>1, <3>1, <4>1 DEF key, o
      <4> QED
        BY <2>4, <2>6, <3>1, <4>1, <4>2
    <3> QED
      BY <3>3, <3>4
  <2>12. Keeps(t, s)
    BY <2>6 DEF Keeps
  <2> QED
    BY <1>1, <1>4, <2>6, <2>8, <2>9, <2>10, <2>11, <2>12 DEF Fits
<1>7. CASE key \notin DOMAIN s.tab
  <2>1. PICK i, g : i = NextChunkNum(s) /\ g = <<Tuple(b, o)>>
    OBVIOUS
  <2>2. /\ GoodList(g)
        /\ \A x : Times(g, x) = IF x = b THEN 1 ELSE 0
        /\ \A x, q : Holds(g, x, q) <=> x = b /\ q = o
    BY <1>2, <2>1, NewList
  <2>3. t = Added(s, key, g)
    BY <1>7, <2>1 DEF ProcessChunk, Added, key, o
  <2>4. /\ Sound(t)
        /\ i \notin DOMAIN s.map /\ DOMAIN t.map = DOMAIN s.map \cup {i}
        /\ DOMAIN t.tab = DOMAIN s.tab \cup {key}
        /\ t.tab[key] = i /\ KeyIn(t, i) = key /\ ListIn(t, i) = g
        /\ \A k \in DOMAIN s.tab : t.tab[k] = s.tab[k]
        /\ \A j \in DOMAIN s.map : KeyIn(t, j) = KeyIn(s, j) /\ ListIn(t, j) = ListIn(s, j)
    <3>1. Adds(s, t, i, key, g)
      BY <1>1, <1>2, <1>7, <2>1, <2>2, <2>3, AddedChunk
    <3> QED
      BY <3>1 DEF Adds
  <2>5. Apart(t, K, L, J, b, n, i)
    <3>1. i \in DOMAIN t.map /\ KeyIn(t, i) = K[b][n].key
      BY <2>4 DEF key
    <3> QED
      BY <1>4, <2>4, <3>1, SpotApart
  <2>6. TimesRight(t, K, L)
    <3> SUFFICES ASSUME NEW j \in DOMAIN t.map, NEW x \in Blocks
                 PROVE  Times(ListIn(t, j), x) = Cardinality(Spots(K[x], L[x], KeyIn(t, j)))
      BY DEF TimesRight
    <3>1. PICK m \in Nat : m = Cardinality(Spots(K[x], J[x], KeyIn(t, j)))
      BY <1>5
    <3>2. Cardinality(Spots(K[x], L[x], KeyIn(t, j))) = m + IF x = b /\ j = i THEN 1 ELSE 0
      <4>1. Cardinality(Spots(K[x], L[x], KeyIn(t, j))) =
              Cardinality(Spots(K[x], J[x], KeyIn(t, j))) + IF x = b /\ j = i THEN 1 ELSE 0
        BY <2>5 DEF Apart
      <4> QED
        BY <3>1, <4>1
    <3>3. CASE j = i
      <4>1. Spots(K[x], J[x], key) = {}
        BY <1>7 DEF Fits, KeysKnown, Spots
      <4>2. m = 0
        BY <2>4, <3>1, <3>3, <4>1, FS_EmptySet
      <4>3. Times(ListIn(t, j), x) = IF x = b THEN 1 ELSE 0
        BY <2>2, <2>4, <3>3
      <4> QED
        BY <3>2, <3>3, <4>2, <4>3
    <3>4. CASE j # i
      <4>1. j \in DOMAIN s.map /\ KeyIn(t, j) = KeyIn(s, j) /\ ListIn(t, j) = ListIn(s, j)
        BY <2>4, <3>4
      <4>2. Times(ListIn(s, j), x) = Cardinality(Spots(K[x], J[x], KeyIn(s, j)))
        BY <4>1 DEF Fits, TimesRight
      <4>3. Times(ListIn(t, j), x) = m
        BY <3>1, <4>1, <4>2, Zenon
      <4>4. m + 0 = m
        OBVIOUS
      <4> QED
        BY <3>2, <3>4, <4>3, <4>4, Zenon
    <3> QED
      BY <3>3, <3>4
  <2>7. KeysKnown(t, K, L)
    <3> SUFFICES ASSUME NEW x \in Blocks, NEW j \in L[x]
                 PROVE  K[x][j].key \in DOMAIN t.tab
      BY DEF KeysKnown
    <3>1. j \in J[x] \/ (x = b /\ j = n)
      BY <1>3
    <3>2. \A l \in J[x] : K[x][l].key \in DOMAIN s.tab
      BY DEF Fits, KeysKnown
    <3> QED
      BY <2>4, <3>1, <3>2 DEF key
  <2>8. PlacesRight(t, K)
    <3> SUFFICES ASSUME NEW j \in DOMAIN t.map, NEW x \in Blocks, NEW q,
                        Holds(ListIn(t, j), x, q)
                 PROVE  \E m \in DOMAIN K[x] : K[x][m].key = KeyIn(t, j) /\ K[x][m].offset = q
      BY DEF PlacesRight
    <3>1. CASE j = i
      <4>1. x = b /\ q = o /\ KeyIn(t, j) = key
        BY <2>2, <2>4, <3>1
      <4> QED
        BY <4>1 DEF key, o
    <3>2. CASE j # i
      <4>1. j \in DOMAIN s.map /\ KeyIn(t, j) = KeyIn(s, j) /\ Holds(ListIn(s, j), x, q)
        BY <2>4, <3>2
      <4> QED
        BY <4>1 DEF Fits, PlacesRight
    <3> QED
      BY <3>1, <3>2
  <2>9. PlacesFound(t, K, L, W)
    <3> SUFFICES ASSUME NEW x \in W, NEW j \in L[x]
                 PROVE  Holds(ListIn(t, t.tab[K[x][j].key]), x, K[x][j].offset)
      BY DEF PlacesFound
    <3>1. x \in Blocks
      BY <1>1
    <3>2. CASE j \in J[x]
      <4>1. PICK k, l : k = K[x][j].key /\ l = s.tab[k]
        OBVIOUS
      <4>2. /\ k \in DOMAIN s.tab /\ l \in DOMAIN s.map
            /\ Holds(ListIn(s, l), x, K[x][j].offset)
        BY <3>1, <3>2, <4>1 DEF Fits, PlacesFound, KeysKnown, Sound, KeysFound
      <4>3. t.tab[k] = l /\ ListIn(t, l) = ListIn(s, l)
        BY <2>4, <4>1, <4>2
      <4> QED
        BY <4>1, <4>2, <4>3
    <3>3. CASE j \notin J[x]
      <4>1. x = b /\ j = n
        BY <1>3, <3>1, <3>3
      <4>2. K[x][j].key = key /\ K[x][j].offset = o
        BY <4>1 DEF key, o
      <4> QED
        BY <2>2, <2>4, <4>1, <4>2
    <3> QED
      BY <3>2, <3>3
  <2>10. Keeps(t, s)
    BY <2>4 DEF Keeps
  <2> QED
    BY <1>1, <1>4, <2>4, <2>6, <2>7, <2>8, <2>9, <2>10 DEF Fits
<1> QED
  BY <1>6, <1>7

\* A block becomes the one to fetch one of its chunks from.
LEMMA LeadStep ==
  ASSUME NEW s, NEW K, NEW J, NEW W, Fits(s, K, J, W),
         NEW b \in Blocks, NEW n \in J[b],
         NEW i, i = s.tab[K[b][n].key],
         NEW t, t = TakeLead(s, i, b)
  PROVE  Fits(t, K, J, W) /\ t.tab = s.tab
<1>1. /\ i \in DOMAIN s.map /\ KeyIn(s, i) = K[b][n].key
      /\ PlacesOf(ListIn(s, i), b) # {}
  BY HasPlace
<1>2. PICK f : f = ListIn(s, i) /\ GoodList(f) /\ PlacesOf(f, b) # {}
  BY <1>1 DEF Fits, Sound, ListsGood
<1>3. PICK p : p = First(PlacesOf(f, b))
  OBVIOUS
<1>4. p \in DOMAIN f
  <2>1. PlacesOf(f, b) \in SUBSET Nat
    <3>1. DOMAIN f = 1..Len(f) /\ Len(f) \in Nat
      BY <1>2, GoodListFacts
    <3> QED
      BY <3>1 DEF PlacesOf
  <2>2. p \in PlacesOf(f, b)
    BY <1>2, <1>3, <2>1, FirstIn
  <2> QED
    BY <2>2 DEF PlacesOf
<1>5. CASE f[p].dedupfetch
  <2>1. t = s
    BY <1>2, <1>3, <1>5 DEF TakeLead, ListIn
  <2> QED
    BY <2>1
<1>6. CASE ~f[p].dedupfetch
  <2>1. PICK g : g = SetMark(Unmark(f), p, TRUE)
    OBVIOUS
  <2>2. /\ GoodList(g)
        /\ \A x, o : Times(g, x) = Times(f, x) /\ (Holds(g, x, o) <=> Holds(f, x, o))
    <3>1. Leads(f, g)
      BY <1>2, <1>4, <2>1, LeadList
    <3> QED
      BY <3>1 DEF Leads
  <2>3. t = Relisted(s, i, g)
    BY <1>2, <1>3, <1>6, <2>1 DEF TakeLead, Relisted, ListIn
  <2>4. /\ Sound(t)
        /\ DOMAIN t.map = DOMAIN s.map /\ t.tab = s.tab
        /\ ListIn(t, i) = g
        /\ \A j \in DOMAIN s.map : KeyIn(t, j) = KeyIn(s, j)
        /\ \A j \in DOMAIN s.map : j # i => ListIn(t, j) = ListIn(s, j)
    <3>1. Relists(s, t, i, g)
      BY <1>1, <2>2, <2>3, ChangedList DEF Fits
    <3> QED
      BY <3>1 DEF Relists
  <2>5. ASSUME NEW j \in DOMAIN s.map
        PROVE  \A x, o : /\ Times(ListIn(t, j), x) = Times(ListIn(s, j), x)
                         /\ Holds(ListIn(t, j), x, o) <=> Holds(ListIn(s, j), x, o)
    <3>1. CASE j = i
      BY <1>2, <2>2, <2>4, <3>1
    <3>2. CASE j # i
      BY <2>4, <3>2
    <3> QED
      BY <3>1, <3>2
  <2>6. TimesRight(t, K, J)
    <3> SUFFICES ASSUME NEW j \in DOMAIN t.map, NEW x \in Blocks
                 PROVE  Times(ListIn(t, j), x) = Cardinality(Spots(K[x], J[x], KeyIn(t, j)))
      BY DEF TimesRight
    <3>1. j \in DOMAIN s.map /\ KeyIn(t, j) = KeyIn(s, j)
      BY <2>4
    <3>2. Times(ListIn(s, j), x) = Cardinality(Spots(K[x], J[x], KeyIn(s, j)))
      BY <3>1 DEF Fits, TimesRight
    <3>3. Times(ListIn(t, j), x) = Times(ListIn(s, j), x)
      BY <2>5, <3>1
    <3> QED
      BY <3>1, <3>2, <3>3, Zenon
  <2>7. KeysKnown(t, K, J)
    BY <2>4 DEF Fits, KeysKnown
  <2>8. PlacesRight(t, K)
    <3> SUFFICES ASSUME NEW j \in DOMAIN t.map, NEW x \in Blocks, NEW o,
                        Holds(ListIn(t, j), x, o)
                 PROVE  \E m \in DOMAIN K[x] : K[x][m].key = KeyIn(t, j) /\ K[x][m].offset = o
      BY DEF PlacesRight
    <3>1. j \in DOMAIN s.map /\ KeyIn(t, j) = KeyIn(s, j) /\ Holds(ListIn(s, j), x, o)
      BY <2>4, <2>5
    <3>2. PlacesRight(s, K)
      BY DEF Fits
    <3> QED
      BY <3>1, <3>2 DEF PlacesRight
  <2>9. PlacesFound(t, K, J, W)
    <3> SUFFICES ASSUME NEW x \in W, NEW j \in J[x]
                 PROVE  Holds(ListIn(t, t.tab[K[x][j].key]), x, K[x][j].offset)
      BY DEF PlacesFound
    <3>1. PICK l : l = s.tab[K[x][j].key] /\ l = t.tab[K[x][j].key]
      BY <2>4
    <3>2. l \in DOMAIN s.map /\ Holds(ListIn(s, l), x, K[x][j].offset)
      BY <3>1 DEF Fits, PlacesFound, KeysKnown, Sound, KeysFound
    <3> QED
      BY <2>5, <3>1, <3>2
  <2> QED
    BY <2>4, <2>6, <2>7, <2>8, <2>9 DEF Fits
<1> QED
  BY <1>5, <1>6

\* A block of which nothing is mapped may be cut in another way.
LEMMA Recut ==
  ASSUME NEW s, NEW K, NEW J, NEW W, Fits(s, K, J, W),
         NEW b \in Blocks, J[b] = {},
         NEW C \in Seq(ChunkType), NEW M, M = [K EXCEPT ![b] = C], DOMAIN K = Blocks
  PROVE  Fits(s, M, J, W \cup {b})
<1>1. M[b] = C /\ \A x \in Blocks : x # b => M[x] = K[x]
  OBVIOUS
<1>2. Sound(s) /\ Cutting(K, J) /\ W \subseteq Blocks
  BY DEF Fits
<1>3. Cutting(M, J)
  BY <1>1, <1>2 DEF Cutting
<1>4. ASSUME NEW k PROVE Spots(M[b], J[b], k) = Spots(K[b], J[b], k)
  BY DEF Spots
<1>5. TimesRight(s, M, J)
  <2> SUFFICES ASSUME NEW j \in DOMAIN s.map, NEW x \in Blocks
               PROVE  Times(ListIn(s, j), x) = Cardinality(Spots(M[x], J[x], KeyIn(s, j)))
    BY DEF TimesRight
  <2>1. Spots(M[x], J[x], KeyIn(s, j)) = Spots(K[x], J[x], KeyIn(s, j))
    BY <1>1, <1>4
  <2>2. Times(ListIn(s, j), x) = Cardinality(Spots(K[x], J[x], KeyIn(s, j)))
    BY DEF Fits, TimesRight
  <2> QED
    BY <2>1, <2>2, Zenon
<1>6. KeysKnown(s, M, J)
  <2> SUFFICES ASSUME NEW x \in Blocks, NEW j \in J[x]
               PROVE  M[x][j].key \in DOMAIN s.tab
    BY DEF KeysKnown
  <2>1. M[x] = K[x]
    BY <1>1
  <2> QED
    BY <2>1 DEF Fits, KeysKnown
<1>7. PlacesRight(s, M)
  <2> SUFFICES ASSUME NEW j \in DOMAIN s.map, NEW x \in Blocks, NEW o,
                      Holds(ListIn(s, j), x, o)
               PROVE  \E m \in DOMAIN M[x] : M[x][m].key = KeyIn(s, j) /\ M[x][m].offset = o
    BY DEF PlacesRight
  <2>1. x # b
    <3>1. SUFFICES ASSUME x = b PROVE FALSE
      OBVIOUS
    <3>2. GoodList(ListIn(s, j))
      BY <1>2 DEF Sound, ListsGood
    <3>3. Times(ListIn(s, j), b) = Cardinality(Spots(K[b], J[b], KeyIn(s, j)))
      BY DEF Fits, TimesRight
    <3>4. Spots(K[b], J[b], KeyIn(s, j)) = {}
      BY DEF Spots
    <3>5. PlacesOf(ListIn(s, j), b) = {}
      BY <3>2, <3>3, <3>4, PlacesFinite, FS_EmptySet DEF Times, GoodList
    <3> QED
      BY <3>1, <3>5 DEF Holds, PlacesOf
  <2>2. M[x] = K[x]
    BY <1>1, <2>1
  <2> QED
    BY <2>2 DEF Fits, PlacesRight
<1>8. PlacesFound(s, M, J, W \cup {b})
  <2> SUFFICES ASSUME NEW x \in W \cup {b}, NEW j \in J[x]
               PROVE  Holds(ListIn(s, s.tab[M[x][j].key]), x, M[x][j].offset)
    BY DEF PlacesFound
  <2>1. x # b /\ x \in W /\ M[x] = K[x]
    BY <1>1, <1>2
  <2> QED
    BY <2>1 DEF Fits, PlacesFound
<1> QED
  BY <1>2, <1>3, <1>5, <1>6, <1>7, <1>8 DEF Fits

-----------------------------------------------------------------------------
\* The loops.  Each goes through a list and hands on what it has so far; that
\* there is a function of its turns is proved for all of them at once.
Turn(loop, s, list, n, b) ==
  IF loop = "reset" THEN RecycleChunkID(s, list[n], b)
  ELSE IF loop = "chunk" THEN ProcessChunk(s, list[n], b)
  ELSE IF loop = "lead" THEN TakeLead(s, list[n], b)
  ELSE IF loop = "sum" THEN s + Len(chunkmap[list[n]].chashkey)
  ELSE AddPiece(s, Leader(list[n]), PartOf(list, n))

Turns(h, loop, s, list, b, m) ==
  h = [n \in 0..m |-> IF n = 0 THEN s ELSE Turn(loop, h[n - 1], list, n, b)]

LEMMA TurnsTaken ==
  ASSUME NEW h, NEW loop, NEW s, NEW list, NEW b, NEW m \in Nat,
         Turns(h, loop, s, list, b, m)
  PROVE  /\ h[0] = s
         /\ \A n \in 1..m : h[n] = Turn(loop, h[n - 1], list, n, b)
<1>1. \A n \in 0..m : h[n] = IF n = 0 THEN s ELSE Turn(loop, h[n - 1], list, n, b)
  BY Zenon DEF Turns
<1>2. 0 \in 0..m /\ \A n \in 1..m : n \in 0..m /\ n # 0
  OBVIOUS
<1> QED
  BY <1>1, <1>2, Zenon

LEMMA TurnsExist ==
  ASSUME NEW loop, NEW s, NEW list, NEW b, NEW m \in Nat
  PROVE  \E h : Turns(h, loop, s, list, b, m)
<1>1. PICK T : T = {n \in Nat : ~\E h : Turns(h, loop, s, list, b, n)}
  OBVIOUS
<1>2. T \in SUBSET Nat /\ \A n : n \in T <=> n \in Nat /\ ~\E h : Turns(h, loop, s, list, b, n)
  <2>1. T \in SUBSET Nat
    BY <1>1
  <2> QED
    BY <1>1, <2>1, Zenon
<1>3. ASSUME T # {} PROVE FALSE
  <2>1. PICK n \in T : \A j \in T : n <= j
    BY <1>2, <1>3, SmallestOne
  <2>2. n \in Nat /\ ~\E h : Turns(h, loop, s, list, b, n)
    BY <1>2
  <2>3. CASE n = 0
    <3>1. PICK h : h = [j \in 0..0 |-> s]
      OBVIOUS
    <3>2. [j \in 0..0 |-> s]
            = [j \in 0..0 |-> IF j = 0 THEN s ELSE Turn(loop, h[j - 1], list, j, b)]
      OBVIOUS
    <3>3. Turns(h, loop, s, list, b, 0)
      BY <3>1, <3>2, Zenon DEF Turns
    <3> QED
      BY <2>2, <2>3, <3>3
  <2>4. CASE n # 0
    <3>1. PICK k \in Nat : n = k + 1 /\ ~(n <= k)
      <4>1. n - 1 \in Nat /\ n = (n - 1) + 1 /\ ~(n <= n - 1)
        BY <2>2, <2>4
      <4> QED
        BY <4>1
    <3>2. PICK h : Turns(h, loop, s, list, b, k)
      BY <1>2, <2>1, <3>1
    <3>3. PICK r : r = Turn(loop, h[k], list, n, b)
      OBVIOUS
    <3>4. PICK g : g = [j \in 0..n |-> IF j <= k THEN h[j] ELSE r]
      OBVIOUS
    <3>5. h[0] = s /\ \A j \in 1..k : h[j] = Turn(loop, h[j - 1], list, j, b)
      BY <3>2, TurnsTaken
    <3>6. ASSUME NEW j \in 0..n
          PROVE  g[j] = IF j = 0 THEN s ELSE Turn(loop, g[j - 1], list, j, b)
      <4>1. CASE j = 0
        BY <3>1, <3>4, <3>5, <4>1
      <4>2. CASE j # 0 /\ j <= k
        <5>1. j \in 1..k /\ j - 1 \in 0..n /\ j - 1 <= k
          BY <3>1, <4>2
        <5>2. g[j] = h[j] /\ g[j - 1] = h[j - 1]
          BY <3>4, <4>2, <5>1
        <5> QED
          BY <3>5, <4>2, <5>1, <5>2
      <4>3. CASE ~(j <= k)
        <5>1. j = n /\ j - 1 = k /\ j # 0 /\ k \in 0..n /\ k <= k
          BY <3>1, <4>3
        <5>2. g[j] = r /\ g[k] = h[k]
          BY <3>4, <4>3, <5>1
        <5> QED
          BY <3>3, <5>1, <5>2
      <4> QED
        BY <4>1, <4>2, <4>3
    <3>7. Turns(g, loop, s, list, b, n)
      <4>1. g = [j \in 0..n |-> g[j]]
        BY <3>4
      <4>2. [j \in 0..n |-> g[j]]
              = [j \in 0..n |-> IF j = 0 THEN s ELSE Turn(loop, g[j - 1], list, j, b)]
        BY <3>6
      <4> QED
        BY <4>1, <4>2, Zenon DEF Turns
    <3> QED
      BY <2>2, <3>7
  <2> QED
    BY <2>3, <2>4
<1> QED
  BY <1>2, <1>3

ResetsBy(h, ids, b) ==
  h = [n \in 0..Len(ids) |->
         IF n = 0 THEN Tables ELSE RecycleChunkID(h[n - 1], ids[n], b)]

LEMMA ResetTurns ==
  ASSUME NEW ids, NEW b, NEW m \in Nat, m = Len(ids)
  PROVE  \E h : /\ h[0] = Tables
                /\ \A n \in 1..m : h[n] = RecycleChunkID(h[n - 1], ids[n], b)
                /\ ResetMappings(ids, b) = h[m]
<1>1. PICK g : Turns(g, "reset", Tables, ids, b, m)
  BY TurnsExist
<1>2. ASSUME NEW s, NEW n PROVE Turn("reset", s, ids, n, b) = RecycleChunkID(s, ids[n], b)
  BY DEF Turn
<1>3. ResetsBy(g, ids, b)
  <2>1. [n \in 0..m |-> IF n = 0 THEN Tables ELSE Turn("reset", g[n - 1], ids, n, b)]
          = [n \in 0..m |-> IF n = 0 THEN Tables ELSE RecycleChunkID(g[n - 1], ids[n], b)]
    BY <1>2
  <2> QED
    BY <1>1, <2>1, Zenon DEF Turns, ResetsBy
<1>4. PICK h : h = CHOOSE f : ResetsBy(f, ids, b)
  OBVIOUS
<1>5. ResetsBy(h, ids, b)
  BY <1>3, <1>4, Zenon
<1>6. ResetMappings(ids, b) = h[m]
  BY <1>4 DEF ResetMappings, ResetsBy
<1>7. \A n \in 0..m : h[n] = IF n = 0 THEN Tables ELSE RecycleChunkID(h[n - 1], ids[n], b)
  BY <1>5, Zenon DEF ResetsBy
<1>8. 0 \in 0..m /\ \A n \in 1..m : n \in 0..m /\ n # 0
  OBVIOUS
<1>9. h[0] = Tables /\ \A n \in 1..m : h[n] = RecycleChunkID(h[n - 1], ids[n], b)
  BY <1>7, <1>8, Zenon
<1> QED
  BY <1>6, <1>9, Zenon


ChunksBy(h, ids, b) ==
  h = [n \in 0..Len(ids) |->
         IF n = 0 THEN Tables ELSE ProcessChunk(h[n - 1], ids[n], b)]

ChunkTurnsOf(h, ids, b, m) ==
  /\ h[0] = Tables
  /\ \A n \in 1..m : h[n] = ProcessChunk(h[n - 1], ids[n], b)
  /\ ResumeChunking(ids, b) = h[m]

LEMMA ChunkTurns ==
  ASSUME NEW ids, NEW b, NEW m \in Nat, m = Len(ids)
  PROVE  \E h : ChunkTurnsOf(h, ids, b, m)
<1>1. PICK g : Turns(g, "chunk", Tables, ids, b, m)
  BY TurnsExist
<1>2. ASSUME NEW s, NEW n PROVE Turn("chunk", s, ids, n, b) = ProcessChunk(s, ids[n], b)
  BY DEF Turn
<1>3. ChunksBy(g, ids, b)
  <2>1. [n \in 0..m |-> IF n = 0 THEN Tables ELSE Turn("chunk", g[n - 1], ids, n, b)]
          = [n \in 0..m |-> IF n = 0 THEN Tables ELSE ProcessChunk(g[n - 1], ids[n], b)]
    BY <1>2
  <2> QED
    BY <1>1, <2>1, Zenon DEF Turns, ChunksBy
<1>4. PICK h : h = CHOOSE f : ChunksBy(f, ids, b)
  OBVIOUS
<1>5. ChunksBy(h, ids, b)
  BY <1>3, <1>4, Zenon
<1>6. ResumeChunking(ids, b) = h[m]
  BY <1>4 DEF ResumeChunking, ChunksBy
<1>7. \A n \in 0..m : h[n] = IF n = 0 THEN Tables ELSE ProcessChunk(h[n - 1], ids[n], b)
  BY <1>5, Zenon DEF ChunksBy
<1>8. 0 \in 0..m /\ \A n \in 1..m : n \in 0..m /\ n # 0
  OBVIOUS
<1>9. h[0] = Tables /\ \A n \in 1..m : h[n] = ProcessChunk(h[n - 1], ids[n], b)
  BY <1>7, <1>8, Zenon
<1> QED
  BY <1>6, <1>9, Zenon DEF ChunkTurnsOf

LeadsBy(h, ids, b) ==
  h = [n \in 0..Len(ids) |->
         IF n = 0 THEN Tables ELSE TakeLead(h[n - 1], ids[n], b)]

LEMMA LeadTurns ==
  ASSUME NEW ids, NEW b, NEW m \in Nat, m = Len(ids)
  PROVE  \E h : /\ h[0] = Tables
                /\ \A n \in 1..m : h[n] = TakeLead(h[n - 1], ids[n], b)
                /\ TakeLeads(ids, b) = h[m]
<1>1. PICK g : Turns(g, "lead", Tables, ids, b, m)
  BY TurnsExist
<1>2. ASSUME NEW s, NEW n PROVE Turn("lead", s, ids, n, b) = TakeLead(s, ids[n], b)
  BY DEF Turn
<1>3. LeadsBy(g, ids, b)
  <2>1. [n \in 0..m |-> IF n = 0 THEN Tables ELSE Turn("lead", g[n - 1], ids, n, b)]
          = [n \in 0..m |-> IF n = 0 THEN Tables ELSE TakeLead(g[n - 1], ids[n], b)]
    BY <1>2
  <2> QED
    BY <1>1, <2>1, Zenon DEF Turns, LeadsBy
<1>4. PICK h : h = CHOOSE f : LeadsBy(f, ids, b)
  OBVIOUS
<1>5. LeadsBy(h, ids, b)
  BY <1>3, <1>4, Zenon
<1>6. TakeLeads(ids, b) = h[m]
  BY <1>4 DEF TakeLeads, LeadsBy
<1>7. \A n \in 0..m : h[n] = IF n = 0 THEN Tables ELSE TakeLead(h[n - 1], ids[n], b)
  BY <1>5, Zenon DEF LeadsBy
<1>8. 0 \in 0..m /\ \A n \in 1..m : n \in 0..m /\ n # 0
  OBVIOUS
<1>9. h[0] = Tables /\ \A n \in 1..m : h[n] = TakeLead(h[n - 1], ids[n], b)
  BY <1>7, <1>8, Zenon
<1> QED
  BY <1>6, <1>9, Zenon

SumsBy(h, ids) ==
  h = [n \in 0..Len(ids) |->
         IF n = 0 THEN 0 ELSE h[n - 1] + Len(chunkmap[ids[n]].chashkey)]

LEMMA SumTurns ==
  ASSUME NEW ids, NEW m \in Nat, m = Len(ids)
  PROVE  \E h : /\ h[0] = 0
                /\ \A n \in 1..m : h[n] = h[n - 1] + Len(chunkmap[ids[n]].chashkey)
                /\ LettersIn(ids) = h
<1>1. PICK g : Turns(g, "sum", 0, ids, 0, m)
  BY TurnsExist
<1>2. ASSUME NEW s, NEW n
      PROVE  Turn("sum", s, ids, n, 0) = s + Len(chunkmap[ids[n]].chashkey)
  BY DEF Turn
<1>3. SumsBy(g, ids)
  <2>1. [n \in 0..m |-> IF n = 0 THEN 0 ELSE Turn("sum", g[n - 1], ids, n, 0)]
          = [n \in 0..m |-> IF n = 0 THEN 0 ELSE g[n - 1] + Len(chunkmap[ids[n]].chashkey)]
    BY <1>2
  <2> QED
    BY <1>1, <2>1, Zenon DEF Turns, SumsBy
<1>4. PICK h : h = CHOOSE f : SumsBy(f, ids)
  OBVIOUS
<1>5. SumsBy(h, ids)
  BY <1>3, <1>4, Zenon
<1>6. LettersIn(ids) = h
  BY <1>4 DEF LettersIn, SumsBy
<1>7. \A n \in 0..m : h[n] = IF n = 0 THEN 0 ELSE h[n - 1] + Len(chunkmap[ids[n]].chashkey)
  BY <1>5, Zenon DEF SumsBy
<1>8. 0 \in 0..m /\ \A n \in 1..m : n \in 0..m /\ n # 0
  OBVIOUS
<1>9. h[0] = 0 /\ \A n \in 1..m : h[n] = h[n - 1] + Len(chunkmap[ids[n]].chashkey)
  BY <1>7, <1>8, Zenon
<1> QED
  BY <1>6, <1>9, Zenon

PiecesBy(h, ids) ==
  h = [n \in 0..Len(ids) |->
         IF n = 0 THEN <<>> ELSE AddPiece(h[n - 1], Leader(ids[n]), PartOf(ids, n))]

LEMMA PieceTurns ==
  ASSUME NEW ids, NEW m \in Nat, m = Len(ids)
  PROVE  \E h : /\ h[0] = <<>>
                /\ \A n \in 1..m : h[n] = AddPiece(h[n - 1], Leader(ids[n]), PartOf(ids, n))
                /\ PiecesOf(ids) = h[m]
<1>1. PICK g : Turns(g, "piece", <<>>, ids, 0, m)
  BY TurnsExist
<1>2. ASSUME NEW s, NEW n
      PROVE  Turn("piece", s, ids, n, 0) = AddPiece(s, Leader(ids[n]), PartOf(ids, n))
  BY DEF Turn
<1>3. PiecesBy(g, ids)
  <2>1. [n \in 0..m |-> IF n = 0 THEN <<>> ELSE Turn("piece", g[n - 1], ids, n, 0)]
          = [n \in 0..m |-> IF n = 0 THEN <<>>
                            ELSE AddPiece(g[n - 1], Leader(ids[n]), PartOf(ids, n))]
    BY <1>2
  <2> QED
    BY <1>1, <2>1, Zenon DEF Turns, PiecesBy
<1>4. PICK h : h = CHOOSE f : PiecesBy(f, ids)
  OBVIOUS
<1>5. PiecesBy(h, ids)
  BY <1>3, <1>4, Zenon
<1>6. PiecesOf(ids) = h[m]
  BY <1>4 DEF PiecesOf, PiecesBy
<1>7. \A n \in 0..m : h[n] = IF n = 0 THEN <<>>
                             ELSE AddPiece(h[n - 1], Leader(ids[n]), PartOf(ids, n))
  BY <1>5, Zenon DEF PiecesBy
<1>8. 0 \in 0..m /\ \A n \in 1..m : n \in 0..m /\ n # 0
  OBVIOUS
<1>9. /\ h[0] = <<>>
      /\ \A n \in 1..m : h[n] = AddPiece(h[n - 1], Leader(ids[n]), PartOf(ids, n))
  BY <1>7, <1>8, Zenon
<1> QED
  BY <1>6, <1>9, Zenon

-----------------------------------------------------------------------------
\* What the loops make of tables that fit.
LEMMA FitsLess ==
  ASSUME NEW s, NEW K, NEW J, NEW W, Fits(s, K, J, W), NEW V, V \subseteq W
  PROVE  Fits(s, K, J, V)
BY DEF Fits, PlacesFound

\* List ids has the numbers of m chunks C, which are those at N.
Names(ids, N, C, m) == N = 1..m /\ \A n \in 1..m : ids[n] = chunktab[C[n].key]

LEMMA ResetLoop ==
  ASSUME NEW K, NEW J, Fits(Tables, K, J, Blocks), NEW b \in Blocks,
         NEW ids, NEW m \in Nat, m = Len(ids), Names(ids, J[b], K[b], m),
         NEW t, t = ResetMappings(ids, b), NEW M, M = [J EXCEPT ![b] = {}]
  PROVE  Fits(t, K, M, Blocks \ {b}) /\ Keeps(Tables, t)
<1>1. PICK h : /\ h[0] = Tables
               /\ \A n \in 1..m : h[n] = RecycleChunkID(h[n - 1], ids[n], b)
               /\ ResetMappings(ids, b) = h[m]
  BY ResetTurns
<1> J[b] = 1..m /\ \A n \in 1..m : ids[n] = chunktab[K[b][n].key]
  BY DEF Names
<1> DEFINE N(n) == [J EXCEPT ![b] = n + 1..m]
           Left(n) == Fits(h[n], K, N(n), Blocks \ {b}) /\ Keeps(Tables, h[n])
<1> HIDE DEF Left
<1>2. J \in [Blocks -> SUBSET Nat]
  BY DEF Fits, Cutting
<1>3. Left(0)
  <2>1. N(0) = J
    BY <1>2
  <2>2. Fits(Tables, K, J, Blocks \ {b})
    BY FitsLess
  <2>3. Keeps(Tables, Tables)
    BY DEF Keeps
  <2> QED
    BY <1>1, <2>1, <2>2, <2>3 DEF Left
<1>4. ASSUME NEW n \in 1..m, Left(n - 1) PROVE Left(n)
  <2>1. PICK s : s = h[n - 1]
    OBVIOUS
  <2>2. PICK L : L = N(n - 1)
    OBVIOUS
  <2>3. Fits(s, K, L, Blocks \ {b}) /\ Keeps(Tables, s)
    BY <1>4, <2>1, <2>2 DEF Left
  <2>4. L[b] = n..m /\ L \in [Blocks -> SUBSET Nat]
    <3>1. (n - 1) + 1 = n
      OBVIOUS
    <3> QED
      BY <1>2, <2>2, <3>1
  <2>5. n \in L[b] /\ b \notin Blocks \ {b}
    BY <2>4
  <2>6. ids[n] = s.tab[K[b][n].key]
    <3>1. K[b][n].key \in DOMAIN s.tab
      BY <2>3, <2>5 DEF Fits, KeysKnown
    <3> QED
      BY <2>3, <3>1 DEF Keeps, Tables
  <2>7. h[n] = RecycleChunkID(s, ids[n], b)
    BY <1>1, <2>1
  <2>8. PICK Q : Q = [L EXCEPT ![b] = L[b] \ {n}]
    OBVIOUS
  <2>9. PICK u : u = h[n]
    OBVIOUS
  <2>10. Fits(u, K, Q, Blocks \ {b}) /\ Keeps(s, u)
    <3>1. PICK i : i = ids[n]
      OBVIOUS
    <3>2. i = s.tab[K[b][n].key] /\ u = RecycleChunkID(s, i, b)
      BY <2>6, <2>7, <2>9, <3>1
    <3> QED
      BY <2>3, <2>5, <2>8, <3>2, RecycleStep
  <2>11. Q = N(n)
    <3>1. L[b] \ {n} = n + 1..m
      BY <2>4
    <3>2. Q = [L EXCEPT ![b] = n + 1..m]
      BY <2>8, <3>1
    <3> QED
      BY <1>2, <2>2, <3>2
  <2>12. Keeps(Tables, u)
    BY <2>3, <2>10 DEF Keeps
  <2> QED
    BY <2>9, <2>10, <2>11, <2>12 DEF Left
<1>5. PICK T : T = {n \in 0..m : Left(n)}
  OBVIOUS
<1>6. 0 \in T /\ \A n \in 1..m : n - 1 \in T => n \in T
  BY <1>3, <1>4, <1>5
<1>7. m \in T
  <2>1. \A n \in 0..m : n \in T
    BY <1>6, AllTurns
  <2> QED
    BY <2>1
<1>8. Left(m)
  BY <1>5, <1>7
<1>9. N(m) = [J EXCEPT ![b] = {}]
  <2>1. m + 1..m = {}
    OBVIOUS
  <2> QED
    BY <2>1
<1> QED
  BY <1>1, <1>8, <1>9 DEF Left

LEMMA ChunkLoop ==
  ASSUME NEW K, NEW J, NEW W, Fits(Tables, K, J, W), NEW b \in Blocks, J[b] = {},
         NEW chunks, chunks = K[b], NEW m \in Nat, m = Len(chunks),
         NEW t, t = ResumeChunking(chunks, b)
  PROVE  Fits(t, K, [J EXCEPT ![b] = 1..m], W) /\ Keeps(t, Tables)
<1>0. PICK h : ChunkTurnsOf(h, chunks, b, m)
  BY ChunkTurns
<1>1. /\ h[0] = Tables
      /\ \A n \in 1..m : h[n] = ProcessChunk(h[n - 1], chunks[n], b)
      /\ ResumeChunking(chunks, b) = h[m]
  BY <1>0, Zenon DEF ChunkTurnsOf
<1> DEFINE N(n) == [J EXCEPT ![b] = 1..n]
           Done(n) == Fits(h[n], K, N(n), W) /\ Keeps(h[n], Tables)
<1> HIDE DEF Done
<1>2. J \in [Blocks -> SUBSET Nat] /\ DOMAIN K[b] = 1..m
  BY LenProperties DEF Fits, Cutting
<1>3. Done(0)
  <2>1. N(0) = J
    BY <1>2
  <2>2. Keeps(Tables, Tables)
    BY DEF Keeps
  <2> QED
    BY <1>1, <2>1, <2>2 DEF Done
<1>4. ASSUME NEW n \in 1..m, Done(n - 1) PROVE Done(n)
  <2>1. PICK s : s = h[n - 1]
    OBVIOUS
  <2>2. PICK L : L = N(n - 1)
    OBVIOUS
  <2>3. Fits(s, K, L, W) /\ Keeps(s, Tables)
    BY <1>4, <2>1, <2>2 DEF Done
  <2>4. L[b] = 1..n - 1 /\ L \in [Blocks -> SUBSET Nat]
    BY <1>2, <2>2
  <2>5. n \notin L[b] /\ n \in DOMAIN K[b]
    BY <1>2, <2>4
  <2>6. PICK u : u = h[n]
    OBVIOUS
  <2>7. u = ProcessChunk(s, K[b][n], b)
    BY <1>1, <2>1, <2>6
  <2>8. PICK M : M = [L EXCEPT ![b] = L[b] \cup {n}]
    OBVIOUS
  <2>9. Fits(u, K, M, W) /\ Keeps(u, s)
    BY <2>3, <2>5, <2>7, <2>8, ProcessStep
  <2>10. M = N(n)
    <3>1. L[b] \cup {n} = 1..n
      BY <2>4
    <3>2. M = [L EXCEPT ![b] = 1..n]
      BY <2>8, <3>1
    <3> QED
      BY <1>2, <2>2, <3>2
  <2>11. Keeps(u, Tables)
    BY <2>3, <2>9 DEF Keeps
  <2> QED
    BY <2>6, <2>9, <2>10, <2>11 DEF Done
<1>5. PICK T : T = {n \in 0..m : Done(n)}
  OBVIOUS
<1>6. 0 \in T /\ \A n \in 1..m : n - 1 \in T => n \in T
  BY <1>3, <1>4, <1>5
<1>7. m \in T
  <2>1. \A n \in 0..m : n \in T
    BY <1>6, AllTurns
  <2> QED
    BY <2>1
<1>8. Done(m)
  BY <1>5, <1>7
<1> QED
  BY <1>1, <1>8 DEF Done

LEMMA LeadLoop ==
  ASSUME NEW K, NEW J, NEW W, Fits(Tables, K, J, W), NEW b \in Blocks,
         NEW ids, NEW m \in Nat, m = Len(ids), Names(ids, J[b], K[b], m),
         NEW t, t = TakeLeads(ids, b)
  PROVE  Fits(t, K, J, W) /\ t.tab = chunktab
<1>1. PICK h : /\ h[0] = Tables
               /\ \A n \in 1..m : h[n] = TakeLead(h[n - 1], ids[n], b)
               /\ TakeLeads(ids, b) = h[m]
  BY LeadTurns
<1> J[b] = 1..m /\ \A n \in 1..m : ids[n] = chunktab[K[b][n].key]
  BY DEF Names
<1> DEFINE Led(n) == Fits(h[n], K, J, W) /\ h[n].tab = chunktab
<1> HIDE DEF Led
<1>2. Led(0)
  BY <1>1 DEF Led, Tables
<1>3. ASSUME NEW n \in 1..m, Led(n - 1) PROVE Led(n)
  <2>1. PICK s : s = h[n - 1]
    OBVIOUS
  <2>2. PICK u : u = h[n]
    OBVIOUS
  <2>3. Fits(s, K, J, W) /\ s.tab = chunktab
    BY <1>3, <2>1 DEF Led
  <2>4. n \in J[b] /\ ids[n] = s.tab[K[b][n].key]
    BY <2>3
  <2>5. u = TakeLead(s, ids[n], b)
    BY <1>1, <2>1, <2>2
  <2>6. Fits(u, K, J, W) /\ u.tab = s.tab
    <3>1. PICK i : i = ids[n]
      OBVIOUS
    <3> QED
      BY <2>3, <2>4, <2>5, <3>1, LeadStep
  <2> QED
    BY <2>2, <2>3, <2>6 DEF Led
<1>4. PICK T : T = {n \in 0..m : Led(n)}
  OBVIOUS
<1>5. 0 \in T /\ \A n \in 1..m : n - 1 \in T => n \in T
  BY <1>2, <1>3, <1>4
<1>6. m \in T
  <2>1. \A n \in 0..m : n \in T
    BY <1>5, AllTurns
  <2> QED
    BY <2>1
<1>7. Led(m)
  BY <1>4, <1>6
<1> QED
  BY <1>1, <1>7 DEF Led

-----------------------------------------------------------------------------
\* The chunks that the clean blocks have of their contents on the disk are
\* what the tables hold, and the lists of the blocks name them.
CleanIn(v, x) == x \in DOMAIN v /\ ~v[x].cdirty
CutsOf(v, d) == [x \in Blocks |-> IF CleanIn(v, x) THEN ChunksOf[d[x]] ELSE <<>>]
AllOf(K) == [x \in Blocks |-> DOMAIN K[x]]
NamesOf(s, C) == [j \in DOMAIN C |-> s.tab[C[j].key]]

EntryType == [chunkIDUList : Seq(Nat), cdirty : BOOLEAN]
Named(s, v, d) ==
  /\ v \in [DOMAIN v -> EntryType] /\ DOMAIN v \subseteq Blocks
  /\ \A x \in DOMAIN v :
       IF v[x].cdirty THEN v[x].chunkIDUList = <<>>
       ELSE /\ x \in DOMAIN d /\ d[x] \in Contents
            /\ v[x].chunkIDUList = NamesOf(s, ChunksOf[d[x]])
Mapping(s, v, d) ==
  Named(s, v, d) /\ Fits(s, CutsOf(v, d), AllOf(CutsOf(v, d)), Blocks)

LEMMA TiledChunks ==
  ASSUME NEW k \in Contents
  PROVE  /\ Tiles(ChunksOf[k], k)
         /\ ChunksOf[k] \in Seq(ChunkType)
         /\ DOMAIN ChunksOf[k] = 1..Len(ChunksOf[k]) /\ Len(ChunksOf[k]) \in Nat
         /\ \A j \in DOMAIN ChunksOf[k] : ChunksOf[k][j] \in ChunkType
<1>1. Tiles(ChunksOf[k], k)
  BY ChunkAssumption
<1>2. ChunksOf[k] \in Seq(ChunkType)
  BY <1>1 DEF Tiles, ChunkType
<1> QED
  BY <1>1, <1>2, LenProperties, ElementOfSeq

\* A list of numbers, one for each chunk.
LEMMA NamesType ==
  ASSUME NEW s, AreTables(s), NEW C \in Seq(ChunkType),
         \A j \in DOMAIN C : C[j].key \in DOMAIN s.tab
  PROVE  /\ NamesOf(s, C) \in Seq(Nat) /\ Len(NamesOf(s, C)) = Len(C)
         /\ DOMAIN NamesOf(s, C) = DOMAIN C
<1>1. DOMAIN C = 1..Len(C) /\ Len(C) \in Nat
  BY LenProperties
<1>2. \A j \in 1..Len(C) : s.tab[C[j].key] \in Nat
  BY <1>1 DEF AreTables
<1> QED
  BY <1>1, <1>2 DEF NamesOf

\* The disk may change where no clean block is.
LEMMA OtherDisk ==
  ASSUME NEW s, NEW v, NEW d, Mapping(s, v, d), NEW e,
         \A x \in DOMAIN v : CleanIn(v, x) => x \in DOMAIN e /\ e[x] = d[x]
  PROVE  Mapping(s, v, e)
<1>1. Named(s, v, e)
  BY DEF Mapping, Named, CleanIn
<1>2. CutsOf(v, e) = CutsOf(v, d)
  BY DEF CutsOf, CleanIn
<1> QED
  BY <1>1, <1>2 DEF Mapping

\* Block b is invalidated, mapped or not.
LEMMA DirtiedEntry ==
  ASSUME NEW s, NEW v, NEW d, Named(s, v, d), NEW b \in Blocks,
         NEW w, w = With(v, b, [chunkIDUList |-> <<>>, cdirty |-> TRUE])
  PROVE  /\ Named(s, w, d) /\ ~CleanIn(w, b)
         /\ \A x \in Blocks : x # b => (CleanIn(w, x) <=> CleanIn(v, x))
<1>1. DOMAIN w = DOMAIN v \cup {b}
  BY DEF With
<1>2. w[b] = [chunkIDUList |-> <<>>, cdirty |-> TRUE] /\ w[b] \in EntryType
  <2>1. [chunkIDUList |-> <<>>, cdirty |-> TRUE] \in EntryType
    BY DEF EntryType
  <2>2. w[b] = [chunkIDUList |-> <<>>, cdirty |-> TRUE]
    BY DEF With
  <2> QED
    BY <2>1, <2>2
<1>3. \A x \in DOMAIN v : x # b => w[x] = v[x]
  BY DEF With
<1>4. w \in [DOMAIN w -> EntryType]
  <2>1. \A x \in DOMAIN w : w[x] \in EntryType
    BY <1>1, <1>2, <1>3 DEF Named
  <2>2. w = [x \in DOMAIN w |-> w[x]]
    BY DEF With
  <2> QED
    BY <2>1, <2>2
<1>5. ASSUME NEW x \in DOMAIN w
      PROVE  IF w[x].cdirty THEN w[x].chunkIDUList = <<>>
             ELSE /\ x \in DOMAIN d /\ d[x] \in Contents
                  /\ w[x].chunkIDUList = NamesOf(s, ChunksOf[d[x]])
  <2>1. CASE x = b
    BY <1>2, <2>1
  <2>2. CASE x # b
    BY <1>1, <1>3, <2>2 DEF Named
  <2> QED
    BY <2>1, <2>2
<1>6. Named(s, w, d)
  BY <1>1, <1>4, <1>5 DEF Named
<1>7. ~CleanIn(w, b)
  BY <1>2 DEF CleanIn
<1>8. \A x \in Blocks : x # b => (CleanIn(w, x) <=> CleanIn(v, x))
  BY <1>1, <1>3 DEF CleanIn
<1> QED
  BY <1>6, <1>7, <1>8

LEMMA UnmappedTrimmed ==
  ASSUME NEW s, NEW v, NEW d, Mapping(s, v, d), NEW b \in Blocks, b \notin DOMAIN v,
         NEW w, w = With(v, b, [chunkIDUList |-> <<>>, cdirty |-> TRUE])
  PROVE  Mapping(s, w, d) /\ ~CleanIn(w, b)
<1>1. /\ Named(s, w, d) /\ ~CleanIn(w, b)
      /\ \A x \in Blocks : x # b => (CleanIn(w, x) <=> CleanIn(v, x))
  BY DirtiedEntry DEF Mapping
<1>2. ~CleanIn(v, b)
  BY DEF CleanIn
<1>3. CutsOf(w, d) = CutsOf(v, d)
  BY <1>1, <1>2 DEF CutsOf
<1> QED
  BY <1>1, <1>3 DEF Mapping

\* Other tables that have the keys of the chunks, under the same numbers.
LEMMA SameNames ==
  ASSUME NEW s, NEW t, NEW v, NEW d, Named(s, v, d),
         \A x \in DOMAIN v : CleanIn(v, x) => \A j \in DOMAIN ChunksOf[d[x]] :
           s.tab[ChunksOf[d[x]][j].key] = t.tab[ChunksOf[d[x]][j].key]
  PROVE  Named(t, v, d)
<1>1. ASSUME NEW x \in DOMAIN v, ~v[x].cdirty
      PROVE  NamesOf(t, ChunksOf[d[x]]) = NamesOf(s, ChunksOf[d[x]])
  BY <1>1 DEF NamesOf, CleanIn
<1> QED
  BY <1>1 DEF Named

\* What the tables have of a clean block.
LEMMA CleanBlock ==
  ASSUME NEW s, NEW v, NEW d, Mapping(s, v, d), NEW b \in Blocks, CleanIn(v, b)
  PROVE  LET K == CutsOf(v, d)
             ids == v[b].chunkIDUList
         IN  /\ b \in DOMAIN d /\ d[b] \in Contents
             /\ K[b] = ChunksOf[d[b]] /\ ids = NamesOf(s, K[b])
             /\ Len(ids) = Len(K[b]) /\ Len(ids) \in Nat
             /\ AllOf(K)[b] = 1..Len(ids) /\ DOMAIN K[b] = 1..Len(ids)
             /\ \A n \in 1..Len(ids) : ids[n] = s.tab[K[b][n].key]
             /\ \A n \in 1..Len(ids) : K[b][n].key \in DOMAIN s.tab
<1> DEFINE K == CutsOf(v, d)
           ids == v[b].chunkIDUList
<1>1. /\ b \in DOMAIN d /\ d[b] \in Contents
      /\ K[b] = ChunksOf[d[b]] /\ ids = NamesOf(s, K[b])
  BY DEF Mapping, Named, CleanIn, CutsOf
<1>2. K[b] \in Seq(ChunkType) /\ DOMAIN K[b] = 1..Len(K[b]) /\ Len(K[b]) \in Nat
  BY <1>1, TiledChunks
<1>3. AllOf(K)[b] = DOMAIN K[b]
  BY DEF AllOf
<1>4. \A n \in DOMAIN K[b] : K[b][n].key \in DOMAIN s.tab
  BY <1>3 DEF Mapping, Fits, KeysKnown
<1>5. AreTables(s)
  BY DEF Mapping, Fits, Sound
<1>6. Len(ids) = Len(K[b])
  BY <1>1, <1>2, <1>4, <1>5, NamesType
<1>7. \A n \in DOMAIN K[b] : ids[n] = s.tab[K[b][n].key]
  BY <1>1 DEF NamesOf
<1> QED
  BY <1>1, <1>2, <1>3, <1>4, <1>6, <1>7

LEMMA NothingCut ==
  ASSUME NEW s, NEW v, NEW d, Mapping(s, v, d), NEW b \in Blocks, ~CleanIn(v, b)
  PROVE  CutsOf(v, d)[b] = <<>> /\ AllOf(CutsOf(v, d))[b] = {}
BY DEF CutsOf, AllOf

\* A clean block is trimmed.
LEMMA CleanTrimmed ==
  ASSUME Mapping(Tables, v2c, disk), NEW b \in Blocks, Clean(b),
         NEW t, t = ResetMappings(v2c[b].chunkIDUList, b),
         NEW w, w = With(v2c, b, [chunkIDUList |-> <<>>, cdirty |-> TRUE])
  PROVE  Mapping(t, w, disk) /\ ~CleanIn(w, b)
<1>1. PICK K : K = CutsOf(v2c, disk)
  OBVIOUS
<1>2. PICK J : J = AllOf(K)
  OBVIOUS
<1>3. PICK ids : ids = v2c[b].chunkIDUList
  OBVIOUS
<1>4. PICK m \in Nat : m = Len(ids) /\ J[b] = 1..m
  <2>1. CleanIn(v2c, b)
    BY DEF Clean, Mapped, CleanIn
  <2> QED
    BY <1>1, <1>2, <1>3, <2>1, CleanBlock
<1>5. \A n \in 1..m : ids[n] = chunktab[K[b][n].key]
  <2>1. CleanIn(v2c, b)
    BY DEF Clean, Mapped, CleanIn
  <2>2. \A n \in 1..m : ids[n] = Tables.tab[K[b][n].key]
    BY <1>1, <1>3, <1>4, <2>1, CleanBlock
  <2> QED
    BY <2>2 DEF Tables
<1>6. Fits(Tables, K, J, Blocks)
  BY <1>1, <1>2 DEF Mapping
<1> Names(ids, J[b], K[b], m)
  BY <1>4, <1>5 DEF Names
<1>7. PICK L : L = [J EXCEPT ![b] = {}]
  OBVIOUS
<1>8. Fits(t, K, L, Blocks \ {b}) /\ Keeps(Tables, t)
  <2>1. t = ResetMappings(ids, b)
    BY <1>3
  <2> QED
    BY <1>4, <1>6, <1>7, <2>1, ResetLoop
<1>9. PICK M : M = [K EXCEPT ![b] = <<>>]
  OBVIOUS
<1>10. DOMAIN K = Blocks /\ DOMAIN J = Blocks /\ L[b] = {}
  BY <1>1, <1>2, <1>7 DEF CutsOf, AllOf
<1>11. <<>> \in Seq(ChunkType)
  OBVIOUS
<1>12. Fits(t, M, L, (Blocks \ {b}) \cup {b})
  BY <1>8, <1>9, <1>10, <1>11, Recut
<1>13. (Blocks \ {b}) \cup {b} = Blocks
  OBVIOUS
<1>14. Fits(t, M, L, Blocks)
  BY <1>12, <1>13, Zenon
<1>15. /\ Named(Tables, w, disk) /\ ~CleanIn(w, b)
       /\ \A x \in Blocks : x # b => (CleanIn(w, x) <=> CleanIn(v2c, x))
  BY DirtiedEntry DEF Mapping
<1>16. M = CutsOf(w, disk)
  <2>1. \A x \in Blocks : x # b => M[x] = K[x]
    BY <1>9, <1>10
  <2>2. \A x \in Blocks : M[x] = IF CleanIn(w, x) THEN ChunksOf[disk[x]] ELSE <<>>
    BY <1>1, <1>9, <1>10, <1>15, <2>1 DEF CutsOf
  <2>3. M = [x \in Blocks |-> M[x]]
    BY <1>9, <1>10
  <2> QED
    BY <2>2, <2>3 DEF CutsOf
<1>17. L = AllOf(M)
  <2>1. DOMAIN <<>> = {}
    OBVIOUS
  <2>2. \A x \in Blocks : L[x] = DOMAIN M[x]
    BY <1>2, <1>7, <1>9, <1>10, <2>1 DEF AllOf
  <2>3. L = [x \in Blocks |-> L[x]]
    BY <1>7, <1>10
  <2> QED
    BY <2>2, <2>3 DEF AllOf
<1>18. ASSUME NEW x \in DOMAIN w, CleanIn(w, x), NEW j \in DOMAIN ChunksOf[disk[x]]
       PROVE  Tables.tab[ChunksOf[disk[x]][j].key] = t.tab[ChunksOf[disk[x]][j].key]
  <2>1. x \in Blocks /\ M[x] = ChunksOf[disk[x]]
    BY <1>15, <1>16, <1>18 DEF Named, CutsOf
  <2>2. j \in L[x]
    BY <1>17, <2>1 DEF AllOf
  <2>3. M[x][j].key \in DOMAIN t.tab
    BY <1>14, <2>1, <2>2 DEF Fits, KeysKnown
  <2> QED
    BY <1>8, <2>1, <2>3 DEF Keeps
<1>19. Named(t, w, disk)
  BY <1>15, <1>18, SameNames
<1> QED
  BY <1>14, <1>15, <1>16, <1>17, <1>19 DEF Mapping

\* A block whose content is on the disk is chunked.
LEMMA BlockLearned ==
  ASSUME Mapping(Tables, v2c, disk), NEW b \in Blocks, ~Clean(b),
         NEW k \in Contents, b \in DOMAIN disk, disk[b] = k,
         NEW t, t = ResumeChunking(ChunksOf[k], b),
         NEW w, w = With(v2c, b, [chunkIDUList |-> NamesOf(t, ChunksOf[k]), cdirty |-> FALSE])
  PROVE  Mapping(t, w, disk)
<1>1. PICK K : K = CutsOf(v2c, disk)
  OBVIOUS
<1>2. PICK J : J = AllOf(K)
  OBVIOUS
<1>3. ~CleanIn(v2c, b)
  BY DEF Clean, Mapped, CleanIn
<1>4. J[b] = {} /\ DOMAIN K = Blocks /\ DOMAIN J = Blocks
  BY <1>1, <1>2, <1>3, NothingCut DEF CutsOf, AllOf
<1>5. PICK C : C = ChunksOf[k]
  OBVIOUS
<1>6. PICK m \in Nat : m = Len(C) /\ DOMAIN C = 1..m
  BY <1>5, TiledChunks
<1>7. C \in Seq(ChunkType)
  BY <1>5, TiledChunks
<1>8. PICK M : M = [K EXCEPT ![b] = C]
  OBVIOUS
<1>9. Fits(Tables, M, J, Blocks)
  <2>1. Fits(Tables, K, J, Blocks)
    BY <1>1, <1>2 DEF Mapping
  <2>2. Fits(Tables, M, J, Blocks \cup {b})
    BY <1>4, <1>7, <1>8, <2>1, Recut
  <2>3. Blocks \cup {b} = Blocks
    OBVIOUS
  <2> QED
    BY <2>2, <2>3, Zenon
<1>10. PICK L : L = [J EXCEPT ![b] = 1..m]
  OBVIOUS
<1>11. Fits(t, M, L, Blocks) /\ Keeps(t, Tables)
  <2>1. C = M[b] /\ t = ResumeChunking(C, b)
    BY <1>4, <1>5, <1>8
  <2> QED
    BY <1>4, <1>6, <1>9, <1>10, <2>1, ChunkLoop
<1>12. PICK ids : ids = NamesOf(t, C)
  OBVIOUS
<1>13. ids \in Seq(Nat)
  <2>1. AreTables(t)
    BY <1>11 DEF Fits, Sound
  <2>2. \A j \in DOMAIN C : C[j].key \in DOMAIN t.tab
    <3>1. M[b] = C /\ L[b] = DOMAIN C
      BY <1>4, <1>6, <1>8, <1>10
    <3> QED
      BY <1>11, <3>1 DEF Fits, KeysKnown
  <2> QED
    BY <1>7, <1>12, <2>1, <2>2, NamesType
<1>14. w = With(v2c, b, [chunkIDUList |-> ids, cdirty |-> FALSE])
  BY <1>5, <1>12
<1>15. ASSUME NEW x \in DOMAIN v2c, CleanIn(v2c, x), NEW j \in DOMAIN ChunksOf[disk[x]]
       PROVE  Tables.tab[ChunksOf[disk[x]][j].key] = t.tab[ChunksOf[disk[x]][j].key]
  <2>1. x \in Blocks /\ K[x] = ChunksOf[disk[x]]
    BY <1>1, <1>15 DEF Mapping, Named, CutsOf
  <2>2. j \in J[x]
    BY <1>2, <2>1 DEF AllOf
  <2>3. K[x][j].key \in DOMAIN Tables.tab
    BY <1>1, <1>2, <2>1, <2>2 DEF Mapping, Fits, KeysKnown
  <2> QED
    BY <1>11, <2>1, <2>3 DEF Keeps
<1>16. Named(t, v2c, disk)
  BY <1>15, SameNames DEF Mapping
<1>17. DOMAIN w = DOMAIN v2c \cup {b} /\ \A x \in DOMAIN v2c : x # b => w[x] = v2c[x]
  BY <1>14 DEF With
<1>18. w[b].chunkIDUList = ids /\ w[b].cdirty = FALSE /\ w[b] \in EntryType
  <2>1. PICK r : r = [chunkIDUList |-> ids, cdirty |-> FALSE]
    OBVIOUS
  <2>2. w[b] = r
    BY <1>14, <2>1 DEF With
  <2>3. r \in EntryType /\ r.chunkIDUList = ids /\ r.cdirty = FALSE
    BY <1>13, <2>1 DEF EntryType
  <2> QED
    BY <2>2, <2>3
<1>19. Named(t, w, disk)
  <2>1. w \in [DOMAIN w -> EntryType]
    <3>1. \A x \in DOMAIN w : w[x] \in EntryType
      BY <1>16, <1>17, <1>18 DEF Named
    <3>2. w = [x \in DOMAIN w |-> w[x]]
      BY <1>14 DEF With
    <3> QED
      BY <3>1, <3>2
  <2>2. ASSUME NEW x \in DOMAIN w
        PROVE  IF w[x].cdirty THEN w[x].chunkIDUList = <<>>
               ELSE /\ x \in DOMAIN disk /\ disk[x] \in Contents
                    /\ w[x].chunkIDUList = NamesOf(t, ChunksOf[disk[x]])
    <3>1. CASE x = b
      BY <1>5, <1>12, <1>18, <3>1
    <3>2. CASE x # b
      BY <1>16, <1>17, <3>2 DEF Named
    <3> QED
      BY <3>1, <3>2
  <2> QED
    BY <1>16, <1>17, <2>1, <2>2 DEF Named
<1>20. M = CutsOf(w, disk)
  <2>1. \A x \in Blocks : x # b => (CleanIn(w, x) <=> CleanIn(v2c, x))
    BY <1>17 DEF CleanIn
  <2>2. CleanIn(w, b)
    BY <1>17, <1>18 DEF CleanIn
  <2>3. M[b] = ChunksOf[disk[b]] /\ \A x \in Blocks : x # b => M[x] = K[x]
    BY <1>4, <1>5, <1>8
  <2>4. \A x \in Blocks : M[x] = IF CleanIn(w, x) THEN ChunksOf[disk[x]] ELSE <<>>
    BY <1>1, <2>1, <2>2, <2>3 DEF CutsOf
  <2>5. M = [x \in Blocks |-> M[x]]
    BY <1>4, <1>8
  <2> QED
    BY <2>4, <2>5 DEF CutsOf
<1>21. L = AllOf(M)
  <2>1. \A x \in Blocks : L[x] = DOMAIN M[x]
    BY <1>2, <1>4, <1>6, <1>8, <1>10 DEF AllOf
  <2>2. L = [x \in Blocks |-> L[x]]
    BY <1>4, <1>10
  <2> QED
    BY <2>1, <2>2 DEF AllOf
<1> QED
  BY <1>11, <1>19, <1>20, <1>21 DEF Mapping

\* A block becomes the one to fetch each of its chunks from.
LEMMA BlockLeads ==
  ASSUME Mapping(Tables, v2c, disk), NEW b \in Blocks, Clean(b),
         NEW t, t = TakeLeads(v2c[b].chunkIDUList, b)
  PROVE  Mapping(t, v2c, disk) /\ t.tab = chunktab
<1>1. PICK K : K = CutsOf(v2c, disk)
  OBVIOUS
<1>2. PICK J : J = AllOf(K)
  OBVIOUS
<1>3. PICK ids : ids = v2c[b].chunkIDUList
  OBVIOUS
<1>4. CleanIn(v2c, b)
  BY DEF Clean, Mapped, CleanIn
<1>5. PICK m \in Nat : m = Len(ids) /\ J[b] = 1..m
  BY <1>1, <1>2, <1>3, <1>4, CleanBlock
<1>6. \A n \in 1..m : ids[n] = chunktab[K[b][n].key]
  <2>1. \A n \in 1..m : ids[n] = Tables.tab[K[b][n].key]
    BY <1>1, <1>3, <1>4, <1>5, CleanBlock
  <2> QED
    BY <2>1 DEF Tables
<1>7. Fits(Tables, K, J, Blocks)
  BY <1>1, <1>2 DEF Mapping
<1>8. t = TakeLeads(ids, b) /\ Names(ids, J[b], K[b], m)
  BY <1>3, <1>5, <1>6 DEF Names
<1>9. Fits(t, K, J, Blocks) /\ t.tab = chunktab
  BY <1>5, <1>6, <1>7, <1>8, LeadLoop
<1>10. Named(t, v2c, disk)
  <2>1. Tables.tab = t.tab
    BY <1>9 DEF Tables
  <2> QED
    BY <2>1, SameNames DEF Mapping
<1> QED
  BY <1>1, <1>2, <1>9, <1>10 DEF Mapping

-----------------------------------------------------------------------------
\* The operations of the metadata.
ChunkInv == Mapping(Tables, v2c, disk)

LEMMA TablesSet ==
  ASSUME NEW t, AreTables(t), SetTables(t)
  PROVE  Tables' = t
BY DEF AreTables, SetTables, Tables

LEMMA MappingHolds ==
  ASSUME NEW t, NEW w, Mapping(t, w, disk), SetTables(t), v2c' = w, disk' = disk
  PROVE  ChunkInv'
<1>1. AreTables(t)
  BY DEF Mapping, Fits, Sound
<1>2. Tables' = t
  BY <1>1, TablesSet
<1>3. Mapping(Tables', v2c', disk')
  BY <1>2
<1> QED
  BY <1>3 DEF ChunkInv

LEMMA TrimKeepsMaps ==
  ASSUME ChunkInv, NEW b \in Blocks, Trim(b), disk' = disk
  PROVE  ChunkInv' /\ ~CleanIn(v2c', b)
<1>1. AreTables(Tables)
  BY DEF ChunkInv, Mapping, Fits, Sound
<1>2. CASE TrimUnmapped(b)
  <2>1. PICK w : w = With(v2c, b, [chunkIDUList |-> <<>>, cdirty |-> TRUE])
    OBVIOUS
  <2>2. v2c' = w /\ b \notin DOMAIN v2c
    BY <1>2, <2>1 DEF TrimUnmapped, Mapped
  <2>3. SetTables(Tables)
    BY <1>2 DEF TrimUnmapped, SetTables, Tables
  <2>4. Mapping(Tables, w, disk) /\ ~CleanIn(w, b)
    BY <2>1, <2>2, UnmappedTrimmed DEF ChunkInv
  <2> QED
    BY <2>2, <2>3, <2>4, MappingHolds
<1>3. CASE TrimDirty(b)
  <2>1. v2c' = v2c /\ SetTables(Tables) /\ ~CleanIn(v2c, b)
    BY <1>3 DEF TrimDirty, chunkVars, SetTables, Tables, Dirty, CleanIn
  <2> QED
    BY <2>1, MappingHolds DEF ChunkInv
<1>4. CASE TrimClean(b)
  <2>1. PICK w : w = With(v2c, b, [chunkIDUList |-> <<>>, cdirty |-> TRUE])
    OBVIOUS
  <2>2. PICK t : t = ResetMappings(v2c[b].chunkIDUList, b)
    OBVIOUS
  <2>3. Clean(b) /\ SetTables(t)
    BY <1>4, <2>2 DEF TrimClean
  <2>4. v2c' = w
    <3>1. b \in DOMAIN v2c /\ DOMAIN v2c \cup {b} = DOMAIN v2c
      BY <2>3 DEF Clean, Mapped
    <3>2. v2c' = [v2c EXCEPT ![b] = [chunkIDUList |-> <<>>, cdirty |-> TRUE]]
      BY <1>4 DEF TrimClean
    <3>3. v2c = [x \in DOMAIN v2c |-> v2c[x]]
      BY DEF ChunkInv, Mapping, Named
    <3> QED
      BY <2>1, <3>1, <3>2, <3>3 DEF With
  <2>5. Mapping(t, w, disk) /\ ~CleanIn(w, b)
    BY <2>1, <2>2, <2>3, CleanTrimmed DEF ChunkInv
  <2> QED
    BY <2>3, <2>4, <2>5, MappingHolds
<1> QED
  BY <1>2, <1>3, <1>4 DEF Trim

LEMMA LearnKeepsMaps ==
  ASSUME ChunkInv, NEW b \in Blocks, NEW k \in Contents, Learn(b, k),
         b \in DOMAIN disk, disk[b] = k, disk' = disk
  PROVE  ChunkInv'
<1>1. PICK t : t = ResumeChunking(ChunksOf[k], b)
  OBVIOUS
<1>2. PICK w : w = With(v2c, b, [chunkIDUList |-> NamesOf(t, ChunksOf[k]), cdirty |-> FALSE])
  OBVIOUS
<1>3. ~Clean(b) /\ SetTables(t) /\ v2c' = w
  BY <1>1, <1>2 DEF Learn, NamesOf
<1>4. Mapping(t, w, disk)
  BY <1>1, <1>2, <1>3, BlockLearned DEF ChunkInv
<1> QED
  BY <1>3, <1>4, MappingHolds

LEMMA LeadKeepsMaps ==
  ASSUME ChunkInv, NEW b \in Blocks, UpdateDedupfetch(b), disk' = disk
  PROVE  ChunkInv'
<1>1. PICK t : t = TakeLeads(v2c[b].chunkIDUList, b)
  OBVIOUS
<1>2. Clean(b) /\ SetTables(t) /\ v2c' = v2c
  BY <1>1 DEF UpdateDedupfetch
<1>3. Mapping(t, v2c, disk)
  BY <1>1, <1>2, BlockLeads DEF ChunkInv
<1> QED
  BY <1>2, <1>3, MappingHolds

-----------------------------------------------------------------------------
\* What the invariant of the metadata means.
LEMMA EndsOfChunks ==
  ASSUME NEW k \in Contents, NEW C, C = ChunksOf[k]
  PROVE  /\ \A n \in 0..Len(C) : End(C, n) \in Nat /\ End(C, n) <= BlockSize
         /\ \A n \in 1..Len(C) :
              /\ C[n].offset = End(C, n - 1) /\ Len(C[n].key) \in Nat \ {0}
              /\ End(C, n) = End(C, n - 1) + Len(C[n].key)
              /\ C[n].key = SubSeq(k, End(C, n - 1) + 1, End(C, n))
         /\ End(C, Len(C)) = BlockSize
<1>1. Tiles(C, k) /\ C \in Seq(ChunkType) /\ DOMAIN C = 1..Len(C) /\ Len(C) \in Nat
  BY TiledChunks
<1>2. ASSUME NEW n \in 1..Len(C)
      PROVE  /\ C[n].offset = End(C, n - 1) /\ C[n].offset \in Nat
             /\ Len(C[n].key) \in Nat \ {0}
             /\ End(C, n) = C[n].offset + Len(C[n].key)
             /\ C[n].key = SubSeq(k, End(C, n - 1) + 1, End(C, n))
  <2>1. C[n] \in ChunkType
    BY <1>1, ElementOfSeq
  <2>2. C[n].key \in Seq(Letters) /\ C[n].offset \in Nat
    BY <2>1, ChunkAssumption DEF ChunkType
  <2>3. /\ C[n].offset = End(C, n - 1) /\ Len(C[n].key) > 0
        /\ C[n].key = SubSeq(k, End(C, n - 1) + 1, End(C, n))
    BY <1>1 DEF Tiles
  <2>4. End(C, n) = C[n].offset + Len(C[n].key)
    BY DEF End
  <2>5. Len(C[n].key) \in Nat
    BY <2>2, LenProperties
  <2>6. Len(C[n].key) \in Nat \ {0}
    <3>1. PICK l \in Nat : l = Len(C[n].key)
      BY <2>5
    <3>2. l > 0
      BY <2>3, <3>1, Zenon
    <3> QED
      BY <3>1, <3>2
  <2> QED
    BY <2>2, <2>3, <2>4, <2>6, Zenon
<1>3. End(C, 0) = 0
  BY DEF End
<1>4. ASSUME NEW n \in 0..Len(C) PROVE End(C, n) \in Nat
  <2>1. CASE n = 0
    BY <1>3, <2>1
  <2>2. CASE n # 0
    <3>1. PICK j \in 1..Len(C) : j = n
      BY <1>1, <2>2
    <3>2. /\ C[j].offset \in Nat /\ Len(C[j].key) \in Nat
          /\ End(C, j) = C[j].offset + Len(C[j].key)
      BY <1>2
    <3> QED
      BY <3>1, <3>2
  <2> QED
    BY <2>1, <2>2
<1>5. End(C, Len(C)) = BlockSize
  BY <1>1 DEF Tiles
<1>6. ASSUME NEW n \in 0..Len(C) PROVE End(C, n) <= BlockSize
  <2>1. CASE n = Len(C)
    BY <1>5, <2>1, ChunkAssumption
  <2>2. CASE n # Len(C)
    <3>1. n + 1 \in 1..Len(C) /\ (n + 1) - 1 = n
      BY <1>1, <2>2
    <3>2. C[n + 1].offset = End(C, n) /\ C[n + 1] \in ChunkType
      BY <1>1, <1>2, <3>1, ElementOfSeq
    <3> QED
      BY <3>2, ChunkAssumption DEF ChunkType
  <2> QED
    BY <2>1, <2>2
<1> QED
  BY <1>2, <1>4, <1>5, <1>6

\* The letters before a chunk are those that the chunks before it have.
LEMMA LettersBefore ==
  ASSUME ChunkInv, NEW b \in Blocks, Clean(b),
         NEW ids, ids = v2c[b].chunkIDUList, NEW C, C = ChunksOf[disk[b]]
  PROVE  \A n \in 0..Len(ids) : LettersIn(ids)[n] = End(C, n)
<1>1. /\ b \in DOMAIN disk /\ disk[b] \in Contents
      /\ Len(ids) = Len(C) /\ Len(ids) \in Nat
      /\ \A n \in 1..Len(ids) : ids[n] = chunktab[C[n].key]
      /\ \A n \in 1..Len(ids) : C[n].key \in DOMAIN chunktab
  <2>1. CleanIn(v2c, b)
    BY DEF Clean, Mapped, CleanIn
  <2>2. Tables.tab = chunktab
    BY DEF Tables
  <2>3. PICK s : s = Tables
    OBVIOUS
  <2>4. Mapping(s, v2c, disk)
    BY <2>3 DEF ChunkInv
  <2>5. CutsOf(v2c, disk)[b] = C
    BY <2>1, <2>4, CleanBlock
  <2> QED
    BY <2>1, <2>2, <2>3, <2>4, <2>5, CleanBlock
<1>2. PICK m \in Nat : m = Len(ids)
  BY <1>1
<1>3. PICK h : /\ h[0] = 0
               /\ \A n \in 1..m : h[n] = h[n - 1] + Len(chunkmap[ids[n]].chashkey)
               /\ LettersIn(ids) = h
  BY <1>2, SumTurns
<1>4. \A n \in 1..m : chunkmap[ids[n]].chashkey = C[n].key
  <2>1. KeysFound(Tables)
    BY DEF ChunkInv, Mapping, Fits, Sound
  <2> QED
    BY <1>1, <1>2, <2>1 DEF KeysFound, KeyIn, Tables
<1>5. PICK T : T = {n \in 0..m : h[n] = End(C, n)}
  OBVIOUS
<1>6. 0 \in T
  BY <1>3, <1>5 DEF End
<1>7. ASSUME NEW n \in 1..m, n - 1 \in T PROVE n \in T
  <2>1. h[n - 1] = End(C, n - 1)
    BY <1>5, <1>7
  <2>2. End(C, n) = End(C, n - 1) + Len(C[n].key)
    <3>1. PICK k \in Contents : k = disk[b]
      BY <1>1
    <3>2. C = ChunksOf[k]
      BY <3>1
    <3>3. \A j \in 1..Len(C) : End(C, j) = End(C, j - 1) + Len(C[j].key)
      BY <3>2, EndsOfChunks
    <3> QED
      BY <1>1, <1>2, <3>3
  <2>3. h[n] = End(C, n)
    <3>1. h[n] = h[n - 1] + Len(chunkmap[ids[n]].chashkey)
      BY <1>3
    <3>2. chunkmap[ids[n]].chashkey = C[n].key
      BY <1>4
    <3> QED
      BY <2>1, <2>2, <3>1, <3>2, Zenon
  <2> QED
    BY <1>5, <2>3
<1>8. \A n \in 0..m : n \in T
  BY <1>6, <1>7, AllTurns
<1> QED
  BY <1>2, <1>3, <1>5, <1>8

LEMMA ListsInverse == ChunkInv => ListsAgree
<1> SUFFICES ASSUME ChunkInv PROVE ListsAgree
  OBVIOUS
<1>1. PICK s : s = Tables
  OBVIOUS
<1>2. PICK K : K = CutsOf(v2c, disk)
  OBVIOUS
<1>3. s.map = chunkmap /\ s.tab = chunktab
  BY <1>1 DEF Tables
<1>4. Mapping(s, v2c, disk) /\ Fits(s, K, AllOf(K), Blocks) /\ KeysFound(s)
  BY <1>1, <1>2 DEF ChunkInv, Mapping, Fits, Sound
<1>5. ASSUME NEW b \in DOMAIN v2c, Dirty(b) PROVE v2c[b].chunkIDUList = <<>>
  BY <1>4, <1>5 DEF Mapping, Named, Dirty
<1>6. ASSUME NEW b \in DOMAIN v2c, NEW j \in DOMAIN v2c[b].chunkIDUList,
             NEW i, i = v2c[b].chunkIDUList[j]
      PROVE  /\ i \in Ids
             /\ \E p \in PlacesOf(chunkmap[i].c2vmaps, b) :
                  chunkmap[i].c2vmaps[p].offset = LettersIn(v2c[b].chunkIDUList)[j - 1]
  <2>1. b \in Blocks /\ CleanIn(v2c, b) /\ Clean(b)
    <3>1. DOMAIN <<>> = {}
      OBVIOUS
    <3> QED
      BY <1>4, <1>6, <3>1 DEF Mapping, Named, CleanIn, Clean, Mapped
  <2>2. PICK ids : ids = v2c[b].chunkIDUList
    OBVIOUS
  <2>3. PICK C : C = ChunksOf[disk[b]]
    OBVIOUS
  <2>4. PICK m : m = Len(ids)
    OBVIOUS
  <2>5. /\ disk[b] \in Contents /\ K[b] = C /\ m \in Nat /\ Len(C) = m
        /\ AllOf(K)[b] = 1..m
        /\ \A n \in 1..m : ids[n] = s.tab[C[n].key]
        /\ \A n \in 1..m : C[n].key \in DOMAIN s.tab
    BY <1>2, <1>4, <2>1, <2>2, <2>3, <2>4, CleanBlock
  <2>6. DOMAIN ids = 1..m
    BY <1>4, <2>1, <2>2, <2>3, <2>5, TiledChunks DEF Mapping, Named, CleanIn, NamesOf
  <2>7. j \in 1..m /\ i = s.tab[C[j].key]
    BY <1>6, <2>2, <2>5, <2>6
  <2>8. i \in Ids
    BY <1>3, <1>4, <2>5, <2>7 DEF KeysFound, Ids
  <2>9. Holds(ListIn(s, i), b, C[j].offset)
    BY <1>4, <2>1, <2>5, <2>7 DEF Fits, PlacesFound
  <2>10. LettersIn(ids)[j - 1] = End(C, j - 1)
    <3>1. j - 1 \in 0..m
      BY <2>5, <2>7
    <3>2. \A n \in 0..m : LettersIn(ids)[n] = End(C, n)
      BY <2>1, <2>2, <2>3, <2>4, LettersBefore
    <3> QED
      BY <3>1, <3>2
  <2>11. C[j].offset = End(C, j - 1)
    <3>1. PICK k \in Contents : k = disk[b]
      BY <2>5
    <3>2. \A n \in 1..Len(C) : C[n].offset = End(C, n - 1)
      BY <2>3, <3>1, EndsOfChunks
    <3> QED
      BY <2>5, <2>7, <3>2
  <2>12. ListIn(s, i) = chunkmap[i].c2vmaps
    BY <1>3 DEF ListIn
  <2>13. PICK p \in DOMAIN ListIn(s, i) :
           ListIn(s, i)[p].blockID = b /\ ListIn(s, i)[p].offset = C[j].offset
    BY <2>9 DEF Holds
  <2>14. /\ p \in PlacesOf(chunkmap[i].c2vmaps, b)
         /\ chunkmap[i].c2vmaps[p].offset = LettersIn(ids)[j - 1]
    BY <2>10, <2>11, <2>12, <2>13 DEF PlacesOf
  <2> QED
    BY <2>2, <2>8, <2>14, Zenon
<1>7. ASSUME NEW i \in Ids, NEW b \in Blocks
      PROVE  Cardinality(PlacesOf(chunkmap[i].c2vmaps, b)) =
               IF Clean(b) THEN Cardinality({j \in DOMAIN v2c[b].chunkIDUList :
                                               v2c[b].chunkIDUList[j] = i})
               ELSE 0
  <2>1. Times(ListIn(s, i), b) = Cardinality(Spots(K[b], AllOf(K)[b], KeyIn(s, i)))
    BY <1>3, <1>4 DEF Fits, TimesRight, Ids
  <2>2. Times(ListIn(s, i), b) = Cardinality(PlacesOf(chunkmap[i].c2vmaps, b))
    BY <1>3 DEF Times, ListIn
  <2>3. CASE ~Clean(b)
    <3>1. AllOf(K)[b] = {}
      BY <1>2, <1>4, <2>3, NothingCut DEF Clean, Mapped, CleanIn
    <3>2. Spots(K[b], AllOf(K)[b], KeyIn(s, i)) = {}
      BY <3>1 DEF Spots
    <3> QED
      BY <2>1, <2>2, <2>3, <3>2, FS_EmptySet
  <2>4. CASE Clean(b)
    <3>1. CleanIn(v2c, b)
      BY <2>4 DEF Clean, Mapped, CleanIn
    <3>2. PICK ids : ids = v2c[b].chunkIDUList
      OBVIOUS
    <3>3. PICK m : m = Len(ids)
      OBVIOUS
    <3>4. /\ ids = NamesOf(s, K[b]) /\ m \in Nat
          /\ AllOf(K)[b] = 1..m /\ DOMAIN K[b] = 1..m
          /\ \A n \in 1..m : ids[n] = s.tab[K[b][n].key]
          /\ \A n \in 1..m : K[b][n].key \in DOMAIN s.tab
      BY <1>2, <1>4, <3>1, <3>2, <3>3, CleanBlock
    <3>5. DOMAIN ids = 1..m
      BY <3>4 DEF NamesOf
    <3>6. \A n \in 1..m : K[b][n].key = KeyIn(s, i) <=> ids[n] = i
      BY <1>3, <1>4, <3>4 DEF KeysFound, Ids
    <3>7. Spots(K[b], AllOf(K)[b], KeyIn(s, i)) = {j \in DOMAIN ids : ids[j] = i}
      BY <3>4, <3>5, <3>6 DEF Spots
    <3> QED
      BY <2>1, <2>2, <2>4, <3>2, <3>7
  <2> QED
    BY <2>3, <2>4
<1> QED
  BY <1>5, <1>6, <1>7 DEF ListsAgree

LEMMA NumbersAdd ==
  ASSUME NEW r \in Seq(Nat), IsInjective(r), NEW I, NEW n \in Nat, 2 <= n,
         I \cup ToSet(r) = 3..n, I \cap ToSet(r) = {}
  PROVE  Len(r) + Cardinality(I) = n - 2
<1>1. DOMAIN r = 1..Len(r) /\ Len(r) \in Nat
  BY LenProperties
<1>2. PICK R : R = ToSet(r)
  OBVIOUS
<1>3. IsFiniteSet(1..Len(r)) /\ Cardinality(1..Len(r)) = Len(r)
  <2>1. PICK m \in Nat : m = Len(r)
    BY <1>1
  <2>2. IsFiniteSet(1..m) /\ Cardinality(1..m) = IF 1 > m THEN 0 ELSE m - 1 + 1
    BY FS_Interval
  <2>3. (IF 1 > m THEN 0 ELSE m - 1 + 1) = m
    OBVIOUS
  <2> QED
    BY <2>1, <2>2, <2>3
<1>4. IsFiniteSet(R) /\ Cardinality(R) = Len(r)
  <2>1. r \in [1..Len(r) -> R]
    BY <1>1, <1>2 DEF ToSet
  <2>2. \A x \in R : \E j \in 1..Len(r) : r[j] = x
    BY <1>1, <1>2 DEF ToSet
  <2>3. ExistsBijection(1..Len(r), R)
    BY <2>1, <2>2 DEF ExistsBijection, Bijection, Injection, Surjection
  <2> QED
    BY <1>3, <2>3, FS_Bijection
<1>5. IsFiniteSet(3..n) /\ Cardinality(3..n) = n - 2
  BY FS_Interval
<1>6. IsFiniteSet(I)
  <2>1. I \in SUBSET (3..n)
    OBVIOUS
  <2> QED
    BY <1>5, <2>1, FS_Subset
<1>7. Cardinality(I) \in Nat
  BY <1>6, FS_CardinalityType
<1>8. Cardinality(I \cup R) = Cardinality(I) + Cardinality(R) - Cardinality(I \cap R)
  BY <1>4, <1>6, FS_Union
<1>9. I \cap R = {} /\ Cardinality(I \cap R) = 0 /\ I \cup R = 3..n
  BY <1>2, FS_EmptySet
<1>10. Cardinality(3..n) = Cardinality(I) + Len(r) - 0
  BY <1>4, <1>8, <1>9, Zenon
<1>11. PICK q \in Nat : q = Cardinality(I)
  BY <1>7
<1>12. PICK m \in Nat : m = Len(r)
  BY <1>1
<1>13. n - 2 = q + m - 0
  BY <1>5, <1>10, <1>11, <1>12, Zenon
<1>14. m + q = n - 2
  BY <1>13
<1> QED
  BY <1>11, <1>12, <1>14

LEMMA MapsAgree == ChunkInv => ChunkMapsAgree
<1> SUFFICES ASSUME ChunkInv PROVE ChunkMapsAgree
  OBVIOUS
<1>1. PICK s : s = Tables
  OBVIOUS
<1>2. s.map = chunkmap /\ s.tab = chunktab /\ s.reusable = reusable /\ s.num = chunkNum
  BY <1>1 DEF Tables
<1>3. AreTables(s) /\ ListsGood(s) /\ KeysFound(s) /\ NumsAccounted(s) /\ Named(s, v2c, disk)
  BY <1>1 DEF ChunkInv, Mapping, Fits, Sound
<1>4. ChunkTypeOK
  <2>1. v2c \in [DOMAIN v2c -> [chunkIDUList : Seq(Nat), cdirty : BOOLEAN]]
    BY <1>3 DEF Named, EntryType
  <2>2. \A i \in Ids : chunkmap[i].c2vmaps \in
          Seq([blockID : Blocks, offset : 0..BlockSize - 1, dedupfetch : BOOLEAN])
    BY <1>2, <1>3 DEF ListsGood, GoodList, ListIn, TupleType, Ids
  <2> QED
    BY <1>2, <1>3, <2>1, <2>2 DEF ChunkTypeOK, AreTables, Named, Ids
<1>5. OneLeader
  <2> SUFFICES ASSUME NEW i \in Ids PROVE Cardinality(Marked(chunkmap[i].c2vmaps)) = 1
    BY DEF OneLeader
  <2>1. GoodList(chunkmap[i].c2vmaps)
    BY <1>2, <1>3 DEF ListsGood, ListIn, Ids
  <2> QED
    BY <2>1, GoodListFacts
<1>6. TableAgrees
  BY <1>2, <1>3 DEF TableAgrees, KeysFound, KeyIn, Ids
<1>7. IdsAccounted
  <2>1. Range(reusable) = ToSet(reusable)
    BY DEF Range, ToSet
  <2>2. reusable \in Seq(Nat) /\ chunkNum \in Nat
    BY <1>2, <1>3 DEF AreTables
  <2>3. /\ 2 <= chunkNum /\ IsInjective(reusable)
        /\ Ids \cup ToSet(reusable) = 3..chunkNum
        /\ Ids \cap ToSet(reusable) = {}
    BY <1>2, <1>3 DEF NumsAccounted, Ids
  <2>4. Len(reusable) + Cardinality(Ids) = chunkNum - 2
    BY <2>2, <2>3, NumbersAdd
  <2> QED
    BY <2>1, <2>3, <2>4 DEF IdsAccounted
<1> QED
  BY <1>4, <1>5, <1>6, <1>7, ListsInverse DEF ChunkMapsAgree

\* A place of a list holds the letters of the list's chunk.
HasLetters(place, key) ==
  /\ place.blockID \in Blocks /\ Clean(place.blockID)
  /\ place.blockID \in DOMAIN disk /\ disk[place.blockID] \in Contents
  /\ Len(key) \in Nat \ {0} /\ place.offset \in Nat
  /\ place.offset + Len(key) <= BlockSize
  /\ SubSeq(disk[place.blockID], place.offset + 1, place.offset + Len(key)) = key

LEMMA PlaceHolds ==
  ASSUME ChunkInv, NEW i \in Ids, NEW p \in DOMAIN chunkmap[i].c2vmaps,
         NEW place, place = chunkmap[i].c2vmaps[p],
         NEW key, key = chunkmap[i].chashkey
  PROVE  HasLetters(place, key)
<1>1. PICK s : s = Tables
  OBVIOUS
<1>2. PICK K : K = CutsOf(v2c, disk)
  OBVIOUS
<1>3. s.map = chunkmap
  BY <1>1 DEF Tables
<1>4. Mapping(s, v2c, disk) /\ Fits(s, K, AllOf(K), Blocks) /\ ListsGood(s)
  BY <1>1, <1>2 DEF ChunkInv, Mapping, Fits, Sound
<1>5. PICK b : b = place.blockID
  OBVIOUS
<1>6. b \in Blocks
  <2>1. chunkmap[i].c2vmaps \in Seq(TupleType)
    BY <1>3, <1>4 DEF ListsGood, GoodList, ListIn, Ids
  <2> QED
    BY <1>5, <2>1, ListFacts
<1>7. Holds(ListIn(s, i), b, place.offset)
  BY <1>3, <1>5 DEF Holds, ListIn
<1>8. PICK j \in DOMAIN K[b] : K[b][j].key = key /\ K[b][j].offset = place.offset
  BY <1>3, <1>4, <1>6, <1>7 DEF Fits, PlacesRight, KeyIn, Ids
<1>9. CleanIn(v2c, b)
  <2>1. DOMAIN <<>> = {}
    OBVIOUS
  <2> QED
    BY <1>2, <1>4, <1>6, <1>8, <2>1, NothingCut
<1>10. PICK k : k = disk[b]
  OBVIOUS
<1>11. PICK C : C = ChunksOf[k]
  OBVIOUS
<1>12. Clean(b) /\ b \in DOMAIN disk /\ k \in Contents /\ K[b] = C
  BY <1>2, <1>4, <1>6, <1>9, <1>10, <1>11, CleanBlock DEF Clean, Mapped, CleanIn
<1>13. j \in 1..Len(C)
  BY <1>8, <1>11, <1>12, TiledChunks
<1>14. Len(C) \in Nat
  BY <1>11, <1>12, TiledChunks
<1>15. /\ C[j].offset = End(C, j - 1) /\ Len(C[j].key) \in Nat \ {0}
       /\ End(C, j) = End(C, j - 1) + Len(C[j].key)
       /\ C[j].key = SubSeq(k, End(C, j - 1) + 1, End(C, j))
  BY <1>11, <1>12, <1>13, EndsOfChunks
<1>16. End(C, j - 1) \in Nat /\ End(C, j) <= BlockSize
  <2>1. j \in 0..Len(C) /\ j - 1 \in 0..Len(C)
    BY <1>13, <1>14
  <2>2. \A n \in 0..Len(C) : End(C, n) \in Nat /\ End(C, n) <= BlockSize
    BY <1>11, <1>12, EndsOfChunks
  <2> QED
    BY <2>1, <2>2
<1>17. key = C[j].key /\ place.offset = C[j].offset
  BY <1>8, <1>12
<1>18. End(C, j) = place.offset + Len(key) /\ End(C, j - 1) = place.offset
  BY <1>15, <1>17, Zenon
<1>19. SubSeq(k, place.offset + 1, place.offset + Len(key)) = key
  BY <1>15, <1>17, <1>18, Zenon
<1>20. Len(key) \in Nat \ {0} /\ place.offset \in Nat /\ place.offset + Len(key) <= BlockSize
  BY <1>15, <1>16, <1>17, <1>18, Zenon
<1> QED
  BY <1>5, <1>6, <1>10, <1>12, <1>19, <1>20 DEF HasLetters

LEMMA PlacesAreFresh == ChunkInv => PlacesFresh
<1> SUFFICES ASSUME ChunkInv, NEW i \in Ids, NEW p \in DOMAIN chunkmap[i].c2vmaps
             PROVE  LET place == chunkmap[i].c2vmaps[p]
                        key == chunkmap[i].chashkey
                    IN  /\ place.blockID \in DOMAIN disk
                        /\ SubSeq(disk[place.blockID], place.offset + 1,
                                  place.offset + Len(key)) = key
  BY DEF PlacesFresh
<1>1. PICK place : place = chunkmap[i].c2vmaps[p]
  OBVIOUS
<1>2. PICK key : key = chunkmap[i].chashkey
  OBVIOUS
<1>3. HasLetters(place, key)
  BY <1>1, <1>2, PlaceHolds
<1> QED
  BY <1>1, <1>2, <1>3, Zenon DEF HasLetters

-----------------------------------------------------------------------------
\* The pieces of a read.  They are laid one after the other, and what is laid
\* is the content k up to its letter number L; d is the disk.
PieceType == [ioblk : Blocks, start : Nat, end : Nat, content : Contents]
PartIn(p) == SubSeq(p.content, p.start + 1, p.end + 1)
GoodPiece(d, p) ==
  /\ p \in PieceType
  /\ p.ioblk \in DOMAIN d /\ p.content = d[p.ioblk]
  /\ p.start <= p.end /\ p.end < BlockSize
Lays(h, list, k, L) ==
  /\ h \in [0..Len(list) -> 0..BlockSize]
  /\ h[0] = 0 /\ h[Len(list)] = L
  /\ \A i \in 1..Len(list) : h[i - 1] <= h[i] /\ PartIn(list[i]) = SubSeq(k, h[i - 1] + 1, h[i])
Assembles(d, list, k, L) ==
  /\ list \in Seq(PieceType)
  /\ \A i \in 1..Len(list) : GoodPiece(d, list[i])
  /\ \E h : Lays(h, list, k, L)

LEMMA ContentFacts ==
  ASSUME NEW k \in Contents
  PROVE  k \in Seq(Letters) /\ Len(k) = BlockSize
<1>1. k \in [1..BlockSize -> Letters] /\ BlockSize \in Nat
  BY ChunkAssumption
<1> QED
  BY <1>1

Adjoin(k, m, n, l) ==
  SubSeq(k, m + 1, n) \o SubSeq(k, n + 1, l) = SubSeq(k, m + 1, l)

LEMMA Joined ==
  ASSUME NEW k \in Contents, NEW m \in Nat, NEW n \in Nat, NEW l \in Nat,
         m <= n, n <= l, l <= BlockSize
  PROVE  Adjoin(k, m, n, l)
<1>1. k \in Seq(Letters) /\ Len(k) = BlockSize /\ BlockSize \in Nat
  BY ContentFacts, ChunkAssumption
<1>2. PICK q \in 1..Len(k) + 1 : q = m + 1
  BY <1>1
<1>3. n \in q - 1..Len(k) /\ l \in n..Len(k)
  BY <1>1, <1>2
<1>4. SubSeq(k, q, n) \o SubSeq(k, n + 1, l) = SubSeq(k, q, l)
  BY <1>1, <1>3, ConcatAdjacentSubSeq
<1> QED
  BY <1>2, <1>4 DEF Adjoin

LEMMA PieceAppended ==
  ASSUME NEW k \in Contents, NEW list, NEW L \in Nat, Assembles(disk, list, k, L),
         NEW p, GoodPiece(disk, p), NEW M \in Nat, L <= M, M <= BlockSize,
         PartIn(p) = SubSeq(k, L + 1, M)
  PROVE  Assembles(disk, Append(list, p), k, M)
<1>1. list \in Seq(PieceType) /\ p \in PieceType /\ BlockSize \in Nat
  BY ChunkAssumption DEF Assembles, GoodPiece
<1>2. PICK m \in Nat : m = Len(list)
  BY <1>1, LenProperties
<1>3. PICK new : new = Append(list, p)
  OBVIOUS
<1>4. /\ new \in Seq(PieceType) /\ Len(new) = m + 1
      /\ \A i \in 1..m : new[i] = list[i]
      /\ new[m + 1] = p
  BY <1>1, <1>2, <1>3, AppendProperties
<1>5. PICK h : Lays(h, list, k, L)
  BY DEF Assembles
<1>6. PICK g : g = [i \in 0..m + 1 |-> IF i <= m THEN h[i] ELSE M]
  OBVIOUS
<1>7. h \in [0..m -> 0..BlockSize] /\ h[0] = 0 /\ h[m] = L
  BY <1>2, <1>5 DEF Lays
<1>8. /\ g \in [0..m + 1 -> 0..BlockSize]
      /\ g[m + 1] = M /\ g[m] = L /\ g[0] = 0
      /\ \A i \in 0..m : g[i] = h[i]
  BY <1>6, <1>7
<1>9. ASSUME NEW i \in 1..m + 1
      PROVE  g[i - 1] <= g[i] /\ PartIn(new[i]) = SubSeq(k, g[i - 1] + 1, g[i])
  <2>1. CASE i = m + 1
    <3>1. i - 1 = m
      BY <2>1
    <3> QED
      BY <1>4, <1>8, <2>1, <3>1
  <2>2. CASE i # m + 1
    <3>1. i \in 1..m /\ i \in 0..m /\ i - 1 \in 0..m
      BY <2>2
    <3>2. h[i - 1] <= h[i] /\ PartIn(list[i]) = SubSeq(k, h[i - 1] + 1, h[i])
      BY <1>2, <1>5, <3>1 DEF Lays
    <3>3. g[i - 1] = h[i - 1] /\ g[i] = h[i] /\ new[i] = list[i]
      BY <1>4, <1>8, <3>1
    <3> QED
      BY <3>2, <3>3
  <2> QED
    BY <2>1, <2>2
<1>10. Lays(g, new, k, M)
  BY <1>4, <1>8, <1>9 DEF Lays
<1>11. ASSUME NEW i \in 1..m + 1 PROVE GoodPiece(disk, new[i])
  <2>1. CASE i = m + 1
    BY <1>4, <2>1
  <2>2. CASE i # m + 1
    <3>1. i \in 1..m
      BY <2>2
    <3>2. GoodPiece(disk, list[i])
      BY <1>2, <3>1, Zenon DEF Assembles
    <3> QED
      BY <1>4, <3>1, <3>2
  <2> QED
    BY <2>1, <2>2
<1> QED
  BY <1>3, <1>4, <1>10, <1>11 DEF Assembles

\* The n letters of k that come after L are those of d that come after o.
SameLetters(k, L, d, o, n) == SubSeq(k, L + 1, L + n) = SubSeq(d, o + 1, o + n)

LEMMA PieceExtended ==
  ASSUME NEW k \in Contents, NEW list, NEW L \in Nat, Assembles(disk, list, k, L), list # <<>>,
         NEW n \in Nat, L + n <= BlockSize,
         NEW r \in Nat, r = Last(list).end + 1, r + n <= BlockSize,
         SameLetters(k, L, Last(list).content, r, n)
  PROVE  Assembles(disk, [list EXCEPT ![Len(list)].end = @ + n], k, L + n)
<1>1. list \in Seq(PieceType) /\ BlockSize \in Nat
  BY ChunkAssumption DEF Assembles
<1>2. PICK m \in Nat \ {0} : m = Len(list)
  BY <1>1, LenProperties, EmptySeq
<1>3. PICK p : p = list[m]
  OBVIOUS
<1>4. GoodPiece(disk, p) /\ Last(list) = p
  <2>1. m \in 1..Len(list)
    BY <1>2
  <2> QED
    BY <1>2, <1>3, <2>1 DEF Assembles, Last
<1>5. /\ p \in PieceType /\ p.content \in Contents /\ p.start \in Nat /\ p.end \in Nat
      /\ p.start <= p.end /\ p.ioblk \in DOMAIN disk /\ p.content = disk[p.ioblk]
  BY <1>4 DEF GoodPiece, PieceType
<1> r = p.end + 1 /\ SameLetters(k, L, p.content, r, n)
  BY <1>4
<1>6. PICK q : q = [p EXCEPT !.end = @ + n]
  OBVIOUS
<1>7. GoodPiece(disk, q) /\ q.content = p.content /\ q.start = p.start /\ q.end = p.end + n
  <2>1. PICK z \in Nat : z = p.end + n
    BY <1>5
  <2>2. q = [p EXCEPT !.end = z]
    BY <1>6, <2>1
  <2>3. q \in PieceType
    BY <1>5, <2>2 DEF PieceType
  <2>4. q.content = p.content /\ q.start = p.start /\ q.end = z /\ q.ioblk = p.ioblk
    BY <1>5, <2>2 DEF PieceType
  <2>5. q.start <= q.end /\ q.end < BlockSize
    <3>1. PICK y \in Nat : y = p.end
      BY <1>5
    <3>2. PICK x \in Nat : x = p.start
      BY <1>5
    <3>3. x <= z /\ z < BlockSize
      <4>1. r = y + 1 /\ z = y + n /\ x <= y
        BY <1>5, <2>1, <3>1, <3>2
      <4> QED
        BY <1>1, <4>1
    <3> QED
      BY <2>4, <3>2, <3>3
  <2> QED
    BY <1>5, <2>1, <2>3, <2>4, <2>5 DEF GoodPiece
<1>8. PICK new : new = [list EXCEPT ![m] = q]
  OBVIOUS
<1>9. /\ new \in Seq(PieceType) /\ Len(new) = m
      /\ \A i \in 1..m : new[i] = IF i = m THEN q ELSE list[i]
  <2>1. m \in 1..Len(list) /\ q \in PieceType
    BY <1>2, <1>7 DEF GoodPiece
  <2> QED
    BY <1>1, <1>2, <1>8, <2>1, ExceptSeq
<1>10. new = [list EXCEPT ![Len(list)].end = @ + n]
  BY <1>2, <1>3, <1>4, <1>6, <1>8
<1>11. PICK h : Lays(h, list, k, L)
  BY DEF Assembles
<1>12. /\ h \in [0..m -> 0..BlockSize] /\ h[0] = 0 /\ h[m] = L
       /\ \A i \in 1..m : h[i - 1] <= h[i]
                          /\ PartIn(list[i]) = SubSeq(k, h[i - 1] + 1, h[i])
  BY <1>2, <1>11 DEF Lays
<1>13. PICK o : o = h[m - 1]
  OBVIOUS
<1>14. o \in Nat /\ o <= L /\ PartIn(p) = SubSeq(k, o + 1, L)
  <2>1. m - 1 \in 0..m /\ m \in 1..m
    OBVIOUS
  <2>2. o \in 0..BlockSize
    BY <1>12, <1>13, <2>1
  <2>3. h[m - 1] <= h[m] /\ PartIn(list[m]) = SubSeq(k, h[m - 1] + 1, h[m])
    BY <1>12, <2>1, Zenon
  <2>4. h[m] = L
    BY <1>12
  <2>5. PartIn(p) = SubSeq(k, o + 1, L) /\ o <= L
    BY <1>3, <1>13, <2>3, <2>4, Zenon
  <2>6. o \in Nat
    BY <1>1, <2>2
  <2> QED
    BY <2>5, <2>6, Zenon
<1>15. PartIn(q) = SubSeq(k, o + 1, L + n)
  <2>1. PICK d \in Contents, x \in Nat : d = p.content /\ x = p.start
    BY <1>5
  <2>2. PICK R \in Nat : R = r + n
    OBVIOUS
  <2>3. PICK M \in Nat : M = L + n
    OBVIOUS
  <2>4. x <= r /\ r <= R /\ R <= BlockSize /\ o <= L /\ L <= M /\ M <= BlockSize
    <3>1. x <= r
      BY <1>5, <2>1
    <3> QED
      BY <1>14, <2>2, <2>3, <3>1
  <2>5. SubSeq(d, x + 1, r) \o SubSeq(d, r + 1, R) = SubSeq(d, x + 1, R)
    <3>1. Adjoin(d, x, r, R)
      BY <2>4, Joined
    <3> QED
      BY <3>1, Zenon DEF Adjoin
  <2>6. SubSeq(k, o + 1, L) \o SubSeq(k, L + 1, M) = SubSeq(k, o + 1, M)
    <3>1. Adjoin(k, o, L, M)
      BY <1>14, <2>4, Joined
    <3> QED
      BY <3>1, Zenon DEF Adjoin
  <2>7. SubSeq(d, x + 1, r) = SubSeq(k, o + 1, L)
    BY <1>14, <2>1, Zenon DEF PartIn
  <2>8. SubSeq(d, r + 1, R) = SubSeq(k, L + 1, M)
    BY <2>1, <2>2, <2>3, Zenon DEF SameLetters
  <2>9. PartIn(q) = SubSeq(d, x + 1, R)
    <3>1. p.end + n + 1 = R
      BY <1>5, <2>2
    <3>2. PartIn(q) = SubSeq(d, x + 1, p.end + n + 1)
      BY <1>7, <2>1, Zenon DEF PartIn
    <3> QED
      BY <3>1, <3>2, Zenon
  <2> QED
    BY <2>3, <2>5, <2>6, <2>7, <2>8, <2>9, Zenon
<1>16. PICK g : g = [h EXCEPT ![m] = L + n]
  OBVIOUS
<1>17. /\ g \in [0..m -> 0..BlockSize] /\ g[0] = 0 /\ g[m] = L + n
       /\ \A i \in 0..m : i # m => g[i] = h[i]
  <2>1. L + n \in 0..BlockSize /\ m \in 0..m /\ 0 \in 0..m /\ m # 0
    BY <1>1
  <2>2. h \in [0..m -> 0..BlockSize] /\ h[0] = 0
    BY <1>12, Zenon
  <2> QED
    BY <1>16, <2>1, <2>2
<1>18. ASSUME NEW i \in 1..m
       PROVE  g[i - 1] <= g[i] /\ PartIn(new[i]) = SubSeq(k, g[i - 1] + 1, g[i])
  <2>1. i - 1 \in 0..m /\ i \in 0..m /\ i - 1 # m
    OBVIOUS
  <2>2. g[i - 1] = h[i - 1]
    BY <1>17, <2>1
  <2>3. CASE i = m
    <3>1. g[i - 1] = o /\ g[i] = L + n /\ new[i] = q
      BY <1>9, <1>13, <1>17, <2>2, <2>3
    <3> QED
      BY <1>14, <1>15, <3>1
  <2>4. CASE i # m
    <3>1. g[i] = h[i] /\ new[i] = list[i]
      BY <1>9, <1>17, <2>1, <2>4
    <3> QED
      BY <1>12, <2>2, <3>1
  <2> QED
    BY <2>3, <2>4
<1>19. Lays(g, new, k, L + n)
  BY <1>9, <1>17, <1>18 DEF Lays
<1>20. ASSUME NEW i \in 1..m PROVE GoodPiece(disk, new[i])
  BY <1>2, <1>7, <1>9 DEF Assembles
<1> QED
  BY <1>9, <1>10, <1>19, <1>20 DEF Assembles

\* The letters of a chunk, fetched from one of its places.
LEMMA PieceAdded ==
  ASSUME NEW k \in Contents, NEW list, NEW L \in Nat, Assembles(disk, list, k, L),
         NEW place, NEW key, HasLetters(place, key), NEW n \in Nat, n = Len(key),
         L + n <= BlockSize, SubSeq(k, L + 1, L + n) = key,
         NEW new, new = AddPiece(list, place, n)
  PROVE  Assembles(disk, new, k, L + n)
<1>1. BlockSize \in Nat /\ list \in Seq(PieceType)
  BY ChunkAssumption DEF Assembles
<1>2. PICK o \in Nat, x \in Blocks :
        /\ o = place.offset /\ x = place.blockID
        /\ x \in DOMAIN disk /\ disk[x] \in Contents /\ n # 0 /\ o + n <= BlockSize
  BY DEF HasLetters
<1>3. SameLetters(k, L, disk[x], o, n)
  <2>1. SubSeq(disk[x], o + 1, o + n) = key
    BY <1>2, Zenon DEF HasLetters
  <2> QED
    BY <2>1, Zenon DEF SameLetters
<1>4. CASE /\ list # <<>>
           /\ Last(list).ioblk = place.blockID
           /\ Last(list).end + 1 = place.offset
  <2>1. new = [list EXCEPT ![Len(list)].end = @ + n]
    BY <1>4 DEF AddPiece
  <2>2. Last(list).content = disk[x]
    <3>1. Len(list) \in 1..Len(list)
      BY <1>1, <1>4, LenProperties, EmptySeq
    <3>2. GoodPiece(disk, list[Len(list)])
      BY <3>1, Zenon DEF Assembles
    <3> QED
      BY <1>2, <1>4, <3>2 DEF GoodPiece, Last
  <2>3. SameLetters(k, L, Last(list).content, o, n)
    BY <1>3, <2>2, Zenon
  <2>4. o = Last(list).end + 1
    BY <1>2, <1>4
  <2>5. Assembles(disk, [list EXCEPT ![Len(list)].end = @ + n], k, L + n)
    BY <1>2, <1>4, <2>3, <2>4, PieceExtended
  <2> QED
    BY <2>1, <2>5, Zenon
<1>5. CASE ~(/\ list # <<>>
             /\ Last(list).ioblk = place.blockID
             /\ Last(list).end + 1 = place.offset)
  <2>1. PICK p : p = Piece(x, o, o + n - 1, disk[x])
    OBVIOUS
  <2>2. new = Append(list, p)
    <3>1. new = Append(list, Piece(place.blockID, place.offset, place.offset + n - 1,
                                   disk[place.blockID]))
      BY <1>5, Zenon DEF AddPiece
    <3> QED
      BY <1>2, <2>1, <3>1, Zenon
  <2>3. PICK e \in Nat : e = o + n - 1 /\ e + 1 = o + n
    <3>1. n # 0
      BY <1>2
    <3>2. o + n - 1 \in Nat /\ (o + n - 1) + 1 = o + n
      BY <3>1
    <3> QED
      BY <3>2, Zenon
  <2>4. p = [ioblk |-> x, start |-> o, end |-> e, content |-> disk[x]]
    BY <2>1, <2>3 DEF Piece
  <2>5. GoodPiece(disk, p)
    <3>1. p \in PieceType
      BY <1>2, <2>4 DEF PieceType
    <3>2. o <= e /\ e < BlockSize
      <4>1. n \in Nat \ {0} /\ o \in Nat /\ o + n <= BlockSize /\ BlockSize \in Nat
        BY <1>1, <1>2
      <4> QED
        BY <2>3, <4>1
    <3>3. p.ioblk = x /\ p.start = o /\ p.end = e /\ p.content = disk[x]
      BY <2>4
    <3>4. x \in DOMAIN disk
      BY <1>2
    <3> QED
      BY <3>1, <3>2, <3>3, <3>4, Zenon DEF GoodPiece
  <2>6. PICK M \in Nat : M = L + n
    OBVIOUS
  <2>7. PartIn(p) = SubSeq(k, L + 1, M)
    <3>1. PartIn(p) = SubSeq(disk[x], o + 1, e + 1)
      BY <2>4 DEF PartIn
    <3> QED
      BY <1>3, <2>3, <2>6, <3>1, Zenon DEF SameLetters
  <2>8. L <= M /\ M <= BlockSize
    BY <2>6
  <2>9. Assembles(disk, Append(list, p), k, M)
    BY <2>5, <2>7, <2>8, PieceAppended
  <2> QED
    BY <2>2, <2>6, <2>9
<1> QED
  BY <1>4, <1>5

LEMMA NoPieces ==
  ASSUME NEW k
  PROVE  Assembles(disk, <<>>, k, 0)
<1>1. <<>> \in Seq(PieceType) /\ Len(<<>>) = 0
  OBVIOUS
<1>2. PICK h : h = [i \in 0..0 |-> 0]
  OBVIOUS
<1>3. 0 \in 0..BlockSize /\ h \in [0..0 -> 0..BlockSize] /\ h[0] = 0
  BY <1>2, ChunkAssumption
<1>4. Lays(h, <<>>, k, 0)
  BY <1>1, <1>3 DEF Lays
<1>5. \A i \in 1..Len(<<>>) : GoodPiece(disk, <<>>[i])
  BY <1>1
<1> QED
  BY <1>1, <1>4, <1>5 DEF Assembles

\* What a read of a clean block fetches has all its letters.
LEMMA PiecesLoop ==
  ASSUME ChunkInv, NEW b \in Blocks, Clean(b)
  PROVE  /\ b \in DOMAIN disk /\ disk[b] \in Contents
         /\ Assembles(disk, PiecesOf(v2c[b].chunkIDUList), disk[b], BlockSize)
<1>1. PICK s : s = Tables
  OBVIOUS
<1>2. Mapping(s, v2c, disk) /\ KeysFound(s) /\ ListsGood(s)
  BY <1>1 DEF ChunkInv, Mapping, Fits, Sound
<1>3. CleanIn(v2c, b)
  BY DEF Clean, Mapped, CleanIn
<1>4. PICK ids : ids = v2c[b].chunkIDUList
  OBVIOUS
<1>5. PICK k : k = disk[b]
  OBVIOUS
<1>6. PICK C : C = ChunksOf[k]
  OBVIOUS
<1>7. PICK m : m = Len(ids)
  OBVIOUS
<1>8. /\ b \in DOMAIN disk /\ k \in Contents /\ m \in Nat /\ Len(C) = m
      /\ \A n \in 1..m : ids[n] = s.tab[C[n].key]
      /\ \A n \in 1..m : C[n].key \in DOMAIN s.tab
  <2>1. CutsOf(v2c, disk)[b] = C
    BY <1>2, <1>3, <1>5, <1>6, CleanBlock
  <2> QED
    BY <1>2, <1>3, <1>4, <1>5, <1>7, <2>1, CleanBlock
<1>9. PICK h : /\ h[0] = <<>>
               /\ \A n \in 1..m : h[n] = AddPiece(h[n - 1], Leader(ids[n]), PartOf(ids, n))
               /\ PiecesOf(ids) = h[m]
  BY <1>7, <1>8, PieceTurns
<1>10. \A n \in 0..m : LettersIn(ids)[n] = End(C, n)
  BY <1>4, <1>5, <1>6, <1>7, LettersBefore
<1>11. \A n \in 0..m : End(C, n) \in Nat /\ End(C, n) <= BlockSize
  BY <1>6, <1>8, EndsOfChunks
<1>12. \A n \in 1..m : /\ Len(C[n].key) \in Nat \ {0}
                       /\ End(C, n) = End(C, n - 1) + Len(C[n].key)
                       /\ C[n].key = SubSeq(k, End(C, n - 1) + 1, End(C, n))
  BY <1>6, <1>8, EndsOfChunks
<1>13. End(C, m) = BlockSize /\ BlockSize \in Nat
  BY <1>6, <1>8, EndsOfChunks, ChunkAssumption
<1>14. PICK T : T = {n \in 0..m : Assembles(disk, h[n], k, End(C, n))}
  OBVIOUS
<1>15. 0 \in T
  BY <1>8, <1>9, <1>14, NoPieces DEF End
<1>16. ASSUME NEW n \in 1..m, n - 1 \in T PROVE n \in T
  <2>1. PICK i : i = ids[n]
    OBVIOUS
  <2>2. PICK key : key = C[n].key
    OBVIOUS
  <2>3. i \in Ids /\ chunkmap[i].chashkey = key
    BY <1>1, <1>2, <1>8, <2>1, <2>2 DEF KeysFound, KeyIn, Tables, Ids
  <2>4. PICK place : place = Leader(i)
    OBVIOUS
  <2>5. HasLetters(place, key)
    <3>1. PICK f : f = chunkmap[i].c2vmaps
      OBVIOUS
    <3>2. GoodList(f)
      BY <1>1, <1>2, <2>3, <3>1 DEF ListsGood, ListIn, Tables, Ids
    <3>3. PICK p \in DOMAIN f : p = First(Marked(f))
      BY <3>2, GoodListFacts
    <3>4. place = chunkmap[i].c2vmaps[p] /\ p \in DOMAIN chunkmap[i].c2vmaps
      BY <2>4, <3>1, <3>3 DEF Leader
    <3> QED
      BY <2>3, <3>4, PlaceHolds
  <2>6. PICK L \in Nat : L = End(C, n - 1)
    <3>1. n - 1 \in 0..m
      BY <1>8
    <3> QED
      BY <1>11, <3>1
  <2>7. PICK q \in Nat : q = Len(key)
    BY <1>12, <2>2
  <2>8. End(C, n) = L + q /\ L + q <= BlockSize
    <3>1. End(C, n) = End(C, n - 1) + Len(C[n].key)
      BY <1>12
    <3>2. End(C, n) <= BlockSize
      BY <1>11, <1>8
    <3>3. End(C, n) = L + q
      BY <2>2, <2>6, <2>7, <3>1, Zenon
    <3> QED
      BY <3>2, <3>3, Zenon
  <2>9. SubSeq(k, L + 1, L + q) = key
    <3>1. C[n].key = SubSeq(k, End(C, n - 1) + 1, End(C, n))
      BY <1>12
    <3> QED
      BY <2>2, <2>6, <2>8, <3>1, Zenon
  <2>10. PartOf(ids, n) = q
    <3>1. CASE n = Len(ids)
      <4>1. PartOf(ids, n) = BlockSize - LettersIn(ids)[n - 1]
        BY <3>1 DEF PartOf
      <4>2. n - 1 \in 0..m
        BY <1>8
      <4>3. LettersIn(ids)[n - 1] = L
        BY <1>10, <2>6, <4>2
      <4>4. BlockSize = L + q
        BY <1>7, <1>13, <2>8, <3>1
      <4>5. BlockSize - L = q
        BY <1>13, <4>4
      <4> QED
        BY <4>1, <4>3, <4>5, Zenon
    <3>2. CASE n # Len(ids)
      BY <2>1, <2>3, <2>7, <3>2 DEF PartOf
    <3> QED
      BY <3>1, <3>2
  <2>11. PICK list : list = h[n - 1]
    OBVIOUS
  <2>12. Assembles(disk, list, k, L)
    BY <1>14, <1>16, <2>6, <2>11
  <2>13. PICK new : new = h[n]
    OBVIOUS
  <2>14. new = AddPiece(list, place, q)
    <3>1. h[n] = AddPiece(h[n - 1], Leader(ids[n]), PartOf(ids, n))
      BY <1>9
    <3> QED
      BY <2>1, <2>4, <2>10, <2>11, <2>13, <3>1, Zenon
  <2>15. Assembles(disk, new, k, L + q)
    BY <1>8, <2>5, <2>7, <2>8, <2>9, <2>12, <2>14, PieceAdded
  <2>16. n \in 0..m
    BY <1>8
  <2> QED
    BY <1>14, <2>8, <2>13, <2>15, <2>16
<1>17. m \in T
  <2>1. \A n \in 0..m : n \in T
    BY <1>8, <1>15, <1>16, AllTurns
  <2> QED
    BY <1>8, <2>1
<1>18. Assembles(disk, h[m], k, BlockSize)
  BY <1>13, <1>14, <1>17
<1> QED
  BY <1>4, <1>5, <1>8, <1>9, <1>18

\* The pieces laid one after the other are the block.
PartsOf(list) == [i \in DOMAIN list |-> SubSeq(list[i].content, list[i].start + 1, list[i].end + 1)]

LEMMA AssembledBlock ==
  ASSUME NEW k \in Contents, NEW list, Assembles(disk, list, k, BlockSize)
  PROVE  /\ FlattenSeq(PartsOf(list)) = k
         /\ list \in Seq(PieceType) /\ Len(list) \in Nat \ {0}
<1>1. list \in Seq(PieceType) /\ BlockSize \in Nat \ {0}
  BY ChunkAssumption DEF Assembles
<1>2. PICK m \in Nat : m = Len(list) /\ DOMAIN list = 1..m
  BY <1>1, LenProperties
<1>3. PICK h : Lays(h, list, k, BlockSize)
  BY DEF Assembles
<1>4. /\ h \in [0..m -> 0..BlockSize] /\ h[0] = 0 /\ h[m] = BlockSize
      /\ \A i \in 1..m : h[i - 1] <= h[i]
      /\ \A i \in 1..m : PartIn(list[i]) = SubSeq(k, h[i - 1] + 1, h[i])
  BY <1>2, <1>3 DEF Lays
<1>5. m # 0
  BY <1>1, <1>4
<1>6. PICK B : B = PartsOf(list)
  OBVIOUS
<1>7. Len(B) = m /\ \A i \in 1..m : B[i] = PartIn(list[i])
  <2>1. B = [i \in 1..m |-> PartIn(list[i])]
    BY <1>2, <1>6, Zenon DEF PartsOf, PartIn
  <2> QED
    BY <2>1
<1>8. PICK g : g = [i \in 1..m |-> SubSeq(k, 1, h[i])]
  OBVIOUS
<1>9. ASSUME NEW i \in 1..m
      PROVE  g[i] = IF i = 1 THEN B[i] ELSE g[i - 1] \o B[i]
  <2>1. i - 1 \in 0..m /\ i \in 0..m
    OBVIOUS
  <2>2. PICK o \in Nat, n \in Nat : o = h[i - 1] /\ n = h[i] /\ o <= n /\ n <= BlockSize
    <3>1. h[i - 1] \in 0..BlockSize /\ h[i] \in 0..BlockSize
      BY <1>4, <2>1
    <3>2. h[i - 1] <= h[i]
      BY <1>4, Zenon
    <3> QED
      BY <1>1, <3>1, <3>2
  <2>3. B[i] = SubSeq(k, o + 1, n)
    BY <1>4, <1>7, <2>2
  <2>4. g[i] = SubSeq(k, 1, n)
    BY <1>8, <2>2
  <2>5. CASE i = 1
    <3>1. o = 0
      BY <1>4, <2>2, <2>5
    <3> QED
      BY <2>3, <2>4, <2>5, <3>1
  <2>6. CASE i # 1
    <3>1. i - 1 \in 1..m
      BY <2>6
    <3>2. g[i - 1] = SubSeq(k, 1, o)
      BY <1>8, <2>2, <3>1
    <3>3. Adjoin(k, 0, o, n)
      BY <2>2, Joined
    <3>4. 0 + 1 = 1
      OBVIOUS
    <3>5. SubSeq(k, 1, o) \o SubSeq(k, o + 1, n) = SubSeq(k, 1, n)
      BY <3>3, <3>4, Zenon DEF Adjoin
    <3> QED
      BY <2>3, <2>4, <2>6, <3>2, <3>5, Zenon
  <2> QED
    BY <2>5, <2>6
<1>10. Flattens(g, B)
  <2>1. g = [i \in 1..m |-> g[i]]
    BY <1>8
  <2>2. [i \in 1..m |-> g[i]] = [i \in 1..m |-> IF i = 1 THEN B[i] ELSE g[i - 1] \o B[i]]
    BY <1>9
  <2> QED
    BY <1>7, <2>1, <2>2, Zenon DEF Flattens
<1>11. FlattenSeq(B) = g[m]
  BY <1>5, <1>7, <1>10, FlattenedBy
<1>12. g[m] = SubSeq(k, 1, BlockSize)
  <2>1. m \in 1..m
    BY <1>5
  <2> QED
    BY <1>4, <1>8, <2>1
<1>13. SubSeq(k, 1, BlockSize) = k
  <2>1. k \in Seq(Letters) /\ Len(k) = BlockSize
    BY ContentFacts
  <2> QED
    BY <2>1, SubSeqFull
<1> QED
  BY <1>1, <1>2, <1>5, <1>6, <1>11, <1>12, <1>13

-----------------------------------------------------------------------------
\* The replay.
\* The request at each of its stages.
Fetching == {"find", "update", "fill", "stitch"}
ReadStages == {"map"} \cup Fetching
WriteStages == {"trim", "cache", "store"}

\* What a read fetches.
Fetched ==
  /\ at \in 1..Len(pieces)
  /\ Assembles(disk, pieces, k0, BlockSize)
  /\ req.hit \in BOOLEAN /\ req.dirty \in BOOLEAN /\ (req.hit => ~req.dirty)
  /\ ~req.hit => Len(pieces) = 1 /\ pieces[1].content = k0

RequestOK ==
  /\ stage \in ReadStages \cup WriteStages \cup {"idle"}
  /\ stage # "idle" => b0 \in Blocks /\ k0 \in Contents
  /\ stage \in ReadStages => b0 \in DOMAIN disk /\ disk[b0] = k0
  /\ stage = "map" => req = [rw |-> "read", block |-> b0, content |-> k0,
                             hit |-> FALSE, dirty |-> FALSE]
  /\ IF stage \in Fetching THEN Fetched ELSE pieces = <<>>
  /\ stage = "stitch" => at = Len(pieces)
  /\ stage \in {"cache", "store"} => ~CleanIn(v2c, b0)

\* Nothing is put into the sector cache in the warm-up.
DevicesOK ==
  /\ DOMAIN disk \subseteq Blocks /\ disk \in [DOMAIN disk -> Contents]
  /\ DOMAIN sector \subseteq Blocks /\ sector \in [DOMAIN sector -> Contents]
  /\ warmup \in BOOLEAN
  /\ warmup => DOMAIN sector = {}

\* The inductive invariant.
ReplayInv ==
  /\ ChunkInv
  /\ DevicesOK
  /\ RequestOK
  /\ SectorFresh

-----------------------------------------------------------------------------
\* Steps that leave the metadata alone, and the disk where clean blocks are.
LEMMA SameMaps ==
  ASSUME ChunkInv, UNCHANGED chunkVars,
         \A x \in DOMAIN v2c : CleanIn(v2c, x) => x \in DOMAIN disk' /\ disk'[x] = disk[x]
  PROVE  ChunkInv'
<1>1. PICK e : e = disk'
  OBVIOUS
<1>2. Mapping(Tables, v2c, e)
  BY <1>1, OtherDisk DEF ChunkInv
<1>3. Tables' = Tables /\ v2c' = v2c
  BY DEF chunkVars, Tables
<1>4. Mapping(Tables', v2c', disk')
  BY <1>1, <1>2, <1>3
<1> QED
  BY <1>4 DEF ChunkInv

LEMMA SameDisk ==
  ASSUME ChunkInv, UNCHANGED chunkVars, disk' = disk
  PROVE  ChunkInv' /\ v2c' = v2c
<1>1. \A x \in DOMAIN v2c : CleanIn(v2c, x) => x \in DOMAIN disk
  BY DEF ChunkInv, Mapping, Named, CleanIn
<1> QED
  BY <1>1, SameMaps DEF chunkVars

LEMMA SectorPut ==
  ASSUME sector \in [DOMAIN sector -> Contents], DOMAIN sector \subseteq Blocks,
         NEW b \in Blocks, NEW k \in Contents, Sector!Put(b, k)
  PROVE  /\ DOMAIN sector' \subseteq Blocks
         /\ sector' \in [DOMAIN sector' -> Contents]
         /\ sector'[b] = k
         /\ \A x \in DOMAIN sector' : x # b => x \in DOMAIN sector /\ sector'[x] = sector[x]
<1>1. CASE Sector!Insert(b, k)
  <2>1. PICK kept \in SUBSET DOMAIN sector :
          sector' = [m \in kept \cup {b} |-> IF m = b THEN k ELSE sector[m]]
    BY <1>1 DEF Sector!Insert
  <2> QED
    BY <2>1
<1>2. CASE Sector!Update(b, k)
  BY <1>2 DEF Sector!Update
<1> QED
  BY <1>1, <1>2 DEF Sector!Put, Sector!Touch

LEMMA NothingMapped ==
  ASSUME ChunkInit, disk = [b \in {} |-> b]
  PROVE  ChunkInv
<1>1. PICK s : s = Tables
  OBVIOUS
<1>2. /\ s = [map |-> s.map, tab |-> s.tab, reusable |-> s.reusable, num |-> s.num]
      /\ DOMAIN s.map = {} /\ DOMAIN s.tab = {} /\ s.reusable = <<>> /\ s.num = 2
      /\ s.map \in [{} -> InfoType] /\ s.tab \in [{} -> Nat]
  BY <1>1 DEF Tables, ChunkInit
<1>3. DOMAIN v2c = {} /\ v2c \in [{} -> EntryType]
  BY DEF ChunkInit
<1>4. Named(s, v2c, disk)
  BY <1>3 DEF Named
<1>5. CutsOf(v2c, disk) = [x \in Blocks |-> <<>>]
  BY <1>3 DEF CutsOf, CleanIn
<1>6. AllOf(CutsOf(v2c, disk)) = [x \in Blocks |-> {}]
  <2>1. DOMAIN <<>> = {}
    OBVIOUS
  <2> QED
    BY <1>5, <2>1 DEF AllOf
<1>7. Sound(s)
  <2>1. AreTables(s)
    BY <1>2 DEF AreTables
  <2>2. ListsGood(s) /\ KeysFound(s)
    BY <1>2 DEF ListsGood, KeysFound
  <2>3. NumsAccounted(s)
    <3>1. ToSet(<<>>) = {} /\ IsInjective(<<>>) /\ 3..2 = {}
      BY DEF ToSet, IsInjective
    <3> QED
      BY <1>2, <3>1 DEF NumsAccounted
  <2> QED
    BY <2>1, <2>2, <2>3 DEF Sound
<1>8. PICK K : K = [x \in Blocks |-> <<>>]
  OBVIOUS
<1>9. PICK J : J = [x \in Blocks |-> {}]
  OBVIOUS
<1>10. Cutting(K, J)
  <2>1. <<>> \in Seq(ChunkType)
    OBVIOUS
  <2> QED
    BY <1>8, <1>9, <2>1 DEF Cutting
<1>11. TimesRight(s, K, J) /\ KeysKnown(s, K, J) /\ PlacesRight(s, K) /\ PlacesFound(s, K, J, Blocks)
  BY <1>2, <1>9 DEF TimesRight, KeysKnown, PlacesRight, PlacesFound
<1>12. Fits(s, K, J, Blocks)
  BY <1>7, <1>10, <1>11 DEF Fits
<1> QED
  BY <1>1, <1>4, <1>5, <1>6, <1>8, <1>9, <1>12 DEF ChunkInv, Mapping

LEMMA ReplayInitially == ReplayInit => ReplayInv
<1> SUFFICES ASSUME ReplayInit PROVE ReplayInv
  OBVIOUS
<1>1. ChunkInv
  BY NothingMapped DEF ReplayInit
<1>2. DOMAIN disk = {} /\ DOMAIN sector = {} /\ stage = "idle" /\ pieces = <<>> /\ warmup \in BOOLEAN
  BY DEF ReplayInit, Sector!StoreInit
<1>3. disk \in [DOMAIN disk -> Contents] /\ sector \in [DOMAIN sector -> Contents]
  BY DEF ReplayInit, Sector!StoreInit
<1> QED
  BY <1>1, <1>2, <1>3
  DEF ReplayInv, DevicesOK, RequestOK, SectorFresh, ReadStages, WriteStages, Fetching

LEMMA StartReadStep ==
  ASSUME ReplayInv, NEW b \in Blocks, NEW k \in Contents, StartRead(b, k)
  PROVE  ReplayInv'
<1>1. /\ stage = "idle" /\ stage' = "map"
      /\ req' = [rw |-> "read", block |-> b, content |-> k, hit |-> FALSE, dirty |-> FALSE]
      /\ UNCHANGED <<chunkVars, sector, warmup, pieces>>
  BY DEF StartRead, TakeUp
<1>2. /\ DOMAIN disk' = DOMAIN disk \cup {b}
      /\ disk'[b] = k
      /\ \A x \in DOMAIN disk : disk'[x] = disk[x]
      /\ disk' \in [DOMAIN disk' -> Contents]
  BY DEF ReplayInv, DevicesOK, StartRead, With
<1>3. ChunkInv'
  <2>1. \A x \in DOMAIN v2c : CleanIn(v2c, x) => x \in DOMAIN disk
    BY DEF ReplayInv, ChunkInv, Mapping, Named, CleanIn
  <2> QED
    BY <1>1, <1>2, <2>1, SameMaps DEF ReplayInv
<1>4. DevicesOK'
  BY <1>1, <1>2 DEF ReplayInv, DevicesOK
<1>5. RequestOK'
  <2>1. b0' = b /\ k0' = k
    BY <1>1 DEF b0, k0
  <2>2. pieces' = <<>>
    BY <1>1 DEF ReplayInv, RequestOK, Fetching
  <2> QED
    BY <1>1, <1>2, <2>1, <2>2 DEF RequestOK, ReadStages, WriteStages, Fetching
<1>6. SectorFresh'
  BY <1>1, <1>2 DEF ReplayInv, SectorFresh, Writing
<1> QED
  BY <1>3, <1>4, <1>5, <1>6 DEF ReplayInv

LEMMA StartWriteStep ==
  ASSUME ReplayInv, NEW b \in Blocks, NEW k \in Contents, StartWrite(b, k)
  PROVE  ReplayInv'
<1>1. /\ stage = "idle" /\ stage' = "trim"
      /\ req' = [rw |-> "write", block |-> b, content |-> k, hit |-> FALSE, dirty |-> FALSE]
      /\ UNCHANGED <<chunkVars, sector, warmup, pieces, disk>>
  BY DEF StartWrite, TakeUp
<1>2. ChunkInv'
  BY <1>1, SameDisk DEF ReplayInv
<1>3. RequestOK'
  <2>1. b0' = b /\ k0' = k
    BY <1>1 DEF b0, k0
  <2>2. pieces' = <<>>
    BY <1>1 DEF ReplayInv, RequestOK, Fetching
  <2> QED
    BY <1>1, <2>1, <2>2 DEF RequestOK, ReadStages, WriteStages, Fetching
<1>4. SectorFresh' /\ DevicesOK'
  BY <1>1 DEF ReplayInv, DevicesOK, SectorFresh, Writing
<1> QED
  BY <1>2, <1>3, <1>4 DEF ReplayInv

\* A read is redirected to pieces that have its letters ...
LEMMA RedirectStep ==
  ASSUME ReplayInv, Redirect
  PROVE  ReplayInv'
<1>1. /\ stage = "map" /\ stage' = "find" /\ at' = 1
      /\ req' = [req EXCEPT !.hit = TRUE]
      /\ pieces' = PiecesOf(v2c[b0].chunkIDUList)
      /\ Clean(b0)
      /\ UNCHANGED <<chunkVars, disk, sector, warmup>>
  BY DEF Redirect
<1>2. b0 \in Blocks /\ k0 \in Contents /\ b0 \in DOMAIN disk /\ disk[b0] = k0
  BY <1>1 DEF ReplayInv, RequestOK, ReadStages
<1>3. req = [rw |-> "read", block |-> b0, content |-> k0, hit |-> FALSE, dirty |-> FALSE]
  BY <1>1 DEF ReplayInv, RequestOK
<1>4. b0' = b0 /\ k0' = k0 /\ req'.hit = TRUE /\ req'.dirty = FALSE
  <2>1. req' = [rw |-> "read", block |-> b0, content |-> k0, hit |-> TRUE, dirty |-> FALSE]
    BY <1>1, <1>3
  <2> QED
    BY <2>1 DEF b0, k0
<1>5. PICK b \in Blocks : b = b0
  BY <1>2
<1>6. Assembles(disk, pieces', k0, BlockSize)
  <2>1. Assembles(disk, PiecesOf(v2c[b].chunkIDUList), disk[b], BlockSize)
    BY <1>1, <1>5, PiecesLoop DEF ReplayInv
  <2> QED
    BY <1>1, <1>2, <1>5, <2>1
<1>7. Len(pieces') \in Nat \ {0}
  BY <1>2, <1>6, AssembledBlock
<1>8. ChunkInv' /\ v2c' = v2c
  BY <1>1, SameDisk DEF ReplayInv
<1>9. Fetched'
  <2>1. at' \in 1..Len(pieces')
    BY <1>1, <1>7
  <2>2. Assembles(disk', pieces', k0', BlockSize)
    BY <1>1, <1>4, <1>6
  <2> QED
    BY <1>4, <2>1, <2>2 DEF Fetched
<1>10. RequestOK'
  BY <1>1, <1>2, <1>4, <1>9 DEF RequestOK, ReadStages, WriteStages, Fetching
<1>11. SectorFresh' /\ DevicesOK'
  BY <1>1 DEF ReplayInv, DevicesOK, SectorFresh, Writing
<1> QED
  BY <1>8, <1>10, <1>11 DEF ReplayInv

\* ... or fetches the block itself.
LEMMA WholeBlock ==
  ASSUME NEW b \in Blocks, NEW k \in Contents, b \in DOMAIN disk, disk[b] = k,
         NEW list, list = <<Piece(b, 0, BlockSize - 1, k)>>
  PROVE  Assembles(disk, list, k, BlockSize) /\ Len(list) = 1 /\ list[1].content = k
<1>1. PICK e \in Nat : e = BlockSize - 1 /\ e + 1 = BlockSize /\ e < BlockSize
  BY ChunkAssumption
<1>2. PICK p : p = Piece(b, 0, BlockSize - 1, k)
  OBVIOUS
<1>3. p = [ioblk |-> b, start |-> 0, end |-> e, content |-> k]
  BY <1>1, <1>2 DEF Piece
<1>4. GoodPiece(disk, p)
  <2>1. p \in PieceType
    BY <1>3 DEF PieceType
  <2>2. 0 <= e
    OBVIOUS
  <2> QED
    BY <1>1, <1>3, <2>1, <2>2 DEF GoodPiece
<1>5. PartIn(p) = SubSeq(k, 0 + 1, BlockSize)
  BY <1>1, <1>3, Zenon DEF PartIn
<1>6. Assembles(disk, Append(<<>>, p), k, BlockSize)
  <2>1. BlockSize \in Nat /\ 0 <= BlockSize /\ BlockSize <= BlockSize
    BY ChunkAssumption
  <2>2. Assembles(disk, <<>>, k, 0)
    BY NoPieces
  <2> QED
    BY <1>4, <1>5, <2>1, <2>2, PieceAppended
<1>7. list = <<p>> /\ Append(<<>>, p) = <<p>>
  BY <1>2
<1> QED
  BY <1>3, <1>6, <1>7

LEMMA FallBackStep ==
  ASSUME ReplayInv, FallBack
  PROVE  ReplayInv'
<1>1. /\ stage = "map" /\ stage' = "find" /\ at' = 1
      /\ req' = [req EXCEPT !.dirty = Dirty(b0)]
      /\ pieces' = <<Piece(b0, 0, BlockSize - 1, k0)>>
      /\ UNCHANGED <<chunkVars, disk, sector, warmup>>
  BY DEF FallBack
<1>2. b0 \in Blocks /\ k0 \in Contents /\ b0 \in DOMAIN disk /\ disk[b0] = k0
  BY <1>1 DEF ReplayInv, RequestOK, ReadStages
<1>3. req = [rw |-> "read", block |-> b0, content |-> k0, hit |-> FALSE, dirty |-> FALSE]
  BY <1>1 DEF ReplayInv, RequestOK
<1>4. Dirty(b0) \in BOOLEAN
  BY DEF ReplayInv, ChunkInv, Mapping, Named, EntryType, Dirty, Mapped
<1>5. b0' = b0 /\ k0' = k0 /\ req'.hit = FALSE /\ req'.dirty \in BOOLEAN
  <2>1. req' = [rw |-> "read", block |-> b0, content |-> k0, hit |-> FALSE, dirty |-> Dirty(b0)]
    BY <1>1, <1>3
  <2> QED
    BY <1>4, <2>1 DEF b0, k0
<1>6. Assembles(disk, pieces', k0, BlockSize) /\ Len(pieces') = 1 /\ pieces'[1].content = k0
  BY <1>1, <1>2, WholeBlock
<1>7. ChunkInv' /\ v2c' = v2c
  BY <1>1, SameDisk DEF ReplayInv
<1>8. Fetched'
  <2>1. at' \in 1..Len(pieces')
    BY <1>1, <1>6
  <2>2. Assembles(disk', pieces', k0', BlockSize)
    BY <1>1, <1>5, <1>6
  <2> QED
    BY <1>5, <1>6, <2>1, <2>2 DEF Fetched
<1>9. RequestOK'
  BY <1>1, <1>2, <1>5, <1>8 DEF RequestOK, ReadStages, WriteStages, Fetching
<1>10. SectorFresh' /\ DevicesOK'
  BY <1>1 DEF ReplayInv, DevicesOK, SectorFresh, Writing
<1> QED
  BY <1>7, <1>9, <1>10 DEF ReplayInv

\* The piece in progress.
LEMMA PieceFacts ==
  ASSUME ReplayInv, stage \in Fetching
  PROVE  /\ Fetched /\ Len(pieces) \in Nat /\ at \in Nat
         /\ p0.ioblk \in Blocks /\ p0.ioblk \in DOMAIN disk
         /\ p0.content \in Contents /\ p0.content = disk[p0.ioblk]
         /\ b0 \in Blocks /\ k0 \in Contents /\ b0 \in DOMAIN disk /\ disk[b0] = k0
<1>1. Fetched /\ b0 \in Blocks /\ k0 \in Contents /\ b0 \in DOMAIN disk /\ disk[b0] = k0
  BY DEF ReplayInv, RequestOK, ReadStages, Fetching
<1>2. pieces \in Seq(PieceType) /\ at \in 1..Len(pieces) /\ GoodPiece(disk, pieces[at])
  BY <1>1 DEF Fetched, Assembles
<1>3. Len(pieces) \in Nat
  BY <1>2, LenProperties
<1>4. p0 = pieces[at]
  BY DEF p0
<1> QED
  BY <1>1, <1>2, <1>3, <1>4 DEF GoodPiece, PieceType

LEMMA LookupStep ==
  ASSUME ReplayInv, FindInSector \/ MissInSector
  PROVE  ReplayInv'
<1>1. /\ stage = "find" /\ stage' = "update"
      /\ UNCHANGED <<chunkVars, disk, sector, req, warmup, pieces, at>>
  BY DEF FindInSector, MissInSector
<1>2. ChunkInv'
  BY <1>1, SameDisk DEF ReplayInv
<1>3. Fetched' /\ b0' = b0 /\ k0' = k0
  <2>1. Fetched
    BY <1>1, PieceFacts DEF Fetching
  <2> QED
    BY <1>1, <2>1 DEF Fetched, b0, k0
<1>4. RequestOK'
  <2>1. b0 \in Blocks /\ k0 \in Contents /\ b0 \in DOMAIN disk /\ disk[b0] = k0
    BY <1>1, PieceFacts DEF Fetching
  <2> QED
    BY <1>1, <1>3, <2>1 DEF RequestOK, ReadStages, WriteStages, Fetching
<1>5. SectorFresh' /\ DevicesOK'
  BY <1>1 DEF ReplayInv, DevicesOK, SectorFresh, Writing
<1> QED
  BY <1>2, <1>4, <1>5 DEF ReplayInv

\* The block fetched leads its chunks, or the block read is learnt.
LEMMA UpdateMapStep ==
  ASSUME ReplayInv, UpdateMap
  PROVE  ReplayInv'
<1>1. /\ stage = "update" /\ stage' = "fill"
      /\ IF req.hit THEN UpdateDedupfetch(p0.ioblk) ELSE Learn(b0, p0.content)
      /\ UNCHANGED <<disk, sector, warmup, req, pieces, at>>
  BY DEF UpdateMap
<1>2. /\ Fetched /\ Len(pieces) \in Nat
      /\ p0.ioblk \in Blocks
      /\ b0 \in Blocks /\ k0 \in Contents /\ b0 \in DOMAIN disk /\ disk[b0] = k0
  BY <1>1, PieceFacts DEF Fetching
<1>3. ChunkInv'
  <2>1. CASE req.hit
    <3>1. PICK b \in Blocks : b = p0.ioblk
      BY <1>2
    <3>2. UpdateDedupfetch(b)
      BY <1>1, <2>1, <3>1
    <3> QED
      BY <1>1, <3>2, LeadKeepsMaps DEF ReplayInv
  <2>2. CASE ~req.hit
    <3>1. PICK b \in Blocks, k \in Contents : b = b0 /\ k = k0
      BY <1>2
    <3>2. p0.content = k
      <4>1. Len(pieces) = 1 /\ pieces[1].content = k0 /\ at \in 1..Len(pieces)
        BY <1>2, <2>2 DEF Fetched
      <4>2. at = 1
        BY <4>1
      <4> QED
        BY <3>1, <4>1, <4>2 DEF p0
    <3>3. Learn(b, k)
      BY <1>1, <2>2, <3>1, <3>2
    <3> QED
      BY <1>1, <1>2, <3>1, <3>3, LearnKeepsMaps DEF ReplayInv
  <2> QED
    BY <2>1, <2>2
<1>4. Fetched' /\ b0' = b0 /\ k0' = k0
  BY <1>1, <1>2 DEF Fetched, b0, k0
<1>5. RequestOK'
  BY <1>1, <1>2, <1>4 DEF RequestOK, ReadStages, WriteStages, Fetching
<1>6. SectorFresh' /\ DevicesOK'
  BY <1>1 DEF ReplayInv, DevicesOK, SectorFresh, Writing
<1> QED
  BY <1>3, <1>5, <1>6 DEF ReplayInv

LEMMA PutUnderStep ==
  ASSUME DevicesOK, NEW b \in Blocks, NEW k \in Contents, PutUnder(b, k),
         UNCHANGED <<disk, warmup>>
  PROVE  /\ DevicesOK'
         /\ \/ sector' = sector /\ warmup
            \/ /\ sector'[b] = k
               /\ \A x \in DOMAIN sector' : x # b => x \in DOMAIN sector /\ sector'[x] = sector[x]
<1>1. CASE warmup
  BY <1>1 DEF DevicesOK, PutUnder
<1>2. CASE ~warmup
  <2>1. /\ DOMAIN sector' \subseteq Blocks
        /\ sector' \in [DOMAIN sector' -> Contents]
        /\ sector'[b] = k
        /\ \A x \in DOMAIN sector' : x # b => x \in DOMAIN sector /\ sector'[x] = sector[x]
    BY <1>2, SectorPut DEF DevicesOK, PutUnder
  <2> QED
    BY <1>2, <2>1 DEF DevicesOK
<1> QED
  BY <1>1, <1>2

LEMMA FillStep ==
  ASSUME ReplayInv, FillSector
  PROVE  ReplayInv'
<1>1. /\ stage = "fill"
      /\ IF p0.ioblk \in DOMAIN sector THEN UNCHANGED sector
         ELSE PutUnder(p0.ioblk, p0.content)
      /\ \/ at < Len(pieces) /\ at' = at + 1 /\ stage' = "find"
         \/ ~(at < Len(pieces)) /\ at' = at /\ stage' = "stitch"
      /\ UNCHANGED <<chunkVars, disk, warmup, pieces, req>>
  BY DEF FillSector
<1>2. /\ Fetched /\ Len(pieces) \in Nat /\ at \in Nat
      /\ p0.ioblk \in Blocks /\ p0.ioblk \in DOMAIN disk
      /\ p0.content \in Contents /\ p0.content = disk[p0.ioblk]
      /\ b0 \in Blocks /\ k0 \in Contents /\ b0 \in DOMAIN disk /\ disk[b0] = k0
  BY <1>1, PieceFacts DEF Fetching
<1>3. ChunkInv'
  BY <1>1, SameDisk DEF ReplayInv
<1>4. b0' = b0 /\ k0' = k0
  BY <1>1 DEF b0, k0
<1>5. at' \in 1..Len(pieces) /\ (stage' = "stitch" => at' = Len(pieces))
  <2>1. PICK a \in Nat, m \in Nat : a = at /\ m = Len(pieces) /\ a \in 1..m
    BY <1>2 DEF Fetched
  <2>2. at' \in 1..m /\ (stage' = "stitch" => at' = m)
    BY <1>1, <2>1
  <2> QED
    BY <2>1, <2>2
<1>6. Fetched'
  BY <1>1, <1>2, <1>4, <1>5 DEF Fetched
<1>7. RequestOK'
  BY <1>1, <1>2, <1>4, <1>5, <1>6 DEF RequestOK, ReadStages, WriteStages, Fetching
<1>8. PICK b \in Blocks, k \in Contents : b = p0.ioblk /\ k = p0.content
  BY <1>2
<1>9. /\ DevicesOK'
      /\ \/ sector' = sector
         \/ /\ sector'[b] = k
            /\ \A x \in DOMAIN sector' : x # b => x \in DOMAIN sector /\ sector'[x] = sector[x]
  <2>1. CASE b \in DOMAIN sector
    BY <1>1, <1>8, <2>1 DEF ReplayInv, DevicesOK
  <2>2. CASE b \notin DOMAIN sector
    <3>1. PutUnder(b, k)
      BY <1>1, <1>8, <2>2
    <3> QED
      BY <1>1, <3>1, PutUnderStep DEF ReplayInv
  <2> QED
    BY <2>1, <2>2
<1>10. SectorFresh'
  <2>1. \A x : ~Writing(x) /\ ~Writing(x)'
    BY <1>1 DEF Writing
  <2>2. \A x \in DOMAIN sector : x \in DOMAIN disk /\ sector[x] = disk[x]
    BY <2>1 DEF ReplayInv, SectorFresh
  <2>3. \A x \in DOMAIN sector' : x \in DOMAIN disk' /\ sector'[x] = disk'[x]
    BY <1>1, <1>2, <1>8, <1>9, <2>2
  <2> QED
    BY <2>1, <2>3 DEF SectorFresh
<1> QED
  BY <1>3, <1>7, <1>9, <1>10 DEF ReplayInv

\* A read is done.
LEMMA StitchStep ==
  ASSUME ReplayInv, Stitch
  PROVE  ReplayInv' /\ reply' = <<b0, disk[b0]>> /\ b0 \in Blocks /\ b0 \in DOMAIN disk
<1>1. /\ stage = "stitch" /\ stage' = "idle" /\ pieces' = <<>>
      /\ reply' = <<b0, Stitched>>
      /\ UNCHANGED <<chunkVars, disk, sector, warmup, req>>
  BY DEF Stitch
<1>2. /\ Fetched
      /\ b0 \in Blocks /\ k0 \in Contents /\ b0 \in DOMAIN disk /\ disk[b0] = k0
  BY <1>1, PieceFacts DEF Fetching
<1>3. Stitched = k0
  <2>1. PICK list : list = pieces
    OBVIOUS
  <2>2. PICK k \in Contents : k = k0
    BY <1>2
  <2>3. FlattenSeq(PartsOf(list)) = k
    BY <1>2, <2>1, <2>2, AssembledBlock DEF Fetched
  <2> QED
    BY <2>1, <2>2, <2>3, Zenon DEF Stitched, PartsOf
<1>4. ChunkInv'
  BY <1>1, SameDisk DEF ReplayInv
<1>5. RequestOK'
  BY <1>1 DEF RequestOK, ReadStages, WriteStages, Fetching
<1>6. SectorFresh' /\ DevicesOK'
  BY <1>1 DEF ReplayInv, DevicesOK, SectorFresh, Writing
<1> QED
  BY <1>1, <1>2, <1>3, <1>4, <1>5, <1>6 DEF ReplayInv

LEMMA TrimMapStep ==
  ASSUME ReplayInv, TrimMap
  PROVE  ReplayInv'
<1>1. stage = "trim" /\ stage' = "cache" /\ Trim(b0)
      /\ UNCHANGED <<disk, sector, warmup, req, pieces>>
  BY DEF TrimMap
<1>2. b0 \in Blocks /\ k0 \in Contents /\ pieces = <<>>
  BY <1>1 DEF ReplayInv, RequestOK, Fetching
<1>3. b0' = b0 /\ k0' = k0
  BY <1>1 DEF b0, k0
<1>4. ChunkInv' /\ ~CleanIn(v2c', b0)
  <2>1. PICK b \in Blocks : b = b0
    BY <1>2
  <2>2. Trim(b) /\ disk' = disk
    BY <1>1, <2>1
  <2> QED
    BY <2>1, <2>2, TrimKeepsMaps DEF ReplayInv
<1>5. RequestOK'
  <2>1. ~CleanIn(v2c', b0')
    BY <1>3, <1>4
  <2> QED
    BY <1>1, <1>2, <1>3, <2>1 DEF RequestOK, ReadStages, WriteStages, Fetching
<1>6. SectorFresh' /\ DevicesOK'
  BY <1>1 DEF ReplayInv, DevicesOK, SectorFresh, Writing
<1> QED
  BY <1>4, <1>5, <1>6 DEF ReplayInv

LEMMA WriteSectorStep ==
  ASSUME ReplayInv, WriteSector
  PROVE  ReplayInv'
<1>1. /\ stage = "cache" /\ stage' = "store"
      /\ PutUnder(b0, k0)
      /\ UNCHANGED <<chunkVars, disk, warmup, req, pieces>>
  BY DEF WriteSector
<1>2. b0 \in Blocks /\ k0 \in Contents /\ pieces = <<>> /\ ~CleanIn(v2c, b0)
  BY <1>1 DEF ReplayInv, RequestOK, Fetching
<1>3. b0' = b0 /\ k0' = k0
  BY <1>1 DEF b0, k0
<1>4. ChunkInv' /\ v2c' = v2c
  BY <1>1, SameDisk DEF ReplayInv
<1>5. RequestOK'
  BY <1>1, <1>2, <1>3, <1>4 DEF RequestOK, ReadStages, WriteStages, Fetching
<1>6. PICK b \in Blocks, k \in Contents : b = b0 /\ k = k0
  BY <1>2
<1>7. /\ DevicesOK'
      /\ \/ sector' = sector /\ warmup
         \/ /\ sector'[b] = k
            /\ \A x \in DOMAIN sector' : x # b => x \in DOMAIN sector /\ sector'[x] = sector[x]
  <2>1. PutUnder(b, k) /\ UNCHANGED <<disk, warmup>>
    BY <1>1, <1>6
  <2> QED
    BY <2>1, PutUnderStep DEF ReplayInv
<1>8. SectorFresh'
  <2>1. \A x : ~Writing(x) /\ (Writing(x)' <=> x = b)
    BY <1>1, <1>3, <1>6 DEF Writing
  <2>2. \A x \in DOMAIN sector : x \in DOMAIN disk /\ sector[x] = disk[x]
    BY <2>1 DEF ReplayInv, SectorFresh
  <2>3. ASSUME NEW x \in DOMAIN sector'
        PROVE  IF x = b THEN sector'[x] = k ELSE x \in DOMAIN disk' /\ sector'[x] = disk'[x]
    <3>1. CASE sector' = sector /\ warmup
      BY <3>1 DEF ReplayInv, DevicesOK
    <3>2. CASE ~(sector' = sector /\ warmup)
      BY <1>1, <1>7, <2>2, <3>2
    <3> QED
      BY <3>1, <3>2
  <2> QED
    BY <1>3, <1>6, <2>1, <2>3 DEF SectorFresh
<1> QED
  BY <1>4, <1>5, <1>7, <1>8 DEF ReplayInv

\* The block that is written has no clean mapping, so that no place becomes
\* outdated.
LEMMA WriteDiskStep ==
  ASSUME ReplayInv, WriteDisk
  PROVE  ReplayInv'
<1>1. /\ stage = "store" /\ stage' = "idle"
      /\ disk' = With(disk, b0, k0)
      /\ UNCHANGED <<chunkVars, sector, warmup, req, pieces>>
  BY DEF WriteDisk
<1>2. b0 \in Blocks /\ k0 \in Contents /\ pieces = <<>> /\ ~CleanIn(v2c, b0)
  BY <1>1 DEF ReplayInv, RequestOK, Fetching
<1>3. /\ DOMAIN disk' = DOMAIN disk \cup {b0}
      /\ disk'[b0] = k0
      /\ \A x \in DOMAIN disk : x # b0 => disk'[x] = disk[x]
      /\ disk' \in [DOMAIN disk' -> Contents]
  BY <1>1, <1>2 DEF With, ReplayInv, DevicesOK
<1>4. ChunkInv'
  <2>1. \A x \in DOMAIN v2c : CleanIn(v2c, x) => x \in DOMAIN disk
    BY DEF ReplayInv, ChunkInv, Mapping, Named, CleanIn
  <2>2. \A x \in DOMAIN v2c : CleanIn(v2c, x) => x \in DOMAIN disk' /\ disk'[x] = disk[x]
    BY <1>2, <1>3, <2>1
  <2> QED
    BY <1>1, <2>2, SameMaps DEF ReplayInv
<1>5. DevicesOK'
  BY <1>1, <1>2, <1>3 DEF ReplayInv, DevicesOK
<1>6. RequestOK'
  BY <1>1, <1>2 DEF RequestOK, ReadStages, WriteStages, Fetching
<1>7. SectorFresh'
  BY <1>1, <1>2, <1>3 DEF ReplayInv, SectorFresh, Writing
<1> QED
  BY <1>4, <1>5, <1>6, <1>7 DEF ReplayInv

LEMMA RestStep ==
  ASSUME ReplayInv, EndWarmup \/ UNCHANGED replayVars
  PROVE  ReplayInv'
<1>0. warmup \in BOOLEAN
  BY DEF ReplayInv, DevicesOK
<1>1. /\ UNCHANGED <<chunkVars, disk, sector, stage, req, pieces, at>>
      /\ warmup' \in BOOLEAN /\ (warmup' => warmup)
  <2>1. CASE EndWarmup
    BY <2>1 DEF EndWarmup
  <2>2. CASE UNCHANGED replayVars
    <3>1. UNCHANGED <<chunkVars, disk, sector, stage, req, pieces, at>> /\ warmup' = warmup
      BY <2>2 DEF replayVars, requestVars
    <3> QED
      BY <1>0, <3>1
  <2> QED
    BY <2>1, <2>2
<1>2. ChunkInv' /\ v2c' = v2c
  BY <1>1, SameDisk DEF ReplayInv
<1>3. b0' = b0 /\ k0' = k0
  BY <1>1 DEF b0, k0
<1>4. Fetched' <=> Fetched
  BY <1>1, <1>3 DEF Fetched
<1>5. RequestOK'
  BY <1>1, <1>2, <1>3, <1>4 DEF ReplayInv, RequestOK
<1>6. SectorFresh' /\ DevicesOK'
  BY <1>1, <1>3 DEF ReplayInv, DevicesOK, SectorFresh, Writing
<1> QED
  BY <1>2, <1>5, <1>6 DEF ReplayInv

LEMMA ReplayStep == ReplayInv /\ [ReplayNext]_replayVars => ReplayInv'
<1> SUFFICES ASSUME ReplayInv, [ReplayNext]_replayVars
             PROVE  ReplayInv'
  OBVIOUS
<1>1. ASSUME NEW b \in Blocks, NEW k \in Contents, StartRead(b, k) \/ StartWrite(b, k)
      PROVE  ReplayInv'
  BY <1>1, StartReadStep, StartWriteStep
<1>2. CASE PreplayMap
  BY <1>2, RedirectStep, FallBackStep, TrimMapStep DEF PreplayMap
<1>3. CASE ReadStep
  BY <1>3, LookupStep, UpdateMapStep, FillStep, StitchStep DEF ReadStep
<1>4. CASE WriteStep
  BY <1>4, WriteSectorStep, WriteDiskStep DEF WriteStep
<1>5. CASE EndWarmup \/ UNCHANGED replayVars
  BY <1>5, RestStep
<1> QED
  BY <1>1, <1>2, <1>3, <1>4, <1>5 DEF ReplayNext

\* The inductive invariant of the replay: the tables hold the chunks of what
\* the disk has in the clean blocks, and the pieces of a read have its letters.
THEOREM ProvidedInvariant == ReplaySpec => []ReplayInv
  BY ReplayInitially, ReplayStep, PTL DEF ReplaySpec

\* Block map, chunk map, hash table, marks and identifiers agree whatever is
\* chunked, trimmed and fetched (chunking.c:157, serveio.c:1404-1520).
THEOREM ChunkMapsTheorem == ReplaySpec => []ChunkMapsAgree
<1>1. ReplayInv => ChunkMapsAgree
  BY MapsAgree DEF ReplayInv
<1> QED
  BY <1>1, ProvidedInvariant, PTL

\* Any place of a chunk may be fetched for any other, and neither the sector
\* cache nor a piece has outdated content (sectorcache.c:200-206).
THEOREM ChunksFreshTheorem == ReplaySpec => []ChunksFresh
<1>1. ReplayInv => PiecesFresh
  <2> SUFFICES ASSUME ReplayInv, NEW i \in DOMAIN pieces
               PROVE  pieces[i].content = disk[pieces[i].ioblk]
    BY DEF PiecesFresh
  <2>1. CASE stage \in Fetching
    <3>1. Assembles(disk, pieces, k0, BlockSize)
      BY <2>1, PieceFacts DEF Fetched
    <3>2. i \in 1..Len(pieces)
      BY <3>1, LenProperties DEF Assembles
    <3> QED
      BY <3>1, <3>2 DEF Assembles, GoodPiece
  <2>2. CASE stage \notin Fetching
    <3>1. pieces = <<>> /\ DOMAIN <<>> = {}
      BY <2>2 DEF ReplayInv, RequestOK
    <3> QED
      BY <3>1
  <2> QED
    BY <2>1, <2>2
<1>2. ReplayInv => ChunksFresh
  BY <1>1, PlacesAreFresh DEF ReplayInv, ChunksFresh
<1> QED
  BY <1>2, ProvidedInvariant, PTL

-----------------------------------------------------------------------------
\* The refinement of BlockDevice: a read that is stitched is a read of the
\* device, and the steps that change the disk are discoveries and writes.
LEMMA DeviceStep ==
  ASSUME ReplayInv, [ReplayNext]_replayVars
  PROVE  [Device!DeviceNext]_<<disk, reply>>
<1>1. ASSUME NEW b \in Blocks, NEW k \in Contents, StartRead(b, k)
      PROVE  [Device!DeviceNext]_<<disk, reply>>
  <2>1. CASE b \in DOMAIN disk
    <3>1. disk' = With(disk, b, disk[b]) /\ reply' = reply
      BY <1>1, <2>1 DEF StartRead, TakeUp
    <3>2. disk' = disk
      BY <2>1, <3>1 DEF With, ReplayInv, DevicesOK
    <3> QED
      BY <3>1, <3>2
  <2>2. CASE b \notin DOMAIN disk
    <3>1. Device!Discover(b, k)
      BY <1>1, <2>2 DEF StartRead, TakeUp, With, Device!Discover, Device!Hold
    <3> QED
      BY <3>1 DEF Device!DeviceNext
  <2> QED
    BY <2>1, <2>2
<1>2. CASE Stitch
  <2>1. reply' = <<b0, disk[b0]>> /\ b0 \in Blocks /\ b0 \in DOMAIN disk
    BY <1>2, StitchStep
  <2>2. Device!Read(b0)
    BY <1>2, <2>1 DEF Stitch, Device!Read
  <2> QED
    BY <2>1, <2>2 DEF Device!DeviceNext
<1>3. CASE WriteDisk
  <2>1. b0 \in Blocks /\ k0 \in Contents
    BY <1>3 DEF WriteDisk, ReplayInv, RequestOK, WriteStages
  <2>2. Device!Write(b0, k0)
    BY <1>3 DEF WriteDisk, With, Device!Write, Device!Hold
  <2> QED
    BY <2>1, <2>2 DEF Device!DeviceNext
<1> QED
  BY <1>1, <1>2, <1>3
     DEF ReplayNext, PreplayMap, ReadStep, WriteStep, StartWrite, TakeUp, Redirect, FallBack,
         FindInSector, MissInSector, UpdateMap, FillSector, WriteSector, TrimMap, EndWarmup,
         replayVars, requestVars

\* Whatever blocks its pieces come from, a read is answered with the content
\* last written to its block.
THEOREM StitchedDeviceTheorem == ReplaySpec => StitchedImplementsDevice
<1>1. ReplayInit => Device!DeviceInit
  BY DEF ReplayInit, Device!DeviceInit
<1>2. ReplayInv /\ [ReplayNext]_replayVars => [Device!DeviceNext]_<<disk, reply>>
  BY DeviceStep
<1> QED
  BY <1>1, <1>2, ProvidedInvariant, PTL
  DEF ReplaySpec, StitchedImplementsDevice, Device!DeviceSpec


-----------------------------------------------------------------------------
\* The counters of a request.  Those in the equations of sim_replay_exit:
Equated ==
  {"ptotalreq", "ptotalreadreq", "ptotalwritereq", "ptotalblk", "ptotalblkread",
   "ptotalblkwrite", "porigblkwrite", "vmap_hits", "vmap_misses", "vmap_dirties",
   "bcache_hits_r", "bcache_misses_r", "capacity_misses", "compulsory_misses",
   "vmapmiss_cachehits", "vmapdirty_cachehits"}

Balanced ==
  /\ c("ptotalblkread") = c("compulsory_misses") + c("bcache_hits_r") + c("capacity_misses")
  /\ c("bcache_misses_r") = c("compulsory_misses") + c("capacity_misses")
  /\ c("compulsory_misses") = c("vmap_misses") - c("vmap_dirties")
                              - c("vmapmiss_cachehits") + c("vmapdirty_cachehits")
  /\ c("vmap_hits") + c("ptotalblkread") - c("ptotalreadreq") =
       c("capacity_misses") - (c("vmap_dirties") - c("vmapdirty_cachehits"))
         + c("bcache_hits_r") - c("vmapmiss_cachehits")
  /\ c("ptotalreadreq") + c("ptotalwritereq") = c("ptotalreq")
  /\ c("ptotalblkread") + c("ptotalblkwrite") = c("ptotalblk")
  /\ c("porigblkwrite") = c("ptotalblkwrite")

\* What the metadata have counted of a read that fetches n packets.
Asked(n) ==
  /\ c("ptotalreq") = 1 /\ c("ptotalreadreq") = 1 /\ c("ptotalwritereq") = 0
  /\ c("ptotalblk") = n /\ c("ptotalblkread") = n
  /\ c("ptotalblkwrite") = 0 /\ c("porigblkwrite") = 0

\* What has become of the packets: they were found in the sector cache or
\* not, and this is settled by what the metadata made of the block.
SettledHit ==
  /\ c("vmap_hits") = 1 /\ c("vmap_misses") = 0 /\ c("vmap_dirties") = 0
  /\ c("capacity_misses") = c("bcache_misses_r") /\ c("compulsory_misses") = 0
  /\ c("vmapmiss_cachehits") = 0 /\ c("vmapdirty_cachehits") = 0
SettledMiss ==
  /\ c("vmap_hits") = 0 /\ c("vmap_misses") = 1 /\ c("vmap_dirties") = 0
  /\ c("capacity_misses") = 0 /\ c("compulsory_misses") = c("bcache_misses_r")
  /\ c("vmapmiss_cachehits") = c("bcache_hits_r") /\ c("vmapdirty_cachehits") = 0
SettledDirty ==
  /\ c("vmap_hits") = 0 /\ c("vmap_misses") = 1 /\ c("vmap_dirties") = 1
  /\ c("capacity_misses") = c("bcache_misses_r") /\ c("compulsory_misses") = 0
  /\ c("vmapmiss_cachehits") = c("bcache_hits_r")
  /\ c("vmapdirty_cachehits") = c("bcache_hits_r")
Settled(hit, dirty) ==
  /\ hit => SettledHit
  /\ ~hit /\ ~dirty => SettledMiss
  /\ ~hit /\ dirty => SettledDirty

Done == IF stage = "find" THEN at - 1 ELSE at    \* the packets looked up so far
Reading(n, done, hit, dirty) ==
  /\ Asked(n)
  /\ c("bcache_hits_r") + c("bcache_misses_r") = done
  /\ Settled(hit, dirty)

NothingCounted == \A x \in Equated : c(x) = 0

\* The invariant of the counters: the warm-up counts nothing of the
\* equations, and a read has counted what its stage and flags say.
CountInv ==
  /\ \A x \in Equated : c(x) \in Nat
  /\ warmup \/ stage \in {"map", "trim"} => NothingCounted
  /\ ~warmup /\ stage \in Fetching => Reading(Len(pieces), Done, req.hit, req.dirty)
  /\ stage \in {"idle", "cache", "store"} => Balanced

-----------------------------------------------------------------------------
\* Counting.
CountsUp(S) == \A x : c(x)' = c(x) + (IF x \in S THEN 1 ELSE 0)

LEMMA CopiesAdd ==
  ASSUME NEW B, NEW D, NEW x
  PROVE  (IF BagIn(x, B (+) D) THEN (B (+) D)[x] ELSE 0) =
         (IF BagIn(x, B) THEN B[x] ELSE 0) + (IF BagIn(x, D) THEN D[x] ELSE 0)
BY DEF BagIn, BagToSet, (+)

LEMMA SetCopies ==
  ASSUME NEW S, NEW x
  PROVE  (IF BagIn(x, SetToBag(S)) THEN SetToBag(S)[x] ELSE 0) = (IF x \in S THEN 1 ELSE 0)
BY DEF BagIn, BagToSet, SetToBag

LEMMA AlsoAdds == ASSUME NEW S, Also(SetToBag(S)) PROVE CountsUp(S)
<1> SUFFICES ASSUME NEW x PROVE c(x)' = c(x) + (IF x \in S THEN 1 ELSE 0)
  BY DEF CountsUp
<1>1. c(x)' = IF BagIn(x, counted (+) SetToBag(S)) THEN (counted (+) SetToBag(S))[x] ELSE 0
  BY DEF c, Also
<1> QED
  BY <1>1, CopiesAdd, SetCopies DEF c

LEMMA SameCounts == ASSUME counted' = counted, NEW x PROVE c(x)' = c(x)
BY DEF c

LEMMA NothingInEmpty == ASSUME counted = EmptyBag PROVE NothingCounted
BY DEF NothingCounted, c, EmptyBag, SetToBag, BagIn, BagToSet

LEMMA NothingInEmptyNext == ASSUME counted' = EmptyBag PROVE NothingCounted'
BY DEF NothingCounted, c, EmptyBag, SetToBag, BagIn, BagToSet

LEMMA NothingBalanced == NothingCounted => Balanced /\ \A x \in Equated : c(x) \in Nat
BY DEF NothingCounted, Balanced, Equated

LEMMA NothingBalancedNext == NothingCounted' => Balanced' /\ \A x \in Equated : c(x)' \in Nat
BY DEF NothingCounted, Balanced, Equated

\* The metadata's part of a read.
TimesOf(name, n) == [x \in {name} |-> n]

LEMMA TimesCopies ==
  ASSUME NEW name, NEW n, NEW x
  PROVE  (IF BagIn(x, TimesOf(name, n)) THEN TimesOf(name, n)[x] ELSE 0) =
         (IF x = name THEN n ELSE 0)
BY DEF BagIn, BagToSet, TimesOf

PacketCount(S, n, x) ==
  (IF x \in S \cup {"ptotalreq", "ptotalreadreq", "porigblkread"} THEN 1 ELSE 0)
  + (IF x = "ptotalblk" THEN n ELSE 0) + (IF x = "ptotalblkread" THEN n ELSE 0)

LEMMA PacketsCounted ==
  ASSUME NEW S, NEW kind, NEW n \in Nat, CountPackets(S, kind, n), NothingCounted,
         kind \notin Equated
  PROVE  IF warmup THEN NothingCounted'
         ELSE \A x \in Equated : c(x)' = PacketCount(S, n, x)
<1> DEFINE T == SetToBag(S \cup {"ptotalreq", "ptotalreadreq", "porigblkread"})
           U == T (+) TimesOf("ptotalblk", n)
           V == U (+) TimesOf("ptotalblkread", n)
           W == TimesOf(kind, n)
<1> HIDE DEF T, U, V, W
<1>1. counted' = counted (+) (W (+) IF warmup THEN EmptyBag ELSE V)
  BY DEF CountPackets, Also, TimesOf, T, U, V, W
<1>2. ASSUME NEW x \in Equated
      PROVE  c(x)' = IF warmup THEN 0 ELSE PacketCount(S, n, x)
  <2>1. PICK D : D = IF warmup THEN EmptyBag ELSE V
    OBVIOUS
  <2>2. c(x)' = IF BagIn(x, counted (+) (W (+) D)) THEN (counted (+) (W (+) D))[x] ELSE 0
    BY <1>1, <2>1 DEF c
  <2>3. c(x)' = c(x) + (IF BagIn(x, W (+) D) THEN (W (+) D)[x] ELSE 0)
    BY <2>2, CopiesAdd DEF c
  <2>4. (IF BagIn(x, W (+) D) THEN (W (+) D)[x] ELSE 0) =
        (IF BagIn(x, W) THEN W[x] ELSE 0) + (IF BagIn(x, D) THEN D[x] ELSE 0)
    BY CopiesAdd
  <2>5. (IF BagIn(x, W) THEN W[x] ELSE 0) = 0
    BY TimesCopies DEF W
  <2>6. c(x) = 0
    BY DEF NothingCounted
  <2>7. CASE warmup
    <3>1. (IF BagIn(x, D) THEN D[x] ELSE 0) = 0
      BY <2>1, <2>7, SetCopies DEF EmptyBag
    <3> QED
      BY <2>3, <2>4, <2>5, <2>6, <2>7, <3>1
  <2>8. CASE ~warmup
    <3>1. (IF BagIn(x, V) THEN V[x] ELSE 0) =
          (IF BagIn(x, U) THEN U[x] ELSE 0) + (IF x = "ptotalblkread" THEN n ELSE 0)
      BY CopiesAdd, TimesCopies DEF V
    <3>2. (IF BagIn(x, U) THEN U[x] ELSE 0) =
          (IF BagIn(x, T) THEN T[x] ELSE 0) + (IF x = "ptotalblk" THEN n ELSE 0)
      BY CopiesAdd, TimesCopies DEF U
    <3>3. (IF BagIn(x, T) THEN T[x] ELSE 0) =
          (IF x \in S \cup {"ptotalreq", "ptotalreadreq", "porigblkread"} THEN 1 ELSE 0)
      BY SetCopies DEF T
    <3>4. D = V
      BY <2>1, <2>8
    <3> QED
      BY <2>3, <2>4, <2>5, <2>6, <2>8, <3>1, <3>2, <3>3, <3>4 DEF PacketCount
  <2> QED
    BY <2>7, <2>8
<1> QED
  BY <1>2 DEF NothingCounted

LEMMA AskedFor ==
  ASSUME NEW n \in Nat, NEW hit \in BOOLEAN, NEW dirty \in BOOLEAN, hit => ~dirty,
         \A x \in Equated :
           c(x)' = PacketCount(IF hit THEN {"vmap_hits"}
                               ELSE {"vmap_misses"} \cup (IF dirty THEN {"vmap_dirties"} ELSE {}),
                               n, x)
  PROVE  Reading(n, 0, hit, dirty)' /\ \A x \in Equated : c(x)' \in Nat
<1> DEFINE S == IF hit THEN {"vmap_hits"}
                ELSE {"vmap_misses"} \cup (IF dirty THEN {"vmap_dirties"} ELSE {})
<1>1. \A x \in Equated : c(x)' = PacketCount(S, n, x)
  OBVIOUS
<1>2. \A x \in Equated : c(x)' \in Nat
  BY <1>1 DEF PacketCount
<1>3. Asked(n)'
  BY <1>1 DEF PacketCount, Asked, Equated
<1>4. /\ c("bcache_hits_r")' = 0 /\ c("bcache_misses_r")' = 0
      /\ c("capacity_misses")' = 0 /\ c("compulsory_misses")' = 0
      /\ c("vmapmiss_cachehits")' = 0 /\ c("vmapdirty_cachehits")' = 0
  BY <1>1 DEF PacketCount, Equated
<1>5. CASE hit
  <2>1. \A x \in Equated : c(x)' = PacketCount({"vmap_hits"}, n, x)
    BY <1>1, <1>5
  <2>2. c("vmap_hits")' = 1 /\ c("vmap_misses")' = 0 /\ c("vmap_dirties")' = 0
    BY <2>1 DEF PacketCount, Equated
  <2>3. SettledHit'
    BY <1>4, <2>2 DEF SettledHit
  <2> QED
    BY <1>2, <1>3, <1>4, <1>5, <2>3 DEF Reading, Settled
<1>6. CASE ~hit /\ dirty
  <2>1. \A x \in Equated : c(x)' = PacketCount({"vmap_misses", "vmap_dirties"}, n, x)
    BY <1>1, <1>6
  <2>2. c("vmap_hits")' = 0 /\ c("vmap_misses")' = 1 /\ c("vmap_dirties")' = 1
    BY <2>1 DEF PacketCount, Equated
  <2>3. SettledDirty'
    BY <1>4, <2>2 DEF SettledDirty
  <2> QED
    BY <1>2, <1>3, <1>4, <1>6, <2>3 DEF Reading, Settled
<1>7. CASE ~hit /\ ~dirty
  <2>1. \A x \in Equated : c(x)' = PacketCount({"vmap_misses"}, n, x)
    BY <1>1, <1>7
  <2>2. c("vmap_hits")' = 0 /\ c("vmap_misses")' = 1 /\ c("vmap_dirties")' = 0
    BY <2>1 DEF PacketCount, Equated
  <2>3. SettledMiss'
    BY <1>4, <2>2 DEF SettledMiss
  <2> QED
    BY <1>2, <1>3, <1>4, <1>7, <2>3 DEF Reading, Settled
<1> QED
  BY <1>5, <1>6, <1>7

\* A packet found in the sector cache or not.
LEMMA PacketFound ==
  ASSUME NEW n \in Nat, NEW done \in Nat, NEW hit \in BOOLEAN, NEW dirty \in BOOLEAN,
         hit => ~dirty,
         Reading(n, done, hit, dirty), \A x \in Equated : c(x) \in Nat,
         CountsUp({"bcache_hits_r"} \cup
           (IF hit THEN {}
            ELSE {"vmapmiss_cachehits"} \cup (IF dirty THEN {"vmapdirty_cachehits"} ELSE {})))
  PROVE  Reading(n, done + 1, hit, dirty)' /\ \A x \in Equated : c(x)' \in Nat
<1> DEFINE S == {"bcache_hits_r"} \cup
           (IF hit THEN {}
            ELSE {"vmapmiss_cachehits"} \cup (IF dirty THEN {"vmapdirty_cachehits"} ELSE {}))
<1>1. \A x : c(x)' = c(x) + (IF x \in S THEN 1 ELSE 0)
  BY DEF CountsUp
<1>2. \A x \in Equated : c(x)' \in Nat
  BY <1>1
<1>3. Asked(n)'
  BY <1>1 DEF Asked, Reading
<1>4. /\ c("bcache_hits_r")' = c("bcache_hits_r") + 1
      /\ c("bcache_misses_r")' = c("bcache_misses_r")
      /\ c("vmap_hits")' = c("vmap_hits") /\ c("vmap_misses")' = c("vmap_misses")
      /\ c("vmap_dirties")' = c("vmap_dirties")
      /\ c("capacity_misses")' = c("capacity_misses")
      /\ c("compulsory_misses")' = c("compulsory_misses")
      /\ c("vmapmiss_cachehits")' = c("vmapmiss_cachehits") + (IF hit THEN 0 ELSE 1)
      /\ c("vmapdirty_cachehits")' = c("vmapdirty_cachehits") + (IF dirty THEN 1 ELSE 0)
  BY <1>1, <1>2 DEF Equated, Reading, Settled, SettledHit, SettledMiss, SettledDirty
<1>5. c("bcache_hits_r") \in Nat /\ c("bcache_misses_r") \in Nat
  BY DEF Equated
<1>6. Settled(hit, dirty)'
  BY <1>4, <1>5 DEF Settled, SettledHit, SettledMiss, SettledDirty, Reading
<1> QED
  BY <1>2, <1>3, <1>4, <1>5, <1>6 DEF Reading

LEMMA PacketMissed ==
  ASSUME NEW n \in Nat, NEW done \in Nat, NEW hit \in BOOLEAN, NEW dirty \in BOOLEAN,
         hit => ~dirty,
         Reading(n, done, hit, dirty), \A x \in Equated : c(x) \in Nat,
         CountsUp({"bcache_misses_r", "disk_hits_r",
                   IF hit \/ dirty THEN "capacity_misses" ELSE "compulsory_misses"}
                  \cup (IF hit THEN {} ELSE {"vmapmiss_cachemisses"}))
  PROVE  Reading(n, done + 1, hit, dirty)' /\ \A x \in Equated : c(x)' \in Nat
<1> DEFINE S == {"bcache_misses_r", "disk_hits_r",
                   IF hit \/ dirty THEN "capacity_misses" ELSE "compulsory_misses"}
                  \cup (IF hit THEN {} ELSE {"vmapmiss_cachemisses"})
<1>1. \A x : c(x)' = c(x) + (IF x \in S THEN 1 ELSE 0)
  BY DEF CountsUp
<1>2. \A x \in Equated : c(x)' \in Nat
  BY <1>1
<1>3. Asked(n)'
  BY <1>1 DEF Asked, Reading
<1>4. /\ c("bcache_hits_r")' = c("bcache_hits_r")
      /\ c("bcache_misses_r")' = c("bcache_misses_r") + 1
      /\ c("vmap_hits")' = c("vmap_hits") /\ c("vmap_misses")' = c("vmap_misses")
      /\ c("vmap_dirties")' = c("vmap_dirties")
      /\ c("capacity_misses")' = c("capacity_misses") + (IF hit \/ dirty THEN 1 ELSE 0)
      /\ c("compulsory_misses")' = c("compulsory_misses") + (IF hit \/ dirty THEN 0 ELSE 1)
      /\ c("vmapmiss_cachehits")' = c("vmapmiss_cachehits")
      /\ c("vmapdirty_cachehits")' = c("vmapdirty_cachehits")
  BY <1>1, <1>2 DEF Equated, Reading, Settled, SettledHit, SettledMiss, SettledDirty
<1>5. c("bcache_hits_r") \in Nat /\ c("bcache_misses_r") \in Nat
  BY DEF Equated
<1>6. Settled(hit, dirty)'
  BY <1>4, <1>5 DEF Settled, SettledHit, SettledMiss, SettledDirty, Reading
<1> QED
  BY <1>2, <1>3, <1>4, <1>5, <1>6 DEF Reading

\* A read all of whose packets have been looked up is balanced: of a block
\* that is not put together from pieces there is one.
LEMMA ReadBalanced ==
  ASSUME NEW n \in Nat, NEW hit \in BOOLEAN, NEW dirty \in BOOLEAN, ~hit => n = 1,
         Reading(n, n, hit, dirty), \A x \in Equated : c(x) \in Nat
  PROVE  Balanced
<1>1. c("bcache_hits_r") \in Nat /\ c("bcache_misses_r") \in Nat
  BY DEF Equated
<1>2. CASE hit
  BY <1>1, <1>2 DEF Reading, Asked, Settled, SettledHit, Balanced
<1>3. CASE ~hit /\ ~dirty
  BY <1>1, <1>3 DEF Reading, Asked, Settled, SettledMiss, Balanced
<1>4. CASE ~hit /\ dirty
  BY <1>1, <1>4 DEF Reading, Asked, Settled, SettledDirty, Balanced
<1> QED
  BY <1>2, <1>3, <1>4

LEMMA WriteBalanced ==
  ASSUME NothingCounted, CountsUp({"ptotalreq", "ptotalwritereq", "ptotalblk",
                                   "ptotalblkwrite", "porigblkwrite"})
  PROVE  Balanced' /\ \A x \in Equated : c(x)' \in Nat
<1>1. \A x \in Equated : c(x) = 0
  BY DEF NothingCounted
<1>2. \A x \in Equated :
         c(x)' = IF x \in {"ptotalreq", "ptotalwritereq", "ptotalblk",
                           "ptotalblkwrite", "porigblkwrite"} THEN 1 ELSE 0
  BY <1>1 DEF CountsUp
<1>3. Balanced'
  BY <1>2 DEF Balanced, Equated
<1> QED
  BY <1>2, <1>3

\* A step that counts nothing.
LEMMA NothingNew ==
  ASSUME counted' = counted
  PROVE  /\ NothingCounted' <=> NothingCounted
         /\ Balanced' <=> Balanced
         /\ (\A x \in Equated : c(x) \in Nat)' <=> (\A x \in Equated : c(x) \in Nat)
         /\ \A n, done, hit, dirty : Reading(n, done, hit, dirty)' <=> Reading(n, done, hit, dirty)
<1>1. \A x : c(x)' = c(x)
  BY SameCounts
<1>2. NothingCounted' <=> NothingCounted
  BY <1>1 DEF NothingCounted
<1>3. Balanced' <=> Balanced
  BY <1>1 DEF Balanced
<1>4. (\A x \in Equated : c(x) \in Nat)' <=> (\A x \in Equated : c(x) \in Nat)
  BY <1>1
<1>5. ASSUME NEW n, NEW done, NEW hit, NEW dirty
      PROVE  Reading(n, done, hit, dirty)' <=> Reading(n, done, hit, dirty)
  <2>1. Asked(n)' <=> Asked(n)
    BY <1>1 DEF Asked
  <2>2. /\ SettledHit' <=> SettledHit
        /\ SettledMiss' <=> SettledMiss
        /\ SettledDirty' <=> SettledDirty
    BY <1>1 DEF SettledHit, SettledMiss, SettledDirty
  <2>3. Settled(hit, dirty)' <=> Settled(hit, dirty)
    BY <2>2 DEF Settled
  <2> QED
    BY <1>1, <2>1, <2>3 DEF Reading
<1> QED
  BY <1>2, <1>3, <1>4, <1>5

\* What a request has counted when it is taken up: nothing.
LEMMA TakenUp ==
  ASSUME counted' = EmptyBag, stage' \in {"map", "trim", "idle"}
  PROVE  CountInv'
<1>1. NothingCounted'
  BY NothingInEmptyNext
<1>2. Balanced' /\ \A x \in Equated : c(x)' \in Nat
  BY <1>1, NothingBalancedNext
<1> QED
  BY <1>1, <1>2 DEF CountInv, Fetching

\* The metadata's part of a read.
LEMMA MapCounts ==
  ASSUME NEW n \in Nat, NEW hit \in BOOLEAN, NEW dirty \in BOOLEAN, hit => ~dirty,
         NEW kind, kind \notin Equated, NEW S,
         S = IF hit THEN {"vmap_hits"}
             ELSE {"vmap_misses"} \cup (IF dirty THEN {"vmap_dirties"} ELSE {}),
         CountInv, stage = "map", CountPackets(S, kind, n), warmup' = warmup,
         stage' = "find", at' = 1, Len(pieces') = n, req'.hit = hit, req'.dirty = dirty
  PROVE  CountInv'
<1>1. NothingCounted
  BY DEF CountInv
<1>2. IF warmup THEN NothingCounted' ELSE \A x \in Equated : c(x)' = PacketCount(S, n, x)
  BY <1>1, PacketsCounted
<1>3. Done' = 0
  BY DEF Done
<1>4. CASE warmup
  <2>1. NothingCounted' /\ \A x \in Equated : c(x)' \in Nat
    BY <1>2, <1>4, NothingBalancedNext
  <2> QED
    BY <1>4, <2>1 DEF CountInv
<1>5. CASE ~warmup
  <2>1. Reading(n, 0, hit, dirty)' /\ \A x \in Equated : c(x)' \in Nat
    BY <1>2, <1>5, AskedFor
  <2>2. Reading(Len(pieces), Done, req.hit, req.dirty)'
    BY <1>3, <2>1 DEF Reading, Settled
  <2> QED
    BY <1>5, <2>1, <2>2 DEF CountInv
<1> QED
  BY <1>4, <1>5

LEMMA RedirectCounts ==
  ASSUME ReplayInv, ReplayInv', CountInv, Redirect
  PROVE  CountInv'
<1>1. PICK n : n = Len(pieces')
  OBVIOUS
<1>2. Fetched' /\ at' = 1
  BY DEF Redirect, ReplayInv, RequestOK, Fetching
<1>3. n \in Nat
  BY <1>1, <1>2 DEF Fetched, Assembles
<1>4. /\ stage = "map" /\ stage' = "find" /\ warmup' = warmup
      /\ CountPackets({"vmap_hits"}, "pro_blkread", n)
  BY <1>1 DEF Redirect
<1>5. req'.hit = TRUE /\ req'.dirty = FALSE
  BY DEF Redirect, ReplayInv, RequestOK
<1>6. "pro_blkread" \notin Equated
  BY DEF Equated
<1> QED
  BY <1>1, <1>2, <1>3, <1>4, <1>5, <1>6, MapCounts

LEMMA FallBackCounts ==
  ASSUME ReplayInv, ReplayInv', CountInv, FallBack
  PROVE  CountInv'
<1>1. PICK S, dirty : /\ S = {"vmap_misses"} \cup (IF Dirty(b0) THEN {"vmap_dirties"} ELSE {})
                      /\ dirty = Dirty(b0)
  OBVIOUS
<1>2. /\ stage = "map" /\ stage' = "find" /\ warmup' = warmup /\ at' = 1
      /\ CountPackets(S, "pro_fallback_blkread", 1)
      /\ Len(pieces') = 1
  BY <1>1 DEF FallBack
<1>3. req'.hit = FALSE /\ req'.dirty = dirty
  BY <1>1 DEF FallBack, ReplayInv, RequestOK
<1>4. Fetched'
  BY <1>2 DEF ReplayInv, RequestOK, Fetching
<1>5. dirty \in BOOLEAN
  BY <1>3, <1>4 DEF Fetched
<1>6. "pro_fallback_blkread" \notin Equated
  BY DEF Equated
<1>7. S = IF FALSE THEN {"vmap_hits"}
          ELSE {"vmap_misses"} \cup (IF dirty THEN {"vmap_dirties"} ELSE {})
  BY <1>1
<1> QED
  BY <1>2, <1>3, <1>5, <1>6, <1>7, MapCounts

\* A packet is looked up in the sector cache.
LEMMA FindCounts ==
  ASSUME ReplayInv, CountInv, FindInSector \/ MissInSector
  PROVE  CountInv'
<1>1. /\ stage = "find" /\ stage' = "update"
      /\ warmup' = warmup /\ UNCHANGED <<req, pieces, at>>
  BY DEF FindInSector, MissInSector
<1>2. Fetched
  BY <1>1 DEF ReplayInv, RequestOK, Fetching
<1>3. PICK n, hit, dirty : n = Len(pieces) /\ hit = req.hit /\ dirty = req.dirty
  OBVIOUS
<1>4. /\ n \in Nat /\ at \in 1..n /\ hit \in BOOLEAN /\ dirty \in BOOLEAN
      /\ (hit => ~dirty)
  BY <1>2, <1>3 DEF Fetched, Assembles
<1>5. \A x \in Equated : c(x) \in Nat
  BY DEF CountInv
<1>6. CASE warmup
  <2>1. NothingCounted /\ counted' = counted
    BY <1>6 DEF CountInv, FindInSector, MissInSector, Count
  <2>2. NothingCounted' /\ \A x \in Equated : c(x)' \in Nat
    BY <2>1, NothingNew, NothingBalancedNext
  <2> QED
    BY <1>1, <1>6, <2>2 DEF CountInv
<1>7. CASE ~warmup
  <2>1. Done = at - 1 /\ Done' = at
    BY <1>1 DEF Done
  <2>2. Reading(n, at - 1, hit, dirty)
    <3>1. Reading(Len(pieces), Done, req.hit, req.dirty)
      BY <1>1, <1>7 DEF CountInv, Fetching
    <3> QED
      BY <1>3, <2>1, <3>1
  <2>3. Reading(n, at, hit, dirty)' /\ \A x \in Equated : c(x)' \in Nat
    <3>1. PICK done : done = at - 1
      OBVIOUS
    <3>2. done \in Nat /\ done + 1 = at
      BY <1>4, <3>1
    <3>3. CASE FindInSector
      <4>1. Also(SetToBag({"bcache_hits_r"} \cup
              (IF hit THEN {}
               ELSE {"vmapmiss_cachehits"} \cup (IF dirty THEN {"vmapdirty_cachehits"} ELSE {}))))
        BY <1>3, <1>7, <3>3 DEF FindInSector, Count
      <4>2. Reading(n, done + 1, hit, dirty)' /\ \A x \in Equated : c(x)' \in Nat
        BY <1>4, <1>5, <2>2, <3>1, <3>2, <4>1, AlsoAdds, PacketFound
      <4> QED
        BY <1>1, <3>2, <4>2 DEF Reading
    <3>4. CASE MissInSector
      <4>1. Also(SetToBag({"bcache_misses_r", "disk_hits_r",
                 IF hit \/ dirty THEN "capacity_misses" ELSE "compulsory_misses"}
              \cup (IF hit THEN {} ELSE {"vmapmiss_cachemisses"})))
        BY <1>3, <1>7, <3>4 DEF MissInSector, Count
      <4>2. Reading(n, done + 1, hit, dirty)' /\ \A x \in Equated : c(x)' \in Nat
        BY <1>4, <1>5, <2>2, <3>1, <3>2, <4>1, AlsoAdds, PacketMissed
      <4> QED
        BY <1>1, <3>2, <4>2 DEF Reading
    <3> QED
      BY <3>3, <3>4
  <2>4. Reading(Len(pieces), Done, req.hit, req.dirty)'
    BY <1>1, <1>3, <2>1, <2>3 DEF Reading, Settled
  <2> QED
    BY <1>1, <1>7, <2>3, <2>4 DEF CountInv
<1> QED
  BY <1>6, <1>7

\* A piece after the other is put in place.
LEMMA UpdateCounts ==
  ASSUME ReplayInv, CountInv, UpdateMap \/ FillSector
  PROVE  CountInv'
<1>1. /\ counted' = counted /\ warmup' = warmup /\ UNCHANGED <<req, pieces>>
      /\ stage \in Fetching /\ stage' \in Fetching
  BY DEF UpdateMap, FillSector, Fetching
<1>2. Done' = Done
  <2>1. CASE UpdateMap
    BY <2>1 DEF UpdateMap, Done
  <2>2. CASE FillSector /\ stage' = "find"
    <3>1. stage = "fill" /\ at' = at + 1 /\ at < Len(pieces)
      BY <2>2 DEF FillSector
    <3>2. Done' = at' - 1 /\ Done = at
      BY <2>2, <3>1 DEF Done
    <3>3. at \in Nat
      BY <1>1 DEF ReplayInv, RequestOK, Fetched, Assembles
    <3> QED
      BY <3>1, <3>2, <3>3
  <2>3. CASE FillSector /\ stage' # "find"
    BY <2>3 DEF FillSector, Done
  <2> QED
    BY <1>1, <2>1, <2>2, <2>3
<1>3. CASE warmup
  <2>1. NothingCounted' /\ (\A x \in Equated : c(x) \in Nat)'
    BY <1>1, <1>3, NothingNew DEF CountInv
  <2> QED
    BY <1>1, <1>3, <2>1 DEF CountInv, Fetching
<1>4. CASE ~warmup
  <2>1. (\A x \in Equated : c(x) \in Nat)'
    BY <1>1, NothingNew DEF CountInv
  <2>2. PICK n, done, hit, dirty :
            n = Len(pieces) /\ done = Done /\ hit = req.hit /\ dirty = req.dirty
    OBVIOUS
  <2>3. Reading(n, done, hit, dirty)
    <3>1. Reading(Len(pieces), Done, req.hit, req.dirty)
      BY <1>1, <1>4 DEF CountInv
    <3> QED
      BY <2>2, <3>1
  <2>4. Reading(n, done, hit, dirty)'
    BY <1>1, <2>3, NothingNew
  <2>5. Reading(Len(pieces), Done, req.hit, req.dirty)'
    BY <1>1, <1>2, <2>2, <2>4 DEF Reading, Settled
  <2> QED
    BY <1>1, <1>4, <2>1, <2>5 DEF CountInv, Fetching
<1> QED
  BY <1>3, <1>4

LEMMA StitchCounts ==
  ASSUME ReplayInv, CountInv, Stitch
  PROVE  CountInv'
<1>1. stage = "stitch" /\ stage' = "idle" /\ counted' = counted /\ warmup' = warmup
  BY DEF Stitch
<1>2. Fetched /\ at = Len(pieces)
  BY <1>1 DEF ReplayInv, RequestOK, Fetching
<1>3. CASE warmup
  <2>1. NothingCounted'
    BY <1>1, <1>3, NothingNew DEF CountInv
  <2>2. Balanced' /\ \A x \in Equated : c(x)' \in Nat
    BY <2>1, NothingBalancedNext
  <2> QED
    BY <1>1, <2>1, <2>2 DEF CountInv, Fetching
<1>4. CASE ~warmup
  <2>1. PICK n, hit, dirty : n = Len(pieces) /\ hit = req.hit /\ dirty = req.dirty
    OBVIOUS
  <2>2. n \in Nat /\ hit \in BOOLEAN /\ dirty \in BOOLEAN /\ (~hit => n = 1)
    BY <1>2, <2>1 DEF Fetched, Assembles
  <2>3. Reading(n, n, hit, dirty)
    <3>1. Reading(Len(pieces), Done, req.hit, req.dirty)
      BY <1>1, <1>4 DEF CountInv, Fetching
    <3>2. Done = Len(pieces)
      BY <1>1, <1>2 DEF Done
    <3> QED
      BY <2>1, <3>1, <3>2
  <2>4. Balanced /\ \A x \in Equated : c(x) \in Nat
    BY <2>2, <2>3, ReadBalanced DEF CountInv
  <2>5. Balanced' /\ (\A x \in Equated : c(x) \in Nat)'
    BY <1>1, <2>4, NothingNew
  <2> QED
    BY <1>1, <1>4, <2>5 DEF CountInv, Fetching
<1> QED
  BY <1>3, <1>4

LEMMA WriteCounts ==
  ASSUME ReplayInv, CountInv, TrimMap \/ WriteSector \/ WriteDisk
  PROVE  CountInv'
<1>1. warmup' = warmup /\ stage' \in {"cache", "store", "idle"}
  BY DEF TrimMap, WriteSector, WriteDisk
<1>2. CASE TrimMap
  <2>1. NothingCounted
    BY <1>2 DEF TrimMap, CountInv
  <2>2. CASE warmup
    <3>1. NothingCounted'
      BY <1>2, <2>1, <2>2, NothingNew DEF TrimMap, CountWrite, Count
    <3>2. Balanced' /\ \A x \in Equated : c(x)' \in Nat
      BY <3>1, NothingBalancedNext
    <3> QED
      BY <1>1, <3>1, <3>2 DEF CountInv, Fetching
  <2>3. CASE ~warmup
    <3>1. Also(SetToBag({"ptotalreq", "ptotalwritereq", "ptotalblk", "ptotalblkwrite",
                         "porigblkwrite"}))
      BY <1>2, <2>3 DEF TrimMap, CountWrite, Count
    <3>2. Balanced' /\ \A x \in Equated : c(x)' \in Nat
      BY <2>1, <3>1, AlsoAdds, WriteBalanced
    <3> QED
      BY <1>1, <2>3, <3>2 DEF CountInv, Fetching
  <2> QED
    BY <2>2, <2>3
<1>3. CASE WriteSector \/ WriteDisk
  <2>1. counted' = counted /\ stage \in {"cache", "store"}
    BY <1>3 DEF WriteSector, WriteDisk
  <2>2. Balanced' /\ (\A x \in Equated : c(x) \in Nat)' /\ (warmup => NothingCounted')
    BY <2>1, NothingNew DEF CountInv
  <2> QED
    BY <1>1, <2>2 DEF CountInv, Fetching
<1> QED
  BY <1>2, <1>3

LEMMA RestCounts ==
  ASSUME CountInv, UNCHANGED replayVars
  PROVE  CountInv'
<1>1. counted' = counted /\ UNCHANGED <<warmup, stage, req, pieces, at>> /\ Done' = Done
  BY DEF replayVars, requestVars, Done
<1>2. /\ NothingCounted' <=> NothingCounted
      /\ Balanced' <=> Balanced
      /\ (\A x \in Equated : c(x) \in Nat)' <=> (\A x \in Equated : c(x) \in Nat)
  BY <1>1, NothingNew
<1>3. Reading(Len(pieces), Done, req.hit, req.dirty)' <=>
      Reading(Len(pieces), Done, req.hit, req.dirty)
  <2>1. PICK n, done, hit, dirty :
            n = Len(pieces) /\ done = Done /\ hit = req.hit /\ dirty = req.dirty
    OBVIOUS
  <2>2. Reading(n, done, hit, dirty)' <=> Reading(n, done, hit, dirty)
    BY <1>1, NothingNew
  <2> QED
    BY <1>1, <2>1, <2>2 DEF Reading, Settled
<1> QED
  BY <1>1, <1>2, <1>3 DEF CountInv

\* At the end of every read and write the counters balance as
\* sim_replay_exit asserts of their sums (main_sim_replay.c:1352, 1355-1360,
\* 1610, 1611, 1614), however many pieces a block was put together from.
THEOREM ProvidedAccountedTheorem == ReplaySpec => []ProvidedAccounted
<1>1. ReplayInit => CountInv
  <2> SUFFICES ASSUME ReplayInit PROVE CountInv
    OBVIOUS
  <2>1. counted = EmptyBag /\ stage = "idle"
    BY DEF ReplayInit
  <2> QED
    BY <2>1, NothingInEmpty, NothingBalanced DEF CountInv, Fetching
<1>2. ReplayInv /\ ReplayInv' /\ CountInv /\ [ReplayNext]_replayVars => CountInv'
  <2> SUFFICES ASSUME ReplayInv, ReplayInv', CountInv, [ReplayNext]_replayVars
               PROVE  CountInv'
    OBVIOUS
  <2>1. ASSUME NEW b \in Blocks, NEW k \in Contents, StartRead(b, k) \/ StartWrite(b, k)
        PROVE  CountInv'
    BY <2>1, TakenUp DEF StartRead, StartWrite, TakeUp
  <2>2. CASE PreplayMap
    BY <2>2, RedirectCounts, FallBackCounts, WriteCounts DEF PreplayMap
  <2>3. CASE ReadStep
    BY <2>3, FindCounts, UpdateCounts, StitchCounts DEF ReadStep
  <2>4. CASE WriteStep
    BY <2>4, WriteCounts DEF WriteStep
  <2>5. CASE EndWarmup
    BY <2>5, TakenUp DEF EndWarmup
  <2>6. CASE UNCHANGED replayVars
    BY <2>6, RestCounts
  <2> QED
    BY <2>1, <2>2, <2>3, <2>4, <2>5, <2>6 DEF ReplayNext
<1>3. CountInv => ProvidedAccounted
  BY DEF CountInv, ProvidedAccounted, Balanced
<1> QED
  BY <1>1, <1>2, <1>3, ProvidedInvariant, PTL DEF ReplaySpec
=============================================================================
