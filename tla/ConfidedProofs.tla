--------------------------- MODULE ConfidedProofs ---------------------------
(***************************************************************************)
(* Theorems about the metadata of CONFIDED mode and the replay of requests *)
(* in that mode, for any finite set of blocks, any set of contents, any    *)
(* replacement policy of the sector cache and traces of any length.        *)
(***************************************************************************)
EXTENDS ConfidedReplay, SequenceFacts

-----------------------------------------------------------------------------
\* The list of an element: it has one tuple with the mark, and a block at most
\* once.
GoodList(f) ==
  /\ f \in Seq(TupleType)
  /\ \E p \in DOMAIN f : Marked(f) = {p}
  /\ \A p, q \in DOMAIN f : f[p].blockID = f[q].blockID => p = q

BlocksIn(f) == {f[p].blockID : p \in DOMAIN f}
LeaderIn(f) == f[First(Marked(f))].blockID

LEMMA FirstOfOne ==
  ASSUME NEW p \in Nat
  PROVE  First({p}) = p
BY DEF First

LEMMA GoodListFacts ==
  ASSUME NEW f, GoodList(f)
  PROVE  /\ Cardinality(Marked(f)) = 1
         /\ First(Marked(f)) \in DOMAIN f /\ Marked(f) = {First(Marked(f))}
         /\ LeaderIn(f) \in BlocksIn(f)
         /\ DOMAIN f = 1..Len(f) /\ Len(f) \in Nat \ {0}
         /\ \A p \in DOMAIN f : f[p] \in TupleType
         /\ BlocksIn(f) \subseteq Blocks
<1>1. DOMAIN f = 1..Len(f) /\ Len(f) \in Nat /\ \A p \in DOMAIN f : f[p] \in TupleType
  BY LenProperties, ElementOfSeq DEF GoodList
<1>2. PICK p \in DOMAIN f : Marked(f) = {p}
  BY DEF GoodList
<1>3. First(Marked(f)) = p
  BY <1>1, <1>2, FirstOfOne
<1>4. Cardinality(Marked(f)) = 1
  BY <1>2, FS_Singleton
<1>5. Len(f) # 0
  BY <1>1, <1>2
<1>6. \A q \in DOMAIN f : f[q].blockID \in Blocks /\ f[q].blockID \in BlocksIn(f)
  BY <1>1 DEF TupleType, BlocksIn
<1>7. LeaderIn(f) \in BlocksIn(f)
  BY <1>3, <1>6 DEF LeaderIn
<1>8. BlocksIn(f) \subseteq Blocks
  BY <1>6 DEF BlocksIn
<1> QED
  BY <1>1, <1>2, <1>3, <1>4, <1>5, <1>7, <1>8

\* The list of a new element.
LEMMA NewList ==
  ASSUME NEW b \in Blocks
  PROVE  GoodList(<<Tuple(b)>>) /\ BlocksIn(<<Tuple(b)>>) = {b}
<1> DEFINE f == <<Tuple(b)>>
<1>1. f \in Seq(TupleType) /\ DOMAIN f = {1} /\ f[1] = Tuple(b)
  BY DEF Tuple, TupleType
<1> HIDE DEF f
<1>2. Marked(f) = {1}
  BY <1>1 DEF Marked, Tuple
<1>3. BlocksIn(f) = {b}
  BY <1>1 DEF BlocksIn, Tuple
<1> QED
  BY <1>1, <1>2, <1>3 DEF GoodList, f

\* A block that joins takes the mark over.
LEMMA JoinedList ==
  ASSUME NEW f, GoodList(f), NEW b \in Blocks, b \notin BlocksIn(f)
  PROVE  /\ GoodList(<<Tuple(b)>> \o Unmark(f))
         /\ BlocksIn(<<Tuple(b)>> \o Unmark(f)) = BlocksIn(f) \cup {b}
<1> DEFINE m == First(Marked(f))
           u == Unmark(f)
           one == <<Tuple(b)>>
           g == one \o u
<1>1. /\ m \in 1..Len(f) /\ Marked(f) = {m}
      /\ DOMAIN f = 1..Len(f) /\ Len(f) \in Nat
      /\ \A p \in 1..Len(f) : f[p] \in TupleType
  BY GoodListFacts
<1>2. u = [f EXCEPT ![m] = [f[m] EXCEPT !.dedupfetch = FALSE]]
  BY DEF Unmark, SetMark
<1>3. [f[m] EXCEPT !.dedupfetch = FALSE] \in TupleType
  BY <1>1 DEF TupleType
<1>4. /\ u \in Seq(TupleType) /\ Len(u) = Len(f)
      /\ \A p \in 1..Len(f) : u[p].blockID = f[p].blockID /\ ~u[p].dedupfetch
  <2>1. /\ u \in Seq(TupleType) /\ Len(u) = Len(f)
        /\ \A p \in 1..Len(f) : u[p] = IF p = m THEN [f[m] EXCEPT !.dedupfetch = FALSE]
                                       ELSE f[p]
    BY <1>1, <1>2, <1>3, ExceptSeq DEF GoodList
  <2>2. \A p \in 1..Len(f) : p # m => ~f[p].dedupfetch
    BY <1>1 DEF Marked
  <2>3. [f[m] EXCEPT !.dedupfetch = FALSE].blockID = f[m].blockID
    BY <1>1 DEF TupleType
  <2>4. ~[f[m] EXCEPT !.dedupfetch = FALSE].dedupfetch
    BY <1>1 DEF TupleType
  <2> QED
    BY <2>1, <2>2, <2>3, <2>4
<1>5. one \in Seq(TupleType) /\ Len(one) = 1 /\ one[1] = Tuple(b)
  BY DEF Tuple, TupleType
<1> HIDE DEF m, u, one
<1>6. /\ g \in Seq(TupleType) /\ Len(g) = Len(f) + 1 /\ DOMAIN g = 1..(Len(f) + 1)
      /\ g[1] = Tuple(b)
      /\ \A p \in 2..(Len(f) + 1) : g[p] = u[p - 1]
  <2>1. /\ g \in Seq(TupleType) /\ Len(g) = 1 + Len(f)
        /\ \A p \in 1..(1 + Len(f)) : g[p] = IF p <= 1 THEN one[p] ELSE u[p - 1]
    <3>1. /\ g \in Seq(TupleType) /\ Len(g) = Len(one) + Len(u)
          /\ \A p \in 1..(Len(one) + Len(u)) :
               g[p] = IF p <= Len(one) THEN one[p] ELSE u[p - Len(one)]
      BY <1>4, <1>5, ConcatProperties
    <3> HIDE DEF g
    <3> QED
      BY <1>4, <1>5, <3>1
  <2>2. DOMAIN g = 1..Len(g) /\ 1 + Len(f) = Len(f) + 1
    BY <1>1, <2>1, LenProperties
  <2>3. g[1] = Tuple(b)
    BY <1>1, <1>5, <2>1
  <2>4. \A p \in 2..(Len(f) + 1) : p \in 1..(1 + Len(f)) /\ ~(p <= 1)
    BY <1>1
  <2> QED
    BY <2>1, <2>2, <2>3, <2>4
<1> HIDE DEF g
<1>7. /\ g[1].blockID = b /\ g[1].dedupfetch
      /\ \A p \in 2..(Len(f) + 1) :
           /\ p - 1 \in 1..Len(f)
           /\ g[p].blockID = f[p - 1].blockID /\ ~g[p].dedupfetch
  BY <1>1, <1>4, <1>6 DEF Tuple
<1>8. Marked(g) = {1}
  BY <1>1, <1>6, <1>7 DEF Marked
<1>9. \A p, q \in DOMAIN g : g[p].blockID = g[q].blockID => p = q
  <2>1. \A p \in 1..Len(f) : f[p].blockID # b
    BY <1>1 DEF BlocksIn
  <2> SUFFICES ASSUME NEW p \in DOMAIN g, NEW q \in DOMAIN g, g[p].blockID = g[q].blockID
               PROVE  p = q
    OBVIOUS
  <2>2. CASE p = 1 \/ q = 1
    BY <1>1, <1>6, <1>7, <2>1, <2>2
  <2>3. CASE p # 1 /\ q # 1
    <3>1. p \in 2..(Len(f) + 1) /\ q \in 2..(Len(f) + 1)
      BY <1>1, <1>6, <2>3
    <3>2. /\ p - 1 \in DOMAIN f /\ q - 1 \in DOMAIN f
          /\ f[p - 1].blockID = f[q - 1].blockID
      BY <1>1, <1>7, <3>1
    <3>3. p - 1 = q - 1
      BY <3>2 DEF GoodList
    <3> QED
      BY <3>1, <3>3
  <2> QED
    BY <2>2, <2>3
<1>10. BlocksIn(g) = BlocksIn(f) \cup {b}
  <2>1. ASSUME NEW p \in DOMAIN g
        PROVE  g[p].blockID \in BlocksIn(f) \cup {b}
    <3>1. p = 1 \/ p \in 2..(Len(f) + 1)
      BY <1>1, <1>6
    <3>2. CASE p = 1
      BY <1>7, <3>2
    <3>3. CASE p \in 2..(Len(f) + 1)
      <4>1. p - 1 \in DOMAIN f /\ g[p].blockID = f[p - 1].blockID
        BY <1>1, <1>7, <3>3
      <4> QED
        BY <4>1 DEF BlocksIn
    <3> QED
      BY <3>1, <3>2, <3>3
  <2>2. ASSUME NEW p \in DOMAIN f
        PROVE  f[p].blockID \in BlocksIn(g)
    <3>1. p + 1 \in DOMAIN g /\ g[p + 1].blockID = f[p + 1 - 1].blockID
      BY <1>1, <1>6, <1>7
    <3>2. p + 1 - 1 = p
      BY <1>1
    <3> QED
      BY <3>1, <3>2 DEF BlocksIn
  <2>3. b \in BlocksIn(g)
    BY <1>1, <1>6, <1>7 DEF BlocksIn
  <2> QED
    BY <2>1, <2>2, <2>3 DEF BlocksIn
<1> QED
  <2>1. GoodList(g)
    BY <1>6, <1>8, <1>9 DEF GoodList
  <2> QED
    BY <2>1, <1>10 DEF g, u, one

\* A block that leaves a list of several hands its mark to another.
LEMMA LeftList ==
  ASSUME NEW f, GoodList(f), NEW b \in BlocksIn(f), Len(f) > 1
  PROVE  /\ GoodList(DelF2V(f, b))
         /\ BlocksIn(DelF2V(f, b)) = BlocksIn(f) \ {b}
<1> DEFINE i == First(PlacesOf(f, b))
           m == First(Marked(f))
           h == IF f[i].dedupfetch THEN MarkAnother(f) ELSE f
           g == RemoveAt(h, i)
<1>1. /\ m \in 1..Len(f) /\ Marked(f) = {m}
      /\ DOMAIN f = 1..Len(f) /\ Len(f) \in Nat
      /\ \A p \in 1..Len(f) : f[p] \in TupleType
  BY GoodListFacts
<1>2. i \in 1..Len(f) /\ f[i].blockID = b
  <2>1. PICK p \in DOMAIN f : f[p].blockID = b
    BY DEF BlocksIn
  <2>2. PlacesOf(f, b) = {p}
    BY <2>1 DEF PlacesOf, GoodList
  <2>3. First(PlacesOf(f, b)) = p
    BY <1>1, <2>1, <2>2, FirstOfOne
  <2> QED
    BY <1>1, <2>1, <2>3
<1>3. \A p \in 1..Len(f) : f[p].dedupfetch <=> p = m
  BY <1>1 DEF Marked
<1> HIDE DEF i, m
\* The list before b is taken out: every other tuple is as it was, but that one
\* of them has the mark.
<1>4. /\ h \in Seq(TupleType) /\ Len(h) = Len(f)
      /\ \A p \in 1..Len(f) : h[p].blockID = f[p].blockID
      /\ \E n \in 1..Len(f) : /\ n # i
                              /\ \A p \in 1..Len(f) : p # i => (h[p].dedupfetch <=> p = n)
  <2>1. CASE f[i].dedupfetch
    <3> DEFINE n == First(DOMAIN f \ Marked(f))
    <3>1. n \in 1..Len(f) /\ n # m
      <4>1. CASE m = 1
        <5>1. 2 \in DOMAIN f \ Marked(f) /\ \A p \in DOMAIN f \ Marked(f) : 2 <= p
          BY <1>1, <4>1
        <5> QED
          BY <1>1, <5>1 DEF First
      <4>2. CASE m # 1
        <5>1. 1 \in DOMAIN f \ Marked(f) /\ \A p \in DOMAIN f \ Marked(f) : 1 <= p
          BY <1>1, <4>2
        <5> QED
          BY <1>1, <5>1 DEF First
      <4> QED
        BY <4>1, <4>2
    <3>2. h = [f EXCEPT ![n] = [f[n] EXCEPT !.dedupfetch = TRUE]]
      BY <2>1 DEF MarkAnother, SetMark
    <3> HIDE DEF n, h
    <3>3. [f[n] EXCEPT !.dedupfetch = TRUE] \in TupleType
      BY <1>1, <3>1 DEF TupleType
    <3>4. /\ h \in Seq(TupleType) /\ Len(h) = Len(f)
          /\ \A p \in 1..Len(f) : h[p] = IF p = n THEN [f[n] EXCEPT !.dedupfetch = TRUE]
                                         ELSE f[p]
      BY <3>1, <3>2, <3>3, ExceptSeq DEF GoodList
    <3>5. /\ [f[n] EXCEPT !.dedupfetch = TRUE].blockID = f[n].blockID
          /\ [f[n] EXCEPT !.dedupfetch = TRUE].dedupfetch
      BY <1>1, <3>1 DEF TupleType
    <3>6. i = m
      BY <1>2, <1>3, <2>1
    <3>7. \A p \in 1..Len(f) : p # i => (h[p].dedupfetch <=> p = n)
      BY <1>3, <3>4, <3>5, <3>6
    <3> QED
      BY <3>1, <3>4, <3>5, <3>6, <3>7
  <2>2. CASE ~f[i].dedupfetch
    <3>1. h = f /\ i # m
      BY <1>2, <1>3, <2>2
    <3>2. \A p \in 1..Len(f) : p # i => (h[p].dedupfetch <=> p = m)
      BY <1>3, <3>1
    <3>3. h \in Seq(TupleType)
      BY <3>1 DEF GoodList
    <3> QED
      BY <1>1, <3>1, <3>2, <3>3
  <2> QED
    BY <2>1, <2>2
<1>5. PICK n \in 1..Len(f) : /\ n # i
                            /\ \A p \in 1..Len(f) : p # i => (h[p].dedupfetch <=> p = n)
  BY <1>4
<1> HIDE DEF h
<1> DEFINE Old(p) == IF p < i THEN p ELSE p + 1
<1>6. /\ g \in Seq(TupleType) /\ DOMAIN g = 1..(Len(f) - 1)
      /\ \A p \in 1..(Len(f) - 1) : g[p] = h[Old(p)]
  <2>1. /\ g \in Seq(TupleType) /\ Len(g) = Len(f) - 1
        /\ \A p \in 1..(Len(f) - 1) : g[p] = h[Old(p)]
    BY <1>2, <1>4, RemovedAt
  <2> QED
    BY <2>1, LenProperties
<1> HIDE DEF g
<1>7. \A p \in 1..(Len(f) - 1) : Old(p) \in 1..Len(f) /\ Old(p) # i
  BY <1>1, <1>2
<1>8. \A p, q \in 1..(Len(f) - 1) : Old(p) = Old(q) => p = q
  BY <1>1, <1>2
<1>9. ASSUME NEW q \in 1..Len(f), q # i
      PROVE  \E p \in 1..(Len(f) - 1) : Old(p) = q
  <2>1. CASE q < i
    <3>1. q \in 1..(Len(f) - 1) /\ Old(q) = q
      BY <1>1, <1>2, <2>1
    <3> QED
      BY <3>1
  <2>2. CASE ~(q < i)
    <3>1. q - 1 \in 1..(Len(f) - 1) /\ Old(q - 1) = q
      BY <1>1, <1>2, <1>9, <2>2
    <3> QED
      BY <3>1
  <2> QED
    BY <2>1, <2>2
<1> HIDE DEF Old
<1>10. /\ \A p \in 1..(Len(f) - 1) : g[p].blockID = f[Old(p)].blockID
       /\ \A p \in 1..(Len(f) - 1) : g[p].dedupfetch <=> (Old(p) = n)
  <2> SUFFICES ASSUME NEW p \in 1..(Len(f) - 1)
               PROVE  /\ g[p].blockID = f[Old(p)].blockID
                      /\ g[p].dedupfetch <=> (Old(p) = n)
    OBVIOUS
  <2>1. Old(p) \in 1..Len(f) /\ Old(p) # i /\ g[p] = h[Old(p)]
    BY <1>6, <1>7
  <2>2. h[Old(p)].blockID = f[Old(p)].blockID
    BY <1>4, <2>1
  <2>3. h[Old(p)].dedupfetch <=> (Old(p) = n)
    BY <1>5, <2>1
  <2> QED
    BY <2>1, <2>2, <2>3
<1>11. PICK r \in 1..(Len(f) - 1) : Old(r) = n
  BY <1>5, <1>9
<1>12. Marked(g) = {r}
  <2>1. \A p \in DOMAIN g : Old(p) = n <=> p = r
    BY <1>6, <1>8, <1>11
  <2>2. \A p \in DOMAIN g : g[p].dedupfetch <=> p = r
    BY <1>6, <1>10, <2>1
  <2>3. r \in DOMAIN g
    BY <1>6
  <2> QED
    BY <2>2, <2>3 DEF Marked
<1>13. \A p, q \in DOMAIN g : g[p].blockID = g[q].blockID => p = q
  <2> SUFFICES ASSUME NEW p \in 1..(Len(f) - 1), NEW q \in 1..(Len(f) - 1),
                      g[p].blockID = g[q].blockID
               PROVE  p = q
    BY <1>6
  <2>1. Old(p) \in DOMAIN f /\ Old(q) \in DOMAIN f
    BY <1>1, <1>7
  <2>2. f[Old(p)].blockID = f[Old(q)].blockID
    BY <1>10
  <2>3. Old(p) = Old(q)
    BY <2>1, <2>2 DEF GoodList
  <2> QED
    BY <1>8, <2>3
<1>14. BlocksIn(g) = BlocksIn(f) \ {b}
  <2>1. ASSUME NEW p \in DOMAIN g
        PROVE  g[p].blockID \in BlocksIn(f) /\ g[p].blockID # b
    <3>1. Old(p) \in DOMAIN f /\ Old(p) # i /\ g[p].blockID = f[Old(p)].blockID
      BY <1>1, <1>6, <1>7, <1>10
    <3>2. i \in DOMAIN f /\ (f[Old(p)].blockID = f[i].blockID => Old(p) = i)
      BY <1>1, <1>2, <3>1 DEF GoodList
    <3> QED
      BY <1>2, <3>1, <3>2 DEF BlocksIn
  <2>2. ASSUME NEW q \in DOMAIN f, f[q].blockID # b
        PROVE  f[q].blockID \in BlocksIn(g)
    <3>1. PICK p \in 1..(Len(f) - 1) : Old(p) = q
      BY <1>1, <1>2, <1>9, <2>2
    <3>2. p \in DOMAIN g /\ g[p].blockID = f[q].blockID
      BY <1>6, <1>10, <3>1
    <3> QED
      BY <3>2 DEF BlocksIn
  <2>3. BlocksIn(g) \subseteq BlocksIn(f) \ {b}
    BY <2>1 DEF BlocksIn
  <2>4. BlocksIn(f) \ {b} \subseteq BlocksIn(g)
    BY <2>2 DEF BlocksIn
  <2> QED
    BY <2>3, <2>4
<1>15. DelF2V(f, b) = g
  BY DEF DelF2V, g, h, i
<1> QED
  BY <1>6, <1>11, <1>12, <1>13, <1>14, <1>15 DEF GoodList

\* The last block of a list.
LEMMA LastList ==
  ASSUME NEW f, GoodList(f), NEW b \in BlocksIn(f), ~(Len(f) > 1)
  PROVE  BlocksIn(f) = {b}
<1>1. DOMAIN f = 1..Len(f) /\ Len(f) \in Nat \ {0}
  BY GoodListFacts
<1>2. DOMAIN f = {1}
  BY <1>1
<1>3. BlocksIn(f) = {f[1].blockID}
  BY <1>2 DEF BlocksIn
<1> QED
  BY <1>3

LEMMA PlacesAre ==
  ASSUME NEW f, NEW b
  PROVE  PlacesOf(f, b) = {} <=> b \notin BlocksIn(f)
BY DEF PlacesOf, BlocksIn
-----------------------------------------------------------------------------
\* The inductive invariant.  The lists are good ones, and the blocks in them
\* are the clean blocks that name the element: with both, a block that leaves
\* or joins changes one list only and leaves it good.  The table and the account
\* of the identifiers make a new element the only one of its key and number.
ListOf(i) == fixedmap[i].f2vmaps

ListsGood == \A i \in Ids : GoodList(ListOf(i))

BlocksAgree ==
  /\ \A b \in Blocks :
       Clean(b) => v2f[b].fixedID \in Ids /\ b \in BlocksIn(ListOf(v2f[b].fixedID))
  /\ \A i \in Ids : \A b \in BlocksIn(ListOf(i)) : Clean(b) /\ v2f[b].fixedID = i

FixedIdsAccounted ==
  /\ FirstNum <= fixedNum
  /\ Ids \cup ToSet(reusable) = (FirstNum + 1)..fixedNum
  /\ Ids \cap ToSet(reusable) = {}
  /\ IsInjective(reusable)

FixedInv ==
  /\ FixedTypeOK
  /\ ListsGood
  /\ BlocksAgree
  /\ FixedTabAgrees
  /\ FixedIdsAccounted

ElementType == [fhashkey : Keys, f2vmaps : Seq(TupleType)]

LEMMA ListsTyped ==
  ASSUME FixedInv
  PROVE  /\ \A i \in Ids : BlocksIn(ListOf(i)) \subseteq Blocks
         /\ \A i \in Ids : fixedmap[i] \in ElementType
         /\ fixedmap \in [Ids -> ElementType]
<1>1. fixedmap \in [Ids -> ElementType]
  BY DEF FixedInv, FixedTypeOK, ElementType
<1>2. \A i \in Ids : BlocksIn(ListOf(i)) \subseteq Blocks
  BY GoodListFacts DEF FixedInv, ListsGood
<1> QED
  BY <1>1, <1>2

\* One element gets another list.
LEMMA ChangedList ==
  ASSUME FixedInv, NEW i \in Ids, NEW g \in Seq(TupleType),
         fixedmap' = [fixedmap EXCEPT ![i].f2vmaps = g]
  PROVE  /\ Ids' = Ids
         /\ \A j \in Ids : j # i => fixedmap'[j] = fixedmap[j]
         /\ fixedmap'[i].f2vmaps = g
         /\ \A j \in Ids : fixedmap'[j].fhashkey = fixedmap[j].fhashkey
         /\ fixedmap' \in [Ids -> ElementType]
<1> DEFINE e == [fixedmap[i] EXCEPT !.f2vmaps = g]
<1>1. fixedmap \in [Ids -> ElementType] /\ fixedmap[i] \in ElementType
  BY ListsTyped
<1>2. e \in ElementType /\ e.f2vmaps = g /\ e.fhashkey = fixedmap[i].fhashkey
  BY <1>1 DEF ElementType
<1>3. fixedmap' = [fixedmap EXCEPT ![i] = e]
  OBVIOUS
<1> HIDE DEF e
<1> QED
  BY <1>1, <1>2, <1>3 DEF Ids

\* The identifier of a new element is fresh and not the reserved one.
LEMMA NextIsFresh ==
  ASSUME FixedInv
  PROVE  NextFixedNum \in Nat \ {DummyId} /\ NextFixedNum \notin Ids
<1>1. CASE reusable = <<>>
  BY <1>1 DEF FixedInv, FixedTypeOK, FixedIdsAccounted, NextFixedNum, FirstNum, DummyId
<1>2. CASE reusable # <<>>
  <2>1. Head(reusable) \in ToSet(reusable)
    BY <1>2, TailSet DEF FixedInv, FixedTypeOK, FixedIdsAccounted
  <2> QED
    BY <1>2, <2>1 DEF FixedInv, FixedTypeOK, FixedIdsAccounted, NextFixedNum,
                      FirstNum, DummyId
<1> QED
  BY <1>1, <1>2

LEMMA FixedInitially == FixedInit => FixedInv
<1> SUFFICES ASSUME FixedInit PROVE FixedInv
  OBVIOUS
<1>1. ToSet(reusable) = {} /\ IsInjective(reusable) /\ reusable \in Seq(Nat)
  BY DEF FixedInit, ToSet, IsInjective
<1>2. Ids = {} /\ DOMAIN v2f = {} /\ DOMAIN fixedtab = {}
  BY DEF FixedInit, Ids
<1>3. FixedTypeOK
  BY <1>1, <1>2 DEF FixedInit, FixedTypeOK, Ids, FirstNum
<1>4. FixedIdsAccounted
  BY <1>1, <1>2 DEF FixedInit, FixedIdsAccounted, FirstNum
<1> QED
  BY <1>2, <1>3, <1>4
     DEF FixedInv, ListsGood, BlocksAgree, FixedTabAgrees, Clean, Mapped

-----------------------------------------------------------------------------
\* Every step preserves the inductive invariant: one lemma per action.

LEMMA TrimUnmappedStep ==
  ASSUME FixedInv, NEW b \in Blocks, TrimUnmapped(b)
  PROVE  FixedInv'
<1>1. /\ DOMAIN v2f' = DOMAIN v2f \cup {b}
      /\ v2f'[b] = [fixedID |-> DummyId, fdirty |-> TRUE]
      /\ \A y \in DOMAIN v2f : v2f'[y] = v2f[y]
      /\ v2f' \in [DOMAIN v2f' -> [fixedID : Nat, fdirty : BOOLEAN]]
  BY DEF FixedInv, FixedTypeOK, TrimUnmapped, Mapped, With, DummyId
<1>2. UNCHANGED <<fixedmap, fixedtab, reusable, fixedNum>>
  BY DEF TrimUnmapped
<1>3. ASSUME NEW y \in Blocks
      PROVE  Clean(y)' <=> Clean(y)
  <2>1. CASE y = b
    BY <1>1, <2>1 DEF TrimUnmapped, Clean, Mapped
  <2>2. CASE y # b
    BY <1>1, <2>2 DEF Clean, Mapped
  <2> QED
    BY <2>1, <2>2
<1>4. FixedTypeOK'
  BY <1>1, <1>2 DEF FixedInv, FixedTypeOK, Ids
<1>5. BlocksAgree'
  <2>1. ASSUME NEW y \in Blocks, Clean(y)
        PROVE  v2f'[y] = v2f[y]
    BY <2>1, <1>1 DEF Clean, Mapped
  <2>2. Ids' = Ids /\ \A i : ListOf(i)' = ListOf(i)
    BY <1>2 DEF Ids, ListOf
  <2>3. \A y \in Blocks : Clean(y)' =>
          v2f'[y].fixedID \in Ids' /\ y \in BlocksIn(ListOf(v2f[y].fixedID))
    BY <1>3, <2>1, <2>2 DEF FixedInv, BlocksAgree
  <2>4. \A i \in Ids' : \A y \in BlocksIn(ListOf(i)) : Clean(y)' /\ v2f'[y].fixedID = i
    BY <1>3, <2>1, <2>2, ListsTyped DEF FixedInv, BlocksAgree
  <2>5. \A y \in Blocks : Clean(y)' => y \in BlocksIn(fixedmap'[v2f'[y].fixedID].f2vmaps)
    BY <1>2, <1>3, <2>1, <2>3 DEF ListOf
  <2> QED
    BY <1>2, <2>3, <2>4, <2>5 DEF BlocksAgree, ListOf
<1>6. (ListsGood /\ FixedTabAgrees /\ FixedIdsAccounted)'
  BY <1>2 DEF FixedInv, ListsGood, ListOf, FixedTabAgrees, FixedIdsAccounted, Ids
<1> QED
  BY <1>4, <1>5, <1>6 DEF FixedInv

\* A clean block is trimmed.  Its element loses it, and its mark if it has it,
\* or goes with it if it was the last.
LEMMA TrimCleanStep ==
  ASSUME FixedInv, NEW b \in Blocks, TrimClean(b)
  PROVE  FixedInv'
<1> DEFINE i == v2f[b].fixedID
<1>1. /\ i \in Ids /\ i \in Nat \ {DummyId}
      /\ b \in BlocksIn(ListOf(i)) /\ GoodList(ListOf(i))
      /\ fixedmap[i].fhashkey \in DOMAIN fixedtab
      /\ fixedtab[fixedmap[i].fhashkey] = i
  BY DEF FixedInv, FixedTypeOK, ListsGood, BlocksAgree, FixedTabAgrees, TrimClean
<1>2. /\ DOMAIN v2f' = DOMAIN v2f /\ b \in DOMAIN v2f
      /\ v2f'[b].fdirty = TRUE
      /\ \A y \in DOMAIN v2f : y # b => v2f'[y] = v2f[y]
      /\ v2f' \in [DOMAIN v2f' -> [fixedID : Nat, fdirty : BOOLEAN]]
  BY DEF FixedInv, FixedTypeOK, TrimClean, Clean, Mapped
<1>3. \A y \in Blocks : Clean(y)' <=> (Clean(y) /\ y # b)
  BY <1>2 DEF Clean, Mapped
<1>4. fixedNum' = fixedNum /\ RecycleFixedID(i, b)
  BY DEF TrimClean
<1>5. ASSUME NEW y \in Blocks, Clean(y)'
      PROVE  /\ y # b /\ v2f'[y] = v2f[y] /\ v2f[y].fixedID \in Ids
             /\ y \in BlocksIn(ListOf(v2f[y].fixedID))
  <2>1. y # b /\ Clean(y)
    BY <1>3, <1>5
  <2> QED
    BY <1>2, <2>1 DEF FixedInv, BlocksAgree, Clean, Mapped
<1>6. ASSUME NEW j \in Ids, NEW y \in BlocksIn(ListOf(j)), y # b
      PROVE  Clean(y)' /\ v2f'[y].fixedID = j
  <2>1. Clean(y) /\ v2f[y].fixedID = j /\ y \in Blocks
    BY ListsTyped DEF FixedInv, BlocksAgree
  <2> QED
    BY <1>2, <1>3, <1>6, <2>1 DEF Clean, Mapped
<1>7. \A j \in Ids : b \in BlocksIn(ListOf(j)) => j = i
  BY DEF FixedInv, BlocksAgree
<1> HIDE DEF i
<1>8. CASE ~(Len(ListOf(i)) > 1)
  <2>1. /\ Ids' = Ids \ {i}
        /\ \A j \in Ids' : fixedmap'[j] = fixedmap[j]
        /\ fixedmap' \in [Ids' -> ElementType]
    <3>1. fixedmap' = Only(fixedmap, Ids \ {i})
      BY <1>4, <1>8 DEF RecycleFixedID, ListOf, Ids
    <3>2. DOMAIN fixedmap' = Ids \ {i} /\ \A j \in Ids \ {i} : fixedmap'[j] = fixedmap[j]
      BY <3>1 DEF Only
    <3>3. \A j \in Ids \ {i} : fixedmap[j] \in ElementType
      BY ListsTyped
    <3>4. fixedmap' \in [Ids \ {i} -> ElementType]
      BY <3>1, <3>3 DEF Only
    <3> QED
      BY <3>2, <3>4 DEF Ids
  <2>2. /\ DOMAIN fixedtab' = DOMAIN fixedtab \ {fixedmap[i].fhashkey}
        /\ \A k \in DOMAIN fixedtab' : fixedtab'[k] = fixedtab[k]
        /\ fixedtab' \in [DOMAIN fixedtab' -> Nat]
    BY <1>4, <1>8 DEF FixedInv, FixedTypeOK, RecycleFixedID, Only, ListOf
  <2>3. reusable' = Append(reusable, i) /\ reusable \in Seq(Nat)
    BY <1>1, <1>4, <1>8 DEF FixedInv, FixedTypeOK, RecycleFixedID, ListOf
  <2>4. BlocksIn(ListOf(i)) = {b}
    BY <1>1, <1>8, LastList
  <2>5. FixedTypeOK'
    <3>1. reusable' \in Seq(Nat)
      BY <1>1, <2>3, AppendProperties
    <3> QED
      BY <1>2, <1>4, <2>1, <2>2, <3>1 DEF FixedInv, FixedTypeOK, ElementType
  <2>6. ListsGood'
    BY <2>1 DEF FixedInv, ListsGood, ListOf
  <2>7. BlocksAgree'
    <3>1. ASSUME NEW y \in Blocks, Clean(y)'
          PROVE  v2f'[y].fixedID \in Ids' /\ y \in BlocksIn(fixedmap'[v2f'[y].fixedID].f2vmaps)
      BY <3>1, <1>5, <2>1, <2>4 DEF ListOf
    <3>2. ASSUME NEW j \in Ids', NEW y \in BlocksIn(fixedmap'[j].f2vmaps)
          PROVE  Clean(y)' /\ v2f'[y].fixedID = j
      <4>1. j \in Ids /\ j # i /\ y \in BlocksIn(ListOf(j))
        BY <2>1 DEF ListOf
      <4> QED
        BY <4>1, <1>6, <1>7
    <3> QED
      BY <3>1, <3>2 DEF BlocksAgree, ListOf
  <2>8. FixedTabAgrees'
    <3>1. ASSUME NEW j \in Ids'
          PROVE  /\ fixedmap'[j].fhashkey \in DOMAIN fixedtab'
                 /\ fixedtab'[fixedmap'[j].fhashkey] = j
      <4>1. /\ j \in Ids /\ j # i
            /\ fixedmap[j].fhashkey \in DOMAIN fixedtab
            /\ fixedtab[fixedmap[j].fhashkey] = j
        BY <2>1 DEF FixedInv, FixedTabAgrees
      <4> QED
        BY <4>1, <1>1, <2>1, <2>2
    <3>2. ASSUME NEW k \in DOMAIN fixedtab'
          PROVE  fixedtab'[k] \in Ids' /\ fixedmap'[fixedtab'[k]].fhashkey = k
      <4>1. /\ k \in DOMAIN fixedtab /\ k # fixedmap[i].fhashkey
            /\ fixedtab[k] \in Ids /\ fixedmap[fixedtab[k]].fhashkey = k
        BY <2>2 DEF FixedInv, FixedTabAgrees
      <4> QED
        BY <4>1, <2>1, <2>2
    <3> QED
      BY <3>1, <3>2 DEF FixedTabAgrees
  <2>9. FixedIdsAccounted'
    <3>1. i \notin ToSet(reusable)
      BY <1>1 DEF FixedInv, FixedIdsAccounted
    <3>2. ToSet(reusable') = ToSet(reusable) \cup {i} /\ IsInjective(reusable')
      BY <1>1, <2>3, <3>1, AppendedSet DEF FixedInv, FixedIdsAccounted
    <3> QED
      BY <1>1, <1>4, <2>1, <3>1, <3>2 DEF FixedInv, FixedIdsAccounted
  <2> QED
    BY <2>5, <2>6, <2>7, <2>8, <2>9 DEF FixedInv
<1>9. CASE Len(ListOf(i)) > 1
  <2> DEFINE g == DelF2V(ListOf(i), b)
  <2>1. GoodList(g) /\ BlocksIn(g) = BlocksIn(ListOf(i)) \ {b}
    BY <1>1, <1>9, LeftList
  <2>2. fixedmap' = [fixedmap EXCEPT ![i].f2vmaps = g]
    BY <1>4, <1>9 DEF RecycleFixedID, ListOf
  <2>3. UNCHANGED <<fixedtab, reusable>>
    BY <1>4, <1>9 DEF RecycleFixedID, ListOf
  <2> HIDE DEF g
  <2>4. /\ Ids' = Ids
        /\ \A j \in Ids : j # i => fixedmap'[j] = fixedmap[j]
        /\ fixedmap'[i].f2vmaps = g
        /\ \A j \in Ids : fixedmap'[j].fhashkey = fixedmap[j].fhashkey
        /\ fixedmap' \in [Ids -> ElementType]
    BY <1>1, <2>1, <2>2, ChangedList DEF GoodList
  <2>5. FixedTypeOK'
    BY <1>2, <1>4, <2>3, <2>4 DEF FixedInv, FixedTypeOK, ElementType
  <2>6. ListsGood'
    BY <2>1, <2>4 DEF FixedInv, ListsGood, ListOf
  <2>7. BlocksAgree'
    <3>1. ASSUME NEW y \in Blocks, Clean(y)'
          PROVE  v2f'[y].fixedID \in Ids' /\ y \in BlocksIn(fixedmap'[v2f'[y].fixedID].f2vmaps)
      <4>1. /\ y # b /\ v2f'[y] = v2f[y] /\ v2f[y].fixedID \in Ids
            /\ y \in BlocksIn(ListOf(v2f[y].fixedID))
        BY <3>1, <1>5
      <4>2. CASE v2f[y].fixedID = i
        BY <4>1, <4>2, <2>1, <2>4
      <4>3. CASE v2f[y].fixedID # i
        BY <4>1, <4>3, <2>4 DEF ListOf
      <4> QED
        BY <4>2, <4>3
    <3>2. ASSUME NEW j \in Ids', NEW y \in BlocksIn(fixedmap'[j].f2vmaps)
          PROVE  Clean(y)' /\ v2f'[y].fixedID = j
      <4>1. j \in Ids /\ y \in BlocksIn(ListOf(j)) /\ (j = i => y # b)
        BY <2>1, <2>4 DEF ListOf
      <4> QED
        BY <4>1, <1>6, <1>7
    <3> QED
      BY <3>1, <3>2 DEF BlocksAgree, ListOf
  <2>8. FixedTabAgrees'
    BY <2>3, <2>4 DEF FixedInv, FixedTabAgrees
  <2>9. FixedIdsAccounted'
    BY <1>4, <2>3, <2>4 DEF FixedInv, FixedIdsAccounted
  <2> QED
    BY <2>5, <2>6, <2>7, <2>8, <2>9 DEF FixedInv
<1> QED
  BY <1>8, <1>9
\* What JoinElement and NewElement do to the block map.
LEMMA BlockUpdated ==
  ASSUME FixedInv, NEW b \in Blocks, NEW i \in Nat, UpdateBlockf(b, i)
  PROVE  /\ DOMAIN v2f' = DOMAIN v2f \cup {b}
         /\ v2f' \in [DOMAIN v2f' -> [fixedID : Nat, fdirty : BOOLEAN]]
         /\ \A y \in DOMAIN v2f : y # b => v2f'[y] = v2f[y]
         /\ Clean(b)' /\ v2f'[b].fixedID = i
         /\ \A y \in Blocks : y # b => (Clean(y)' <=> Clean(y))
<1>1. v2f \in [DOMAIN v2f -> [fixedID : Nat, fdirty : BOOLEAN]]
  BY DEF FixedInv, FixedTypeOK
<1>2. /\ DOMAIN v2f' = DOMAIN v2f \cup {b}
      /\ v2f' \in [DOMAIN v2f' -> [fixedID : Nat, fdirty : BOOLEAN]]
      /\ \A y \in DOMAIN v2f : y # b => v2f'[y] = v2f[y]
      /\ v2f'[b] = [fixedID |-> i, fdirty |-> FALSE]
  BY <1>1 DEF UpdateBlockf, With
<1>3. Clean(b)' /\ v2f'[b].fixedID = i
  BY <1>2 DEF Clean, Mapped
<1>4. \A y \in Blocks : y # b => (Clean(y)' <=> Clean(y))
  BY <1>2 DEF Clean, Mapped
<1> QED
  BY <1>2, <1>3, <1>4

\* A block that was not clean joins element i, and no other list changes.
LEMMA AgreeWithOneMore ==
  ASSUME FixedInv, NEW b \in Blocks, NEW i \in Nat, ~Clean(b), UpdateBlockf(b, i),
         Ids' = Ids \cup {i},
         BlocksIn(fixedmap'[i].f2vmaps)
           = (IF i \in Ids THEN BlocksIn(ListOf(i)) ELSE {}) \cup {b},
         \A j \in Ids : j # i => fixedmap'[j] = fixedmap[j]
  PROVE  BlocksAgree'
<1>1. /\ \A y \in DOMAIN v2f : y # b => v2f'[y] = v2f[y]
      /\ Clean(b)' /\ v2f'[b].fixedID = i
      /\ \A y \in Blocks : y # b => (Clean(y)' <=> Clean(y))
  BY BlockUpdated
<1>2. ASSUME NEW y \in Blocks, Clean(y)'
      PROVE  v2f'[y].fixedID \in Ids' /\ y \in BlocksIn(fixedmap'[v2f'[y].fixedID].f2vmaps)
  <2>1. CASE y = b
    BY <2>1, <1>1
  <2>2. CASE y # b
    <3>1. /\ v2f'[y] = v2f[y] /\ v2f[y].fixedID \in Ids
          /\ y \in BlocksIn(ListOf(v2f[y].fixedID))
      BY <1>1, <1>2, <2>2 DEF FixedInv, BlocksAgree, Clean, Mapped
    <3>2. CASE v2f[y].fixedID = i
      BY <3>1, <3>2
    <3>3. CASE v2f[y].fixedID # i
      BY <3>1, <3>3 DEF ListOf
    <3> QED
      BY <3>2, <3>3
  <2> QED
    BY <2>1, <2>2
<1>3. ASSUME NEW j \in Ids', NEW y \in BlocksIn(fixedmap'[j].f2vmaps)
      PROVE  Clean(y)' /\ v2f'[y].fixedID = j
  <2>1. CASE y = b
    <3>1. j = i
      BY <1>3, <2>1 DEF FixedInv, BlocksAgree, ListOf
    <3> QED
      BY <1>1, <2>1, <3>1
  <2>2. CASE y # b
    <3>1. j \in Ids /\ y \in BlocksIn(ListOf(j))
      BY <1>3, <2>2 DEF ListOf
    <3>2. Clean(y) /\ v2f[y].fixedID = j /\ y \in Blocks
      BY <3>1, ListsTyped DEF FixedInv, BlocksAgree
    <3> QED
      BY <1>1, <2>2, <3>2 DEF Clean, Mapped
  <2> QED
    BY <2>1, <2>2
<1> QED
  BY <1>2, <1>3 DEF BlocksAgree, ListOf

LEMMA JoinElementStep ==
  ASSUME FixedInv, NEW b \in Blocks, NEW k \in Keys, ~Clean(b), JoinElement(b, k)
  PROVE  FixedInv'
<1> DEFINE i == fixedtab[k]
           g == <<Tuple(b)>> \o Unmark(ListOf(i))
<1>1. i \in Ids /\ i \in Nat /\ fixedmap[i].fhashkey = k /\ GoodList(ListOf(i))
  BY DEF FixedInv, FixedTypeOK, ListsGood, FixedTabAgrees, JoinElement
<1>2. b \notin BlocksIn(ListOf(i))
  BY <1>1 DEF FixedInv, BlocksAgree
<1>3. GoodList(g) /\ BlocksIn(g) = BlocksIn(ListOf(i)) \cup {b}
  BY <1>1, <1>2, JoinedList
<1>4. fixedmap' = [fixedmap EXCEPT ![i].f2vmaps = g]
  <2>1. PlacesOf(ListOf(i), b) = {}
    BY <1>2, PlacesAre
  <2> QED
    BY <2>1 DEF JoinElement, ListOf
<1>5. UpdateBlockf(b, i) /\ UNCHANGED <<fixedtab, reusable, fixedNum>>
  BY DEF JoinElement
<1> HIDE DEF i, g
<1>6. /\ Ids' = Ids
      /\ \A j \in Ids : j # i => fixedmap'[j] = fixedmap[j]
      /\ fixedmap'[i].f2vmaps = g
      /\ \A j \in Ids : fixedmap'[j].fhashkey = fixedmap[j].fhashkey
      /\ fixedmap' \in [Ids -> ElementType]
  BY <1>1, <1>3, <1>4, ChangedList DEF GoodList
<1>7. FixedTypeOK'
  <2>1. DOMAIN v2f' \subseteq Blocks /\ v2f' \in [DOMAIN v2f' -> [fixedID : Nat, fdirty : BOOLEAN]]
    <3>1. DOMAIN v2f \subseteq Blocks
      BY DEF FixedInv, FixedTypeOK
    <3> QED
      BY <1>1, <1>5, <3>1, BlockUpdated
  <2>2. fixedmap' \in [Ids' -> [fhashkey : Keys, f2vmaps : Seq(TupleType)]]
    BY <1>6 DEF ElementType
  <2>3. /\ fixedNum' \in Nat /\ Ids' \subseteq Nat \ {DummyId} /\ reusable' \in Seq(Nat)
        /\ DOMAIN fixedtab' \subseteq Keys /\ fixedtab' \in [DOMAIN fixedtab' -> Nat]
    BY <1>5, <1>6 DEF FixedInv, FixedTypeOK
  <2> QED
    BY <2>1, <2>2, <2>3 DEF FixedTypeOK
<1>8. ListsGood'
  BY <1>3, <1>6 DEF FixedInv, ListsGood, ListOf
<1>9. BlocksAgree'
  <2>1. Ids' = Ids \cup {i}
    BY <1>1, <1>6
  <2>2. BlocksIn(fixedmap'[i].f2vmaps)
          = (IF i \in Ids THEN BlocksIn(ListOf(i)) ELSE {}) \cup {b}
    BY <1>1, <1>3, <1>6
  <2> QED
    BY <1>1, <1>5, <1>6, <2>1, <2>2, AgreeWithOneMore
<1>10. FixedTabAgrees'
  BY <1>5, <1>6 DEF FixedInv, FixedTabAgrees
<1>11. FixedIdsAccounted'
  BY <1>5, <1>6 DEF FixedInv, FixedIdsAccounted
<1> QED
  BY <1>7, <1>8, <1>9, <1>10, <1>11 DEF FixedInv

\* The account of the identifiers when the next one is handed out.
LEMMA AccountWithNext ==
  ASSUME FixedInv, GetNextFixedNum, Ids' = Ids \cup {NextFixedNum}
  PROVE  FixedIdsAccounted' /\ fixedNum' \in Nat /\ reusable' \in Seq(Nat)
<1>1. /\ fixedNum \in Nat /\ reusable \in Seq(Nat)
      /\ FirstNum <= fixedNum
      /\ Ids \cup ToSet(reusable) = (FirstNum + 1)..fixedNum
      /\ Ids \cap ToSet(reusable) = {}
      /\ IsInjective(reusable)
  BY DEF FixedInv, FixedTypeOK, FixedIdsAccounted
<1>2. CASE reusable = <<>>
  <2>1. NextFixedNum = fixedNum + 1 /\ fixedNum' = fixedNum + 1 /\ reusable' = <<>>
    BY <1>2 DEF GetNextFixedNum, NextFixedNum
  <2>2. ToSet(reusable) = {} /\ ToSet(reusable') = {}
    BY <1>2, <2>1 DEF ToSet
  <2>3. FirstNum \in Nat
    BY DEF FirstNum
  <2>4. Ids' = (FirstNum + 1)..fixedNum'
    BY <1>1, <2>1, <2>2, <2>3
  <2> QED
    BY <1>1, <1>2, <2>1, <2>2, <2>3, <2>4 DEF FixedIdsAccounted
<1>3. CASE reusable # <<>>
  <2>1. NextFixedNum = Head(reusable) /\ fixedNum' = fixedNum /\ reusable' = Tail(reusable)
    BY <1>3 DEF GetNextFixedNum, NextFixedNum
  <2>2. /\ ToSet(reusable') = ToSet(reusable) \ {NextFixedNum}
        /\ NextFixedNum \in ToSet(reusable)
        /\ IsInjective(reusable')
        /\ reusable' \in Seq(Nat)
    BY <1>1, <1>3, <2>1, TailSet, HeadTailProperties
  <2> QED
    BY <1>1, <2>1, <2>2 DEF FixedIdsAccounted
<1> QED
  BY <1>2, <1>3

LEMMA NewElementStep ==
  ASSUME FixedInv, NEW b \in Blocks, NEW k \in Keys, ~Clean(b), NewElement(b, k)
  PROVE  FixedInv'
<1> DEFINE i == NextFixedNum
           e == [fhashkey |-> k, f2vmaps |-> <<Tuple(b)>>]
<1>1. i \in Nat \ {DummyId} /\ i \notin Ids
  BY NextIsFresh
<1>2. /\ k \notin DOMAIN fixedtab
      /\ fixedmap' = With(fixedmap, i, e)
      /\ fixedtab' = With(fixedtab, k, i)
      /\ UpdateBlockf(b, i)
      /\ GetNextFixedNum
  BY DEF NewElement
<1>3. /\ GoodList(e.f2vmaps) /\ BlocksIn(e.f2vmaps) = {b}
      /\ e.fhashkey = k /\ e \in ElementType
  BY NewList DEF GoodList, ElementType
<1>4. FixedIdsAccounted' /\ fixedNum' \in Nat /\ reusable' \in Seq(Nat)
  <2>1. Ids' = Ids \cup {NextFixedNum}
    BY <1>2 DEF With, Ids
  <2> QED
    BY <1>2, <2>1, AccountWithNext
<1> HIDE DEF i, e
<1>5. /\ Ids' = Ids \cup {i}
      /\ \A j \in Ids : j # i => fixedmap'[j] = fixedmap[j]
      /\ fixedmap'[i] = e
      /\ fixedmap' \in [Ids' -> ElementType]
  <2>1. fixedmap \in [Ids -> ElementType]
    BY ListsTyped
  <2> QED
    BY <1>1, <1>2, <1>3, <2>1 DEF With, Ids
<1>6. /\ DOMAIN fixedtab' = DOMAIN fixedtab \cup {k}
      /\ \A l \in DOMAIN fixedtab : l # k => fixedtab'[l] = fixedtab[l]
      /\ fixedtab'[k] = i
      /\ fixedtab' \in [DOMAIN fixedtab' -> Nat]
  BY <1>1, <1>2 DEF FixedInv, FixedTypeOK, With
<1>7. FixedTypeOK'
  <2>1. DOMAIN v2f' \subseteq Blocks /\ v2f' \in [DOMAIN v2f' -> [fixedID : Nat, fdirty : BOOLEAN]]
    <3>1. DOMAIN v2f \subseteq Blocks
      BY DEF FixedInv, FixedTypeOK
    <3> QED
      BY <1>1, <1>2, <3>1, BlockUpdated
  <2>2. fixedmap' \in [Ids' -> [fhashkey : Keys, f2vmaps : Seq(TupleType)]]
    BY <1>5 DEF ElementType
  <2>3. Ids' \subseteq Nat \ {DummyId} /\ DOMAIN fixedtab' \subseteq Keys
    BY <1>1, <1>5, <1>6 DEF FixedInv, FixedTypeOK
  <2> QED
    BY <1>4, <1>6, <2>1, <2>2, <2>3 DEF FixedTypeOK
<1>8. ListsGood'
  BY <1>3, <1>5 DEF FixedInv, ListsGood, ListOf
<1>9. BlocksAgree'
  <2>1. BlocksIn(fixedmap'[i].f2vmaps)
          = (IF i \in Ids THEN BlocksIn(ListOf(i)) ELSE {}) \cup {b}
    BY <1>1, <1>3, <1>5
  <2> QED
    BY <1>1, <1>2, <1>5, <2>1, AgreeWithOneMore
<1>10. FixedTabAgrees'
  <2>1. ASSUME NEW j \in Ids'
        PROVE  /\ fixedmap'[j].fhashkey \in DOMAIN fixedtab'
               /\ fixedtab'[fixedmap'[j].fhashkey] = j
    <3>1. CASE j = i
      BY <3>1, <1>3, <1>5, <1>6
    <3>2. CASE j # i
      BY <3>2, <1>2, <1>5, <1>6 DEF FixedInv, FixedTabAgrees
    <3> QED
      BY <3>1, <3>2
  <2>2. ASSUME NEW l \in DOMAIN fixedtab'
        PROVE  fixedtab'[l] \in Ids' /\ fixedmap'[fixedtab'[l]].fhashkey = l
    <3>1. CASE l = k
      BY <3>1, <1>3, <1>5, <1>6
    <3>2. CASE l # k
      BY <3>2, <1>1, <1>5, <1>6 DEF FixedInv, FixedTabAgrees
    <3> QED
      BY <3>1, <3>2
  <2> QED
    BY <2>1, <2>2 DEF FixedTabAgrees
<1> QED
  BY <1>4, <1>7, <1>8, <1>9, <1>10 DEF FixedInv

LEMMA FixedStep == FixedInv /\ [FixedNext]_fixedVars => FixedInv'
<1> SUFFICES ASSUME FixedInv, [FixedNext]_fixedVars
             PROVE  FixedInv'
  OBVIOUS
<1>1. CASE UNCHANGED fixedVars
  BY <1>1 DEF fixedVars, FixedInv, FixedTypeOK, ListsGood, BlocksAgree, FixedTabAgrees,
              FixedIdsAccounted, ListOf, Ids, Clean, Mapped
<1>2. ASSUME NEW b \in Blocks, Trim(b)
      PROVE  FixedInv'
  <2>1. CASE TrimUnmapped(b)
    BY <2>1, TrimUnmappedStep
  <2>2. CASE TrimDirty(b)
    BY <2>2, <1>1 DEF TrimDirty
  <2>3. CASE TrimClean(b)
    BY <2>3, TrimCleanStep
  <2> QED
    BY <1>2, <2>1, <2>2, <2>3 DEF Trim
<1>3. ASSUME NEW b \in Blocks, NEW k \in Keys, Learn(b, k)
      PROVE  FixedInv'
  BY <1>3, JoinElementStep, NewElementStep DEF Learn
<1> QED
  BY <1>1, <1>2, <1>3 DEF FixedNext

THEOREM FixedInvariant == FixedSpec => []FixedInv
  BY FixedInitially, FixedStep, PTL DEF FixedSpec

LEMMA OneMarkEach == FixedInv => OneLeader
  BY GoodListFacts DEF FixedInv, ListsGood, OneLeader, ListOf

\* Every element has one block to fetch, whatever blocks joined and left it.
THEOREM OneLeaderTheorem == FixedSpec => []OneLeader
<1>1. FixedInv => OneLeader
  BY OneMarkEach
<1> QED
  BY <1>1, FixedInvariant, PTL

\* The block map, the elements and the hash table agree: what a read hit, the
\* update after it finds again, and a leader is a block not written since.
THEOREM FixedMapsTheorem == FixedSpec => []FixedMapsAgree
<1>1. ASSUME FixedInv
      PROVE  MembersAreClean
  <2>1. ASSUME NEW b \in Blocks, Clean(b)
        PROVE  /\ v2f[b].fixedID \in Ids
               /\ PlacesOf(fixedmap[v2f[b].fixedID].f2vmaps, b) # {}
    BY <1>1, <2>1, PlacesAre DEF FixedInv, BlocksAgree, ListOf
  <2>2. ASSUME NEW i \in Ids, NEW p \in DOMAIN fixedmap[i].f2vmaps
        PROVE  LET b == fixedmap[i].f2vmaps[p].blockID
               IN  /\ Clean(b) /\ v2f[b].fixedID = i
                   /\ PlacesOf(fixedmap[i].f2vmaps, b) = {p}
    <3> DEFINE b == fixedmap[i].f2vmaps[p].blockID
    <3>1. b \in BlocksIn(ListOf(i))
      BY DEF BlocksIn, ListOf
    <3>2. Clean(b) /\ v2f[b].fixedID = i
      BY <1>1, <3>1 DEF FixedInv, BlocksAgree
    <3>3. PlacesOf(fixedmap[i].f2vmaps, b) = {p}
      BY <1>1 DEF FixedInv, ListsGood, GoodList, ListOf, PlacesOf
    <3> QED
      BY <3>2, <3>3
  <2> QED
    BY <2>1, <2>2 DEF MembersAreClean
<1>2. FixedInv => FixedMapsAgree
  BY <1>1, OneMarkEach DEF FixedInv, FixedMapsAgree
<1> QED
  BY <1>2, FixedInvariant, PTL

-----------------------------------------------------------------------------
\* The replay.
\* The request at each of its stages.  From "find" on a read goes on with
\* another block, t0, that holds the same content.
ReadStages == {"map", "find", "disk", "update", "fill"}
WriteStages == {"trim", "cache", "store"}
Redirected == {"find", "disk", "update", "fill"}

RequestOK ==
  /\ stage \in ReadStages \cup WriteStages \cup {"idle"}
  /\ stage # "idle" => b0 \in Blocks /\ k0 \in Keys
  /\ stage \in ReadStages =>
       req.rw = "read" /\ b0 \in DOMAIN disk /\ disk[b0] = k0
  /\ stage \in Redirected =>
       /\ t0 \in Blocks /\ t0 \in DOMAIN disk /\ disk[t0] = k0
       /\ req.hit \in BOOLEAN /\ req.dirty \in BOOLEAN /\ (req.hit => ~req.dirty)
       /\ ~req.hit => t0 = b0
  /\ stage \in WriteStages => req.rw = "write"
  /\ stage \in {"cache", "store"} => ~Clean(b0)

\* Nothing is put into the sector cache in the warm-up.
DevicesOK ==
  /\ DOMAIN disk \subseteq Blocks /\ disk \in [DOMAIN disk -> Keys]
  /\ DOMAIN sector \subseteq Blocks /\ sector \in [DOMAIN sector -> Keys]
  /\ warmup => DOMAIN sector = {}

\* A clean mapping leads to the key of what is on the disk.
KeysFresh == \A b \in Blocks : Clean(b) => b \in DOMAIN disk /\ KeyOf(b) = disk[b]

\* The inductive invariant.
ReplayInv ==
  /\ FixedInv
  /\ DevicesOK
  /\ RequestOK
  /\ SectorFresh
  /\ KeysFresh

-----------------------------------------------------------------------------
\* The leader of an element is a clean block of that element, so that it has
\* the same key as any other.
LEMMA LeaderOfElement ==
  ASSUME FixedInv, NEW b \in Blocks, Clean(b)
  PROVE  LET l == Leader(v2f[b].fixedID)
         IN  l \in Blocks /\ Clean(l) /\ KeyOf(l) = KeyOf(b)
<1> DEFINE i == v2f[b].fixedID
           l == Leader(i)
<1>1. i \in Ids /\ GoodList(ListOf(i))
  BY DEF FixedInv, BlocksAgree, ListsGood
<1>2. l \in BlocksIn(ListOf(i)) /\ BlocksIn(ListOf(i)) \subseteq Blocks
  <2>1. l = LeaderIn(ListOf(i))
    BY DEF Leader, LeaderIn, ListOf
  <2> QED
    BY <1>1, <2>1, GoodListFacts
<1>3. Clean(l) /\ v2f[l].fixedID = i
  BY <1>1, <1>2 DEF FixedInv, BlocksAgree
<1> QED
  BY <1>2, <1>3 DEF KeyOf

\* Hence a clean block and its leader have the same content on the disk.
LEMMA LeadersFresh ==
  ASSUME FixedInv, KeysFresh
  PROVE  LeaderFresh
<1> SUFFICES ASSUME NEW b \in Blocks, Clean(b)
             PROVE  LET leader == Leader(v2f[b].fixedID)
                    IN  /\ {b, leader} \subseteq DOMAIN disk
                        /\ disk[leader] = disk[b]
                        /\ KeyOf(b) = disk[b]
  BY DEF LeaderFresh
<1> DEFINE l == Leader(v2f[b].fixedID)
<1>1. l \in Blocks /\ Clean(l) /\ KeyOf(l) = KeyOf(b)
  BY LeaderOfElement
<1> QED
  BY <1>1 DEF KeysFresh

\* Steps that leave the metadata alone.
LEMMA SameMaps ==
  ASSUME FixedInv, UNCHANGED fixedVars
  PROVE  /\ FixedInv'
         /\ \A b : (Clean(b)' <=> Clean(b)) /\ KeyOf(b)' = KeyOf(b)
<1>1. FixedInv'
  BY FixedStep
<1>2. \A b : (Clean(b)' <=> Clean(b)) /\ KeyOf(b)' = KeyOf(b)
  BY DEF fixedVars, Clean, Mapped, KeyOf
<1> QED
  BY <1>1, <1>2

\* A trim makes its own block unclean, and leaves the others as they are.
LEMMA TrimmedKeys ==
  ASSUME FixedInv, NEW b \in Blocks, Trim(b)
  PROVE  /\ FixedInv'
         /\ ~Clean(b)'
         /\ \A x \in Blocks : Clean(x)' => Clean(x) /\ KeyOf(x)' = KeyOf(x)
<1>1. FixedInv'
  BY FixedStep DEF FixedNext
<1>2. CASE TrimUnmapped(b)
  <2>1. /\ \A x \in DOMAIN v2f : x # b => v2f'[x] = v2f[x]
        /\ DOMAIN v2f' = DOMAIN v2f \cup {b} /\ v2f'[b].fdirty
        /\ fixedmap' = fixedmap
    BY <1>2 DEF TrimUnmapped, With
  <2> QED
    BY <1>1, <2>1 DEF Clean, Mapped, KeyOf
<1>3. CASE TrimDirty(b)
  BY <1>1, <1>3, SameMaps DEF TrimDirty, Clean, Dirty
<1>4. CASE TrimClean(b)
  <2> DEFINE i == v2f[b].fixedID
  <2>1. /\ DOMAIN v2f' = DOMAIN v2f /\ b \in DOMAIN v2f
        /\ v2f'[b].fdirty
        /\ \A x \in DOMAIN v2f : x # b => v2f'[x] = v2f[x]
    BY <1>4 DEF FixedInv, FixedTypeOK, TrimClean, Clean, Mapped
  <2>2. i \in Ids /\ GoodList(ListOf(i)) /\ b \in BlocksIn(ListOf(i)) /\ RecycleFixedID(i, b)
    BY <1>4 DEF FixedInv, BlocksAgree, ListsGood, TrimClean
  <2>3. ASSUME NEW x \in Blocks, Clean(x)'
        PROVE  /\ Clean(x) /\ x # b /\ v2f'[x] = v2f[x]
               /\ v2f[x].fixedID \in Ids /\ x \in BlocksIn(ListOf(v2f[x].fixedID))
    BY <2>1, <2>3 DEF FixedInv, BlocksAgree, Clean, Mapped
  <2> HIDE DEF i
  <2>4. \A j \in Ids' : j \in Ids /\ fixedmap'[j].fhashkey = fixedmap[j].fhashkey
    <3>1. CASE Len(ListOf(i)) > 1
      <4>1. fixedmap' = [fixedmap EXCEPT ![i].f2vmaps = DelF2V(ListOf(i), b)]
        BY <2>2, <3>1 DEF RecycleFixedID, ListOf
      <4>2. DelF2V(ListOf(i), b) \in Seq(TupleType)
        BY <2>2, <3>1, LeftList DEF GoodList
      <4> QED
        BY <2>2, <4>1, <4>2, ChangedList
    <3>2. CASE ~(Len(ListOf(i)) > 1)
      <4>1. fixedmap' = Only(fixedmap, Ids \ {i})
        BY <2>2, <3>2 DEF RecycleFixedID, ListOf, Ids
      <4> QED
        BY <4>1 DEF Only, Ids
    <3> QED
      BY <3>1, <3>2
  <2>5. ASSUME NEW x \in Blocks, Clean(x)'
        PROVE  v2f'[x].fixedID \in Ids'
    BY <1>1, <2>5 DEF FixedInv, BlocksAgree
  <2> QED
    BY <1>1, <2>1, <2>3, <2>4, <2>5 DEF Clean, KeyOf
<1> QED
  BY <1>2, <1>3, <1>4 DEF Trim

\* An update makes its own block clean, with the key given, and leaves the
\* others as they are.
LEMMA LearntKeys ==
  ASSUME FixedInv, NEW b \in Blocks, NEW k \in Keys, Learn(b, k)
  PROVE  /\ FixedInv'
         /\ Clean(b)' /\ KeyOf(b)' = k
         /\ \A x \in Blocks : x # b => (Clean(x)' <=> Clean(x))
         /\ \A x \in Blocks : x # b /\ Clean(x) => KeyOf(x)' = KeyOf(x)
<1>1. FixedInv'
  BY FixedStep DEF FixedNext
<1>2. PICK i \in Nat :
        /\ UpdateBlockf(b, i)
        /\ i \in Ids' /\ fixedmap'[i].fhashkey = k
        /\ \A j \in Ids : fixedmap'[j].fhashkey = fixedmap[j].fhashkey
  <2>1. CASE JoinElement(b, k)
    <3> DEFINE i == fixedtab[k]
               g == <<Tuple(b)>> \o Unmark(ListOf(i))
    <3>1. i \in Ids /\ i \in Nat /\ fixedmap[i].fhashkey = k /\ GoodList(ListOf(i))
      BY <2>1 DEF FixedInv, FixedTypeOK, ListsGood, FixedTabAgrees, JoinElement
    <3>2. b \notin BlocksIn(ListOf(i))
      BY <3>1 DEF FixedInv, BlocksAgree, Learn
    <3>3. g \in Seq(TupleType)
      BY <3>1, <3>2, JoinedList DEF GoodList
    <3>4. fixedmap' = [fixedmap EXCEPT ![i].f2vmaps = g] /\ UpdateBlockf(b, i)
      BY <2>1, <3>2, PlacesAre DEF JoinElement, ListOf
    <3> HIDE DEF i, g
    <3>5. Ids' = Ids /\ \A j \in Ids : fixedmap'[j].fhashkey = fixedmap[j].fhashkey
      BY <3>1, <3>3, <3>4, ChangedList
    <3> QED
      BY <3>1, <3>4, <3>5
  <2>2. CASE NewElement(b, k)
    <3> DEFINE i == NextFixedNum
               e == [fhashkey |-> k, f2vmaps |-> <<Tuple(b)>>]
    <3>1. i \in Nat /\ i \notin Ids
      BY NextIsFresh
    <3>2. fixedmap' = With(fixedmap, i, e) /\ UpdateBlockf(b, i)
      BY <2>2 DEF NewElement
    <3>3. e.fhashkey = k
      OBVIOUS
    <3> HIDE DEF i, e
    <3> QED
      BY <3>1, <3>2, <3>3 DEF With, Ids
  <2> QED
    BY <2>1, <2>2 DEF Learn
<1>3. /\ \A x \in DOMAIN v2f : x # b => v2f'[x] = v2f[x]
      /\ Clean(b)' /\ v2f'[b].fixedID = i
      /\ \A x \in Blocks : x # b => (Clean(x)' <=> Clean(x))
  BY <1>2, BlockUpdated
<1>4. \A x \in Blocks : x # b /\ Clean(x) => KeyOf(x)' = KeyOf(x)
  BY <1>2, <1>3 DEF FixedInv, BlocksAgree, Clean, Mapped, KeyOf
<1>5. KeyOf(b)' = k
  BY <1>2, <1>3 DEF KeyOf
<1> QED
  BY <1>1, <1>3, <1>4, <1>5

\* A value put into the sector cache is there, and any other value there was
\* there before.
LEMMA SectorPut ==
  ASSUME sector \in [DOMAIN sector -> Keys], DOMAIN sector \subseteq Blocks,
         NEW b \in Blocks, NEW k \in Keys, Sector!Put(b, k)
  PROVE  /\ DOMAIN sector' \subseteq Blocks
         /\ sector' \in [DOMAIN sector' -> Keys]
         /\ sector'[b] = k
         /\ \A x \in DOMAIN sector' : x # b => x \in DOMAIN sector /\ sector'[x] = sector[x]
<1>1. CASE Sector!Insert(b, k)
  <2>1. PICK kept \in SUBSET DOMAIN sector :
          sector' = [m \in kept \cup {b} |-> IF m = b THEN k ELSE sector[m]]
    BY <1>1 DEF Sector!Insert
  <2> QED
    BY <2>1
<1>2. CASE Sector!Update(b, k)
  BY <1>2 DEF Sector!Update
<1> QED
  BY <1>1, <1>2 DEF Sector!Put, Sector!Touch

-----------------------------------------------------------------------------
LEMMA ReplayInitially == ReplayInit => ReplayInv
<1> SUFFICES ASSUME ReplayInit PROVE ReplayInv
  OBVIOUS
<1>1. FixedInv
  BY FixedInitially DEF ReplayInit
<1>2. DOMAIN v2f = {} /\ DOMAIN disk = {} /\ DOMAIN sector = {} /\ stage = "idle"
  BY DEF ReplayInit, FixedInit, Sector!StoreInit
<1>3. disk \in [DOMAIN disk -> Keys] /\ sector \in [DOMAIN sector -> Keys]
  BY DEF ReplayInit, Sector!StoreInit
<1> QED
  BY <1>1, <1>2, <1>3
  DEF ReplayInv, DevicesOK, RequestOK, SectorFresh, KeysFresh, Clean, Mapped,
      ReadStages, WriteStages, Redirected

LEMMA StartReadStep ==
  ASSUME ReplayInv, NEW b \in Blocks, NEW k \in Keys, StartRead(b, k)
  PROVE  ReplayInv'
<1>1. /\ stage = "idle" /\ stage' = "map"
      /\ req' = [rw |-> "read", block |-> b, content |-> k]
      /\ UNCHANGED <<fixedVars, sector, warmup>>
  BY DEF StartRead, TakeUp
<1>2. FixedInv' /\ \A x : (Clean(x)' <=> Clean(x)) /\ KeyOf(x)' = KeyOf(x)
  BY <1>1, SameMaps DEF ReplayInv
<1>3. /\ DOMAIN disk' = DOMAIN disk \cup {b}
      /\ disk'[b] = k
      /\ \A x \in DOMAIN disk : disk'[x] = disk[x]
      /\ disk' \in [DOMAIN disk' -> Keys]
  BY DEF ReplayInv, DevicesOK, StartRead, With
<1>4. DevicesOK'
  BY <1>1, <1>3 DEF ReplayInv, DevicesOK
<1>5. RequestOK'
  BY <1>1, <1>3 DEF RequestOK, ReadStages, WriteStages, Redirected, b0, k0
<1>6. SectorFresh'
  BY <1>1, <1>3 DEF ReplayInv, SectorFresh, WritingSector
<1>7. KeysFresh'
  BY <1>2, <1>3 DEF ReplayInv, KeysFresh
<1> QED
  BY <1>2, <1>4, <1>5, <1>6, <1>7 DEF ReplayInv

LEMMA StartWriteStep ==
  ASSUME ReplayInv, NEW b \in Blocks, NEW k \in Keys, StartWrite(b, k)
  PROVE  ReplayInv'
<1>1. /\ stage = "idle" /\ stage' = "trim"
      /\ req' = [rw |-> "write", block |-> b, content |-> k]
      /\ UNCHANGED <<fixedVars, disk, sector, warmup>>
  BY DEF StartWrite, TakeUp
<1>2. FixedInv' /\ \A x : (Clean(x)' <=> Clean(x)) /\ KeyOf(x)' = KeyOf(x)
  BY <1>1, SameMaps DEF ReplayInv
<1>3. RequestOK'
  BY <1>1 DEF RequestOK, ReadStages, WriteStages, Redirected, b0, k0
<1>4. SectorFresh' /\ DevicesOK'
  BY <1>1 DEF ReplayInv, DevicesOK, SectorFresh, WritingSector
<1>5. KeysFresh'
  BY <1>1, <1>2 DEF ReplayInv, KeysFresh
<1> QED
  BY <1>2, <1>3, <1>4, <1>5 DEF ReplayInv

\* A read is redirected to a block that has its content.
LEMMA RedirectStep ==
  ASSUME ReplayInv, Redirect \/ FallBack
  PROVE  ReplayInv'
<1>1. stage = "map" /\ UNCHANGED <<fixedVars, disk, sector, warmup>>
  BY DEF Redirect, FallBack, GoOn
<1>2. FixedInv' /\ \A x : (Clean(x)' <=> Clean(x)) /\ KeyOf(x)' = KeyOf(x)
  BY <1>1, SameMaps DEF ReplayInv
<1>3. b0 \in Blocks /\ k0 \in Keys /\ b0 \in DOMAIN disk /\ disk[b0] = k0
  BY <1>1 DEF ReplayInv, RequestOK, ReadStages, WriteStages
<1>4. PICK t \in Blocks, hit \in BOOLEAN, dirty \in BOOLEAN, id \in Nat :
        /\ GoOn(t, hit, dirty, id)
        /\ t \in DOMAIN disk /\ disk[t] = k0
        /\ hit => ~dirty
        /\ ~hit => t = b0
  <2>1. CASE Redirect
    <3> DEFINE l == Leader(v2f[b0].fixedID)
    <3>1. Clean(b0) /\ GoOn(l, TRUE, FALSE, v2f[b0].fixedID)
      BY <2>1 DEF Redirect
    <3>2. l \in Blocks
      BY <1>3, <3>1, LeaderOfElement DEF ReplayInv
    <3>3. l \in DOMAIN disk /\ disk[l] = disk[b0]
      BY <1>3, <3>1, LeadersFresh DEF ReplayInv, LeaderFresh
    <3>4. v2f[b0].fixedID \in Nat
      BY <1>3, <3>1 DEF ReplayInv, FixedInv, FixedTypeOK, Clean, Mapped
    <3> QED
      BY <1>3, <3>1, <3>2, <3>3, <3>4
  <2>2. CASE FallBack
    <3>1. GoOn(b0, FALSE, Dirty(b0), DummyId) /\ Dirty(b0) \in BOOLEAN
      <4>1. Mapped(b0) => v2f[b0].fdirty \in BOOLEAN
        BY DEF ReplayInv, FixedInv, FixedTypeOK, Mapped
      <4> QED
        BY <2>2, <4>1 DEF FallBack, Dirty, Mapped
    <3>2. DummyId \in Nat
      BY DEF DummyId
    <3> QED
      BY <1>3, <3>1, <3>2
  <2> QED
    BY <2>1, <2>2
<1>5. /\ stage' = "find"
      /\ req' = [rw |-> "read", block |-> b0, content |-> k0,
                 ioblk |-> t, hit |-> hit, dirty |-> dirty, id |-> id]
  BY <1>4 DEF GoOn
<1>6. RequestOK'
  <2>1. b0' = b0 /\ k0' = k0 /\ t0' = t /\ req'.hit = hit /\ req'.dirty = dirty /\ req'.rw = "read"
    BY <1>5 DEF b0, k0, t0
  <2> QED
    BY <1>1, <1>3, <1>4, <1>5, <2>1
    DEF RequestOK, ReadStages, WriteStages, Redirected
<1>7. SectorFresh' /\ DevicesOK'
  BY <1>1, <1>5 DEF ReplayInv, DevicesOK, SectorFresh, WritingSector
<1>8. KeysFresh'
  BY <1>1, <1>2 DEF ReplayInv, KeysFresh
<1> QED
  BY <1>2, <1>6, <1>7, <1>8 DEF ReplayInv

\* The lookups change nothing but the stage and the answer.
LEMMA LookupStep ==
  ASSUME ReplayInv, FindInSector \/ MissInSector \/ ReadDisk
  PROVE  ReplayInv'
<1>1. /\ stage \in {"find", "disk"}
      /\ stage' \in {"idle", "disk", "update"}
      /\ UNCHANGED <<fixedVars, disk, sector, req, warmup>>
  BY DEF FindInSector, MissInSector, ReadDisk
<1>2. FixedInv' /\ \A x : (Clean(x)' <=> Clean(x)) /\ KeyOf(x)' = KeyOf(x)
  BY <1>1, SameMaps DEF ReplayInv
<1>3. RequestOK'
  BY <1>1 DEF ReplayInv, RequestOK, ReadStages, WriteStages, Redirected, b0, k0, t0
<1>4. SectorFresh' /\ DevicesOK'
  BY <1>1 DEF ReplayInv, DevicesOK, SectorFresh, WritingSector
<1>5. KeysFresh'
  BY <1>1, <1>2 DEF ReplayInv, KeysFresh
<1> QED
  BY <1>2, <1>3, <1>4, <1>5 DEF ReplayInv

\* The block that was read is mapped to the key of its content.
LEMMA UpdateMapStep ==
  ASSUME ReplayInv, UpdateMap
  PROVE  ReplayInv'
<1>1. /\ stage = "update" /\ stage' = "fill"
      /\ FMapupdate
      /\ UNCHANGED <<disk, sector, req, warmup>>
  BY DEF UpdateMap
<1>2. b0 \in Blocks /\ k0 \in Keys /\ b0 \in DOMAIN disk /\ disk[b0] = k0
  BY <1>1 DEF ReplayInv, RequestOK, ReadStages
<1>3. FixedInv' /\ KeysFresh'
  <2>1. CASE req.hit
    <3>1. FixedInv' /\ \A x : (Clean(x)' <=> Clean(x)) /\ KeyOf(x)' = KeyOf(x)
      BY <1>1, <2>1, SameMaps DEF ReplayInv, FMapupdate
    <3> QED
      BY <1>1, <3>1 DEF ReplayInv, KeysFresh
  <2>2. CASE ~req.hit
    <3>1. PICK b \in Blocks, k \in Keys : b = b0 /\ k = k0
      BY <1>2
    <3>2. Learn(b, k)
      BY <1>1, <2>2, <3>1 DEF FMapupdate
    <3>3. /\ FixedInv' /\ KeyOf(b)' = k
          /\ \A x \in Blocks : x # b => (Clean(x)' <=> Clean(x))
          /\ \A x \in Blocks : x # b /\ Clean(x) => KeyOf(x)' = KeyOf(x)
      BY <3>2, LearntKeys DEF ReplayInv
    <3> QED
      BY <1>1, <1>2, <3>1, <3>3 DEF ReplayInv, KeysFresh
  <2> QED
    BY <2>1, <2>2
<1>4. RequestOK'
  BY <1>1 DEF ReplayInv, RequestOK, ReadStages, WriteStages, Redirected, b0, k0, t0
<1>5. SectorFresh' /\ DevicesOK'
  BY <1>1 DEF ReplayInv, DevicesOK, SectorFresh, WritingSector
<1> QED
  BY <1>3, <1>4, <1>5 DEF ReplayInv

\* The sector cache is filled with the content of the block that was fetched,
\* or with the one that is on its way to the disk.
LEMMA SectorStep ==
  ASSUME ReplayInv, FillSector \/ WriteSector
  PROVE  ReplayInv'
<1> DEFINE t == IF stage = "fill" THEN t0 ELSE b0
<1>1. /\ \/ stage = "fill" /\ stage' = "idle"
         \/ stage = "cache" /\ stage' = "store"
      /\ PutUnder(t)
      /\ UNCHANGED <<fixedVars, disk, req, warmup>>
  BY DEF FillSector, WriteSector
<1>2. FixedInv' /\ \A x : (Clean(x)' <=> Clean(x)) /\ KeyOf(x)' = KeyOf(x)
  BY <1>1, SameMaps DEF ReplayInv
<1>3. t \in Blocks /\ k0 \in Keys /\ b0' = b0 /\ k0' = k0
  BY <1>1 DEF ReplayInv, RequestOK, WriteStages, ReadStages, Redirected, b0, k0
<1>4. \/ warmup /\ UNCHANGED sector
      \/ /\ ~warmup
         /\ DOMAIN sector' \subseteq Blocks
         /\ sector' \in [DOMAIN sector' -> Keys]
         /\ sector'[t] = k0
         /\ \A x \in DOMAIN sector' : x # t => x \in DOMAIN sector /\ sector'[x] = sector[x]
  BY <1>1, <1>3, SectorPut DEF PutUnder, ReplayInv, DevicesOK
<1>5. DevicesOK'
  BY <1>1, <1>4 DEF ReplayInv, DevicesOK
<1>6. RequestOK'
  BY <1>1, <1>2 DEF ReplayInv, RequestOK, ReadStages, WriteStages, Redirected, b0, k0
<1>7. SectorFresh'
  <2>1. CASE stage = "fill"
    <3>1. /\ t = t0 /\ t0 \in DOMAIN disk /\ disk[t0] = k0
          /\ \A x : ~WritingSector(x) /\ ~WritingSector(x)'
      BY <1>1, <2>1 DEF ReplayInv, RequestOK, Redirected, WritingSector
    <3> QED
      BY <1>1, <1>4, <3>1 DEF ReplayInv, SectorFresh
  <2>2. CASE stage = "cache"
    <3>1. /\ t = b0 /\ \A x : ~WritingSector(x)
          /\ \A x : WritingSector(x)' <=> x = b0
      BY <1>1, <1>3, <2>2 DEF ReplayInv, RequestOK, WriteStages, WritingSector
    <3>2. ASSUME NEW x \in DOMAIN sector', x # b0
          PROVE  x \in DOMAIN disk' /\ sector'[x] = disk'[x]
      <4>1. x \in DOMAIN sector /\ sector'[x] = sector[x]
        BY <1>4, <3>1, <3>2 DEF PutUnder
      <4> QED
        BY <1>1, <3>1, <4>1 DEF ReplayInv, SectorFresh
    <3>3. b0 \in DOMAIN sector' => sector'[b0] = k0
      BY <1>4, <3>1 DEF ReplayInv, DevicesOK
    <3> QED
      BY <1>3, <3>1, <3>2, <3>3 DEF SectorFresh
  <2> QED
    BY <1>1, <2>1, <2>2
<1>8. KeysFresh'
  BY <1>1, <1>2 DEF ReplayInv, KeysFresh
<1> QED
  BY <1>2, <1>5, <1>6, <1>7, <1>8 DEF ReplayInv

LEMMA TrimMapStep ==
  ASSUME ReplayInv, TrimMap
  PROVE  ReplayInv'
<1>1. stage = "trim" /\ stage' = "cache" /\ Trim(b0) /\ UNCHANGED <<disk, sector, req, warmup>>
  BY DEF TrimMap
<1>2. b0 \in Blocks /\ k0 \in Keys /\ req.rw = "write" /\ b0' = b0 /\ k0' = k0
  BY <1>1 DEF ReplayInv, RequestOK, WriteStages, b0, k0
<1>3. /\ FixedInv' /\ ~Clean(b0)'
      /\ \A x \in Blocks : Clean(x)' => Clean(x) /\ KeyOf(x)' = KeyOf(x)
  BY <1>1, <1>2, TrimmedKeys DEF ReplayInv
<1>4. RequestOK'
  <2>1. ~Clean(b0)'
    BY <1>2, <1>3 DEF Clean, Mapped
  <2> QED
    BY <1>1, <1>2, <2>1 DEF RequestOK, ReadStages, WriteStages, Redirected
<1>5. SectorFresh' /\ DevicesOK'
  BY <1>1 DEF ReplayInv, DevicesOK, SectorFresh, WritingSector
<1>6. KeysFresh'
  BY <1>1, <1>3 DEF ReplayInv, KeysFresh
<1> QED
  BY <1>3, <1>4, <1>5, <1>6 DEF ReplayInv

\* The block that is written has no clean mapping, so that no mapping becomes
\* outdated.
LEMMA WriteDiskStep ==
  ASSUME ReplayInv, WriteDisk
  PROVE  ReplayInv'
<1>1. /\ stage = "store" /\ stage' = "idle"
      /\ disk' = With(disk, b0, k0)
      /\ UNCHANGED <<fixedVars, sector, req, warmup>>
  BY DEF WriteDisk
<1>2. FixedInv' /\ \A x : (Clean(x)' <=> Clean(x)) /\ KeyOf(x)' = KeyOf(x)
  BY <1>1, SameMaps DEF ReplayInv
<1>3. b0 \in Blocks /\ k0 \in Keys /\ req.rw = "write" /\ ~Clean(b0)
  BY <1>1 DEF ReplayInv, RequestOK, WriteStages
<1>4. /\ DOMAIN disk' = DOMAIN disk \cup {b0}
      /\ disk'[b0] = k0
      /\ \A x \in DOMAIN disk : x # b0 => disk'[x] = disk[x]
      /\ disk' \in [DOMAIN disk' -> Keys]
  BY <1>1, <1>3 DEF With, ReplayInv, DevicesOK
<1>5. DevicesOK'
  BY <1>1, <1>3, <1>4 DEF ReplayInv, DevicesOK
<1>6. RequestOK'
  BY <1>1 DEF RequestOK, ReadStages, WriteStages, Redirected
<1>7. SectorFresh'
  BY <1>1, <1>3, <1>4 DEF ReplayInv, SectorFresh, WritingSector
<1>8. KeysFresh'
  BY <1>2, <1>3, <1>4 DEF ReplayInv, KeysFresh
<1> QED
  BY <1>2, <1>5, <1>6, <1>7, <1>8 DEF ReplayInv

LEMMA RestStep ==
  ASSUME ReplayInv, EndWarmup \/ UNCHANGED replayVars
  PROVE  ReplayInv'
<1>1. UNCHANGED <<fixedVars, disk, sector, stage, req>> /\ (warmup' => warmup)
  BY DEF EndWarmup, replayVars, requestVars
<1>2. FixedInv' /\ \A x : (Clean(x)' <=> Clean(x)) /\ KeyOf(x)' = KeyOf(x)
  BY <1>1, SameMaps DEF ReplayInv
<1>3. RequestOK'
  BY <1>1 DEF ReplayInv, RequestOK, ReadStages, WriteStages, Redirected, b0, k0, t0,
              Clean, Mapped, fixedVars
<1>4. SectorFresh' /\ DevicesOK'
  BY <1>1 DEF ReplayInv, DevicesOK, SectorFresh, WritingSector, b0, k0
<1>5. KeysFresh'
  BY <1>1, <1>2 DEF ReplayInv, KeysFresh
<1> QED
  BY <1>2, <1>3, <1>4, <1>5 DEF ReplayInv

LEMMA ReplayStep == ReplayInv /\ [ReplayNext]_replayVars => ReplayInv'
<1> SUFFICES ASSUME ReplayInv, [ReplayNext]_replayVars
             PROVE  ReplayInv'
  OBVIOUS
<1>1. ASSUME NEW b \in Blocks, NEW k \in Keys, StartRead(b, k) \/ StartWrite(b, k)
      PROVE  ReplayInv'
  BY <1>1, StartReadStep, StartWriteStep
<1>2. CASE FreplayMap
  BY <1>2, RedirectStep, TrimMapStep DEF FreplayMap
<1>3. CASE ReadStep
  BY <1>3, LookupStep, UpdateMapStep, SectorStep DEF ReadStep
<1>4. CASE WriteStep
  BY <1>4, SectorStep, WriteDiskStep DEF WriteStep
<1>5. CASE EndWarmup \/ UNCHANGED replayVars
  BY <1>5, RestStep
<1> QED
  BY <1>1, <1>2, <1>3, <1>4, <1>5 DEF ReplayNext

\* The inductive invariant of the replay.
THEOREM ReplayInvariant == ReplaySpec => []ReplayInv
  BY ReplayInitially, ReplayStep, PTL DEF ReplaySpec

\* A read goes to another block, or is answered under its number, only where
\* the content is the same (fixing.c:160-165, sectorcache.c:200-206).
THEOREM RedirectsTheorem == ReplaySpec => []RedirectsFresh
<1>1. ReplayInv => RedirectsFresh
  BY LeadersFresh DEF ReplayInv, RedirectsFresh
<1> QED
  BY <1>1, ReplayInvariant, PTL

-----------------------------------------------------------------------------
\* The refinement of BlockDevice: the steps that answer a request are reads
\* of the device, those that change the disk are discoveries and writes.
LEMMA DeviceStep ==
  ASSUME ReplayInv, [ReplayNext]_replayVars
  PROVE  [Device!DeviceNext]_<<disk, reply>>
<1>1. ASSUME NEW b \in Blocks, NEW k \in Keys, StartRead(b, k)
      PROVE  [Device!DeviceNext]_<<disk, reply>>
  <2>1. CASE b \in DOMAIN disk
    <3>1. disk' = With(disk, b, disk[b]) /\ reply' = reply
      BY <1>1, <2>1 DEF StartRead, TakeUp
    <3>2. disk' = disk
      BY <2>1, <3>1 DEF With, ReplayInv, DevicesOK
    <3> QED
      BY <3>1, <3>2
  <2>2. CASE b \notin DOMAIN disk
    <3>1. Device!Discover(b, k)
      BY <1>1, <2>2 DEF StartRead, TakeUp, With, Device!Discover, Device!Hold
    <3> QED
      BY <3>1 DEF Device!DeviceNext
  <2> QED
    BY <2>1, <2>2
<1>2. CASE FindInSector
  <2>1. /\ b0 \in Blocks /\ b0 \in DOMAIN disk /\ disk[b0] = k0
        /\ t0 \in DOMAIN disk /\ disk[t0] = k0
    BY <1>2 DEF FindInSector, ReplayInv, RequestOK, ReadStages, Redirected
  <2>2. sector[t0] = disk[t0]
    BY <1>2 DEF FindInSector, ReplayInv, SectorFresh, WritingSector
  <2>3. Device!Read(b0)
    BY <1>2, <2>1, <2>2 DEF FindInSector, Device!Read
  <2> QED
    BY <2>1, <2>3 DEF Device!DeviceNext
<1>3. CASE ReadDisk
  <2>1. b0 \in Blocks /\ b0 \in DOMAIN disk /\ disk[t0] = disk[b0]
    BY <1>3 DEF ReadDisk, ReplayInv, RequestOK, ReadStages, Redirected
  <2>2. Device!Read(b0)
    BY <1>3, <2>1 DEF ReadDisk, Device!Read
  <2> QED
    BY <2>1, <2>2 DEF Device!DeviceNext
<1>4. CASE WriteDisk
  <2>1. b0 \in Blocks /\ k0 \in Keys
    BY <1>4 DEF WriteDisk, ReplayInv, RequestOK, WriteStages
  <2>2. Device!Write(b0, k0)
    BY <1>4 DEF WriteDisk, With, Device!Write, Device!Hold
  <2> QED
    BY <2>1, <2>2 DEF Device!DeviceNext
<1> QED
  BY <1>1, <1>2, <1>3, <1>4
     DEF ReplayNext, FreplayMap, ReadStep, WriteStep, StartWrite, TakeUp, Redirect, FallBack,
         GoOn, MissInSector, UpdateMap, FillSector, WriteSector, TrimMap, EndWarmup,
         replayVars, requestVars

\* However reads are redirected, the replay answers each with the content last
\* written to its block.
THEOREM DeviceTheorem == ReplaySpec => RedirectedImplementsDevice
<1>1. ReplayInit => Device!DeviceInit
  BY DEF ReplayInit, Device!DeviceInit
<1>2. ReplayInv /\ [ReplayNext]_replayVars => [Device!DeviceNext]_<<disk, reply>>
  BY DeviceStep
<1> QED
  BY <1>1, <1>2, ReplayInvariant, PTL
  DEF ReplaySpec, RedirectedImplementsDevice, Device!DeviceSpec

-----------------------------------------------------------------------------
\* The counters.  The equations of sim_replay_exit, whatever the stage.
Balanced ==
  /\ c("gtotalreadreq") = c("compulsory_misses") + c("bcache_hits_r") + c("capacity_misses")
  /\ c("fmap_hits") = c("fixed_dedup_hits") + c("fixed_self_hits")
                      + c("fixed_dedup_misses") + c("fixed_self_misses")
  /\ c("bcache_misses_r") = c("compulsory_misses") + c("capacity_misses")
  /\ c("compulsory_misses") = c("fmap_misses") - c("fmap_dirties")
                              - c("fmapmiss_cachehits") + c("fmapdirty_cachehits")
  /\ c("capacity_misses") = c("fixed_dedup_misses") + c("fixed_self_misses")
                            + c("fmap_dirties") - c("fmapdirty_cachehits")
  /\ c("fmap_hits") = c("capacity_misses") - (c("fmap_dirties") - c("fmapdirty_cachehits"))
                      + c("bcache_hits_r") - c("fmapmiss_cachehits")
  /\ c("fmap_self_is_leader") = c("fixed_self_hits") + c("fixed_self_misses")
  /\ c("fmap_self_is_not_leader") = c("fixed_dedup_hits") + c("fixed_dedup_misses")

\* What the metadata have counted of a read, by what they made of it.
HitCounted(self) ==
  {"fmap_hits", "ctotalblkread", "con_blkread"} \cup
  {IF self THEN "fmap_self_is_leader" ELSE "fmap_self_is_not_leader"}
MissCounted(dirty) ==
  {"fmap_misses", "ctotalblkread", "con_fallback_blkread"}
    \cup (IF dirty THEN {"fmap_dirties"} ELSE {})
MapCounted == IF req.hit THEN HitCounted(t0 = b0) ELSE MissCounted(req.dirty)

\* A read is between the metadata, which count it as a hit or a miss, and the
\* sector cache, which settles what became of it; then it is balanced.  The
\* counters left are in none of the equations.
CountInv ==
  /\ warmup => counted = {}
  /\ ~warmup /\ stage = "map" => counted = {"gtotalreadreq"}
  /\ ~warmup /\ stage = "find" => counted = {"gtotalreadreq"} \cup MapCounted
  /\ stage \notin {"map", "find"} => Balanced

OtherCounters == {"disk_hits_r", "disk_hits_w", "bcache_hits_w", "bcache_misses_w"}

LEMMA NothingBalanced == counted = {} => Balanced
BY DEF Balanced, c

\* What is in none of the equations disturbs none.
LEMMA OthersBalanced ==
  ASSUME Balanced, NEW S \in SUBSET OtherCounters, counted' = counted \cup S
  PROVE  Balanced'
<1>1. ASSUME NEW n, n \notin OtherCounters
      PROVE  (n \in counted' <=> n \in counted)
  BY <1>1
<1> QED
  BY <1>1 DEF Balanced, c, OtherCounters

\* A redirected read, found in the sector cache or not.
LEMMA HitBalanced ==
  ASSUME NEW self \in BOOLEAN,
         \/ counted' = {"gtotalreadreq"} \cup HitCounted(self) \cup {"bcache_hits_r"}
                         \cup {IF self THEN "fixed_self_hits" ELSE "fixed_dedup_hits"}
         \/ counted' = {"gtotalreadreq"} \cup HitCounted(self)
                         \cup {"bcache_misses_r", "capacity_misses"}
                         \cup {IF self THEN "fixed_self_misses" ELSE "fixed_dedup_misses"}
  PROVE  Balanced'
<1>1. CASE self
  BY <1>1 DEF HitCounted, Balanced, c
<1>2. CASE ~self
  BY <1>2 DEF HitCounted, Balanced, c
<1> QED
  BY <1>1, <1>2

\* A read of the block itself, found in the sector cache or not.
LEMMA MissBalanced ==
  ASSUME NEW dirty \in BOOLEAN,
         \/ counted' = {"gtotalreadreq"} \cup MissCounted(dirty)
                         \cup {"bcache_hits_r", "fmapmiss_cachehits"}
                         \cup (IF dirty THEN {"fmapdirty_cachehits"} ELSE {})
         \/ counted' = {"gtotalreadreq"} \cup MissCounted(dirty)
                         \cup {"bcache_misses_r", "fmapmiss_cachemisses",
                               IF dirty THEN "capacity_misses" ELSE "compulsory_misses"}
  PROVE  Balanced'
<1>1. CASE dirty
  BY <1>1 DEF MissCounted, Balanced, c
<1>2. CASE ~dirty
  BY <1>2 DEF MissCounted, Balanced, c
<1> QED
  BY <1>1, <1>2

\* The steps of the warm-up count nothing.
LEMMA WarmupCounts ==
  ASSUME CountInv, warmup, ReplayNext
  PROVE  CountInv'
<1>1. counted' = {}
  BY DEF CountInv, ReplayNext, StartRead, StartWrite, TakeUp, FreplayMap, Redirect, FallBack,
     GoOn, Count, ReadStep, FindInSector, MissInSector, ReadDisk, UpdateMap, FillSector,
     WriteStep, WriteSector, WriteDisk, TrimMap, EndWarmup, requestVars
<1>2. Balanced'
  BY <1>1 DEF Balanced, c
<1>3. warmup' \/ stage' = "idle"
  BY DEF ReplayNext, StartRead, StartWrite, TakeUp, FreplayMap, Redirect, FallBack,
     GoOn, ReadStep, FindInSector, MissInSector, ReadDisk, UpdateMap, FillSector,
     WriteStep, WriteSector, WriteDisk, TrimMap, EndWarmup, requestVars
<1> QED
  BY <1>1, <1>2, <1>3 DEF CountInv

\* After the warm-up.
LEMMA CountingStep ==
  ASSUME ReplayInv, CountInv, ~warmup, ReplayNext
  PROVE  CountInv'
<1>1. ASSUME NEW b \in Blocks, NEW k \in Keys, StartRead(b, k) \/ StartWrite(b, k)
      PROVE  CountInv'
  <2>1. CASE StartRead(b, k)
    BY <2>1 DEF StartRead, TakeUp, CountInv
  <2>2. CASE StartWrite(b, k)
    <3>1. counted' = {"gtotalwritereq"} /\ stage' = "trim" /\ warmup' = warmup
      BY <2>2 DEF StartWrite, TakeUp
    <3>2. Balanced'
      BY <3>1 DEF Balanced, c
    <3> QED
      BY <3>1, <3>2 DEF CountInv
  <2> QED
    BY <1>1, <2>1, <2>2
<1>2. CASE Redirect
  <2> DEFINE l == Leader(v2f[b0].fixedID)
  <2>1. /\ stage' = "find" /\ warmup' = warmup
        /\ b0' = b0 /\ t0' = l /\ req'.hit
    BY <1>2 DEF Redirect, GoOn, b0, t0
  <2>2. counted' = {"gtotalreadreq"} \cup HitCounted(l = b0)
    BY <1>2 DEF Redirect, Count, CountInv, HitCounted
  <2> QED
    BY <2>1, <2>2 DEF CountInv, MapCounted
<1>3. CASE FallBack
  <2>1. /\ stage' = "find" /\ warmup' = warmup
        /\ ~req'.hit /\ req'.dirty = Dirty(b0)
    BY <1>3 DEF FallBack, GoOn
  <2>2. counted' = {"gtotalreadreq"} \cup MissCounted(Dirty(b0))
    BY <1>3 DEF FallBack, Count, CountInv, MissCounted
  <2> QED
    BY <2>1, <2>2 DEF CountInv, MapCounted
<1>4. CASE FindInSector
  <2>1. /\ stage' = "idle" /\ warmup' = warmup
        /\ counted = {"gtotalreadreq"} \cup MapCounted
        /\ req.hit \in BOOLEAN /\ req.dirty \in BOOLEAN
    BY <1>4 DEF FindInSector, CountInv, ReplayInv, RequestOK, ReadStages, Redirected
  <2>2. CASE req.hit
    <3>1. counted' = {"gtotalreadreq"} \cup HitCounted(t0 = b0) \cup {"bcache_hits_r"}
                         \cup {IF t0 = b0 THEN "fixed_self_hits" ELSE "fixed_dedup_hits"}
      BY <1>4, <2>1, <2>2 DEF FindInSector, Count, SelfOrDedup, MapCounted
    <3> QED
      BY <2>1, <3>1, HitBalanced DEF CountInv
  <2>3. CASE ~req.hit
    <3>1. counted' = {"gtotalreadreq"} \cup MissCounted(req.dirty)
                         \cup {"bcache_hits_r", "fmapmiss_cachehits"}
                         \cup (IF req.dirty THEN {"fmapdirty_cachehits"} ELSE {})
      BY <1>4, <2>1, <2>3 DEF FindInSector, Count, MapCounted
    <3> QED
      BY <2>1, <3>1, MissBalanced DEF CountInv
  <2> QED
    BY <2>2, <2>3
<1>5. CASE MissInSector
  <2>1. /\ stage' = "disk" /\ warmup' = warmup
        /\ counted = {"gtotalreadreq"} \cup MapCounted
        /\ req.hit \in BOOLEAN /\ req.dirty \in BOOLEAN
    BY <1>5 DEF MissInSector, CountInv, ReplayInv, RequestOK, ReadStages, Redirected
  <2>2. CASE req.hit
    <3>1. counted' = {"gtotalreadreq"} \cup HitCounted(t0 = b0)
                         \cup {"bcache_misses_r", "capacity_misses"}
                         \cup {IF t0 = b0 THEN "fixed_self_misses" ELSE "fixed_dedup_misses"}
      BY <1>5, <2>1, <2>2 DEF MissInSector, Count, SelfOrDedup, MapCounted
    <3> QED
      BY <2>1, <3>1, HitBalanced DEF CountInv
  <2>3. CASE ~req.hit
    <3>1. counted' = {"gtotalreadreq"} \cup MissCounted(req.dirty)
                         \cup {"bcache_misses_r", "fmapmiss_cachemisses",
                               IF req.dirty THEN "capacity_misses" ELSE "compulsory_misses"}
      BY <1>5, <2>1, <2>3 DEF MissInSector, Count, MapCounted
    <3> QED
      BY <2>1, <3>1, MissBalanced DEF CountInv
  <2> QED
    BY <2>2, <2>3
<1>6. CASE ReadDisk \/ WriteSector \/ WriteDisk
  <2>1. /\ Balanced /\ warmup' = warmup /\ stage' \notin {"map", "find"}
        /\ \E S \in SUBSET OtherCounters : counted' = counted \cup S
    BY <1>6 DEF ReadDisk, WriteSector, WriteDisk, Count, CountInv, OtherCounters
  <2> QED
    BY <2>1, OthersBalanced DEF CountInv
<1>7. CASE UpdateMap \/ FillSector \/ TrimMap \/ EndWarmup
  <2>1. /\ Balanced /\ ~warmup' /\ stage' \notin {"map", "find"} /\ counted' = counted
    BY <1>7 DEF UpdateMap, FillSector, TrimMap, EndWarmup, requestVars, CountInv
  <2>2. Balanced'
    BY <2>1 DEF Balanced, c
  <2> QED
    BY <2>1, <2>2 DEF CountInv
<1> QED
  BY <1>1, <1>2, <1>3, <1>4, <1>5, <1>6, <1>7 DEF ReplayNext, FreplayMap, ReadStep, WriteStep

\* At the end of every read and write the counters balance as
\* sim_replay_exit asserts of their sums (main_sim_replay.c:1353, 1363-1369).
THEOREM AccountedTheorem == ReplaySpec => []ConfidedAccounted
<1>1. ReplayInit => CountInv
  BY NothingBalanced DEF ReplayInit, CountInv
<1>2. ReplayInv /\ CountInv /\ [ReplayNext]_replayVars => CountInv'
  <2>1. CASE ReplayInv /\ CountInv /\ ReplayNext
    BY <2>1, WarmupCounts, CountingStep
  <2>2. CASE CountInv /\ UNCHANGED replayVars
    BY <2>2 DEF replayVars, requestVars, CountInv, MapCounted, Balanced, c, b0, t0
  <2> QED
    BY <2>1, <2>2
<1>3. CountInv => ConfidedAccounted
  BY DEF CountInv, ConfidedAccounted, Balanced
<1> QED
  BY <1>1, <1>2, <1>3, ReplayInvariant, PTL DEF ReplaySpec
=============================================================================
