--------------------------- MODULE SequenceFacts ---------------------------
(***************************************************************************)
(* What the proofs need to know of lists: the queues of identifiers that   *)
(* may be given out again, the removal of one element, the smallest number *)
(* of a set, for the proofs that would go by induction, and the sequences  *)
(* that are put one after the other.                                       *)
(***************************************************************************)
EXTENDS SequencesExt, FiniteSetTheorems, SequenceTheorems, TLAPS

\* The elements of a queue, when one is appended ...
LEMMA AppendedSet ==
  ASSUME NEW S, NEW s \in Seq(S), NEW x \in S
  PROVE  /\ ToSet(Append(s, x)) = ToSet(s) \cup {x}
         /\ IsInjective(s) /\ x \notin ToSet(s) => IsInjective(Append(s, x))
<1> DEFINE t == Append(s, x)
<1>1. /\ t \in Seq(S)
      /\ Len(t) = Len(s) + 1
      /\ \A i \in 1..Len(s) : t[i] = s[i]
      /\ t[Len(s) + 1] = x
  BY AppendProperties
<1>2. DOMAIN t = 1..(Len(s) + 1) /\ DOMAIN s = 1..Len(s) /\ Len(s) \in Nat
  BY <1>1, LenProperties
<1> HIDE DEF t
<1>3. ToSet(t) = ToSet(s) \cup {x}
  BY <1>1, <1>2 DEF ToSet
<1>4. ASSUME IsInjective(s), x \notin ToSet(s)
      PROVE  IsInjective(t)
  <2> SUFFICES ASSUME NEW i \in DOMAIN t, NEW j \in DOMAIN t, t[i] = t[j]
               PROVE  i = j
    BY DEF IsInjective
  <2>1. \A m \in 1..Len(s) : t[m] \in ToSet(s) /\ t[m] # x
    BY <1>1, <1>2, <1>4 DEF ToSet
  <2>2. CASE i \in 1..Len(s) /\ j \in 1..Len(s)
    BY <2>2, <1>1, <1>2, <1>4 DEF IsInjective
  <2>3. CASE ~(i \in 1..Len(s) /\ j \in 1..Len(s))
    BY <2>1, <2>3, <1>1, <1>2
  <2> QED
    BY <2>2, <2>3
<1> QED
  BY <1>3, <1>4 DEF t

\* ... and when its head is taken.
LEMMA TailSet ==
  ASSUME NEW S, NEW s \in Seq(S), s # <<>>, IsInjective(s)
  PROVE  /\ ToSet(Tail(s)) = ToSet(s) \ {Head(s)}
         /\ Head(s) \in ToSet(s)
         /\ IsInjective(Tail(s))
<1> DEFINE t == Tail(s)
<1>1. /\ t \in Seq(S)
      /\ Len(t) = Len(s) - 1
      /\ \A i \in 1..Len(t) : t[i] = s[i + 1]
  BY HeadTailProperties
<1>2. /\ DOMAIN t = 1..(Len(s) - 1)
      /\ DOMAIN s = 1..Len(s)
      /\ Len(s) \in Nat \ {0}
      /\ Head(s) = s[1]
  BY <1>1, LenProperties
<1> HIDE DEF t
<1>3. \A i \in 1..Len(s) : i # 1 => (i - 1) \in DOMAIN t /\ t[i - 1] = s[i]
  BY <1>1, <1>2
<1>4. \A i \in DOMAIN t : i + 1 \in DOMAIN s /\ t[i] = s[i + 1]
  BY <1>1, <1>2
<1>5. 1 \in DOMAIN s
  BY <1>2
<1>6. ToSet(t) \subseteq ToSet(s) \ {Head(s)}
  <2> SUFFICES ASSUME NEW i \in DOMAIN t
               PROVE  t[i] \in ToSet(s) /\ t[i] # s[1]
    BY <1>2 DEF ToSet
  <2>1. i + 1 # 1
    BY <1>2
  <2> QED
    BY <2>1, <1>4, <1>5 DEF ToSet, IsInjective
<1>7. ToSet(s) \ {Head(s)} \subseteq ToSet(t)
  BY <1>2, <1>3 DEF ToSet
<1>8. IsInjective(t)
  <2> SUFFICES ASSUME NEW i \in DOMAIN t, NEW j \in DOMAIN t, t[i] = t[j]
               PROVE  i = j
    BY DEF IsInjective
  <2>1. i + 1 = j + 1
    BY <1>4 DEF IsInjective
  <2> QED
    BY <2>1, <1>2
<1>9. Head(s) \in ToSet(s)
  BY <1>2, <1>5 DEF ToSet
<1> QED
  BY <1>6, <1>7, <1>8, <1>9 DEF t

\* A list without its element at i.
LEMMA RemovedAt ==
  ASSUME NEW S, NEW s \in Seq(S), NEW i \in 1..Len(s)
  PROVE  /\ RemoveAt(s, i) \in Seq(S)
         /\ Len(RemoveAt(s, i)) = Len(s) - 1
         /\ \A j \in 1..(Len(s) - 1) :
              RemoveAt(s, i)[j] = s[IF j < i THEN j ELSE j + 1]
<1> DEFINE front == SubSeq(s, 1, i - 1)
           back == SubSeq(s, i + 1, Len(s))
<1>1. Len(s) \in Nat /\ i \in Int /\ \A j \in 1..Len(s) : s[j] \in S
  BY LenProperties, ElementOfSeq
<1>2. /\ front \in Seq(S)
      /\ Len(front) = i - 1
      /\ \A j \in 1..(i - 1) : front[j] = s[j]
  <2>1. \A j \in 1..(i - 1) : s[j] \in S
    BY <1>1
  <2>2. /\ front \in Seq(S)
        /\ Len(front) = IF 1 <= i - 1 THEN i - 1 - 1 + 1 ELSE 0
        /\ \A j \in 1..(i - 1 - 1 + 1) : front[j] = s[1 + j - 1]
    BY <1>1, <2>1, SubSeqProperties
  <2> QED
    BY <1>1, <2>2
<1>3. /\ back \in Seq(S)
      /\ Len(back) = Len(s) - i
      /\ \A j \in 1..(Len(s) - i) : back[j] = s[i + j]
  <2>1. \A j \in (i + 1)..Len(s) : s[j] \in S
    BY <1>1
  <2>2. /\ back \in Seq(S)
        /\ Len(back) = IF i + 1 <= Len(s) THEN Len(s) - (i + 1) + 1 ELSE 0
        /\ \A j \in 1..(Len(s) - (i + 1) + 1) : back[j] = s[i + 1 + j - 1]
    BY <1>1, <2>1, SubSeqProperties
  <2> QED
    BY <1>1, <2>2
<1> HIDE DEF front, back
<1>4. /\ front \o back \in Seq(S)
      /\ Len(front \o back) = Len(front) + Len(back)
      /\ \A j \in 1..(Len(front) + Len(back)) :
           (front \o back)[j] = IF j <= Len(front) THEN front[j] ELSE back[j - Len(front)]
  BY <1>2, <1>3, ConcatProperties
<1>5. RemoveAt(s, i) = front \o back
  BY DEF RemoveAt, front, back
<1>6. ASSUME NEW j \in 1..(Len(s) - 1)
      PROVE  (front \o back)[j] = s[IF j < i THEN j ELSE j + 1]
  <2>1. CASE j < i
    BY <1>1, <1>2, <1>3, <1>4, <2>1
  <2>2. CASE ~(j < i)
    <3>1. /\ (front \o back)[j] = back[j - (i - 1)]
          /\ j - (i - 1) \in 1..(Len(s) - i)
      BY <1>1, <1>2, <1>3, <1>4, <2>2
    <3>2. back[j - (i - 1)] = s[i + (j - (i - 1))]
      BY <1>3, <3>1
    <3>3. i + (j - (i - 1)) = j + 1
      BY <1>1
    <3> QED
      BY <2>2, <3>1, <3>2, <3>3
  <2> QED
    BY <2>1, <2>2
<1>7. Len(front \o back) = Len(s) - 1
  BY <1>1, <1>2, <1>3, <1>4
<1> QED
  BY <1>4, <1>5, <1>6, <1>7
\* An element is put in front of another, or last.
LEMMA InsertedAt ==
  ASSUME NEW S, NEW s \in Seq(S), NEW i \in 1..(Len(s) + 1), NEW x \in S
  PROVE  /\ InsertAt(s, i, x) \in Seq(S)
         /\ Len(InsertAt(s, i, x)) = Len(s) + 1
         /\ \A j \in 1..(Len(s) + 1) :
              InsertAt(s, i, x)[j] = IF j < i THEN s[j] ELSE IF j = i THEN x ELSE s[j - 1]
<1> DEFINE front == SubSeq(s, 1, i - 1)
           back == SubSeq(s, i, Len(s))
<1>1. Len(s) \in Nat /\ i \in Int /\ \A j \in 1..Len(s) : s[j] \in S
  BY LenProperties, ElementOfSeq
<1>2. /\ front \in Seq(S)
      /\ Len(front) = i - 1
      /\ \A j \in 1..(i - 1) : front[j] = s[j]
  <2>1. \A j \in 1..(i - 1) : s[j] \in S
    BY <1>1
  <2>2. /\ front \in Seq(S)
        /\ Len(front) = IF 1 <= i - 1 THEN i - 1 - 1 + 1 ELSE 0
        /\ \A j \in 1..(i - 1 - 1 + 1) : front[j] = s[1 + j - 1]
    BY <1>1, <2>1, SubSeqProperties
  <2> QED
    BY <1>1, <2>2
<1>3. /\ back \in Seq(S)
      /\ Len(back) = Len(s) + 1 - i
      /\ \A j \in 1..(Len(s) + 1 - i) : back[j] = s[i + j - 1]
  <2>1. \A j \in i..Len(s) : s[j] \in S
    BY <1>1
  <2>2. /\ back \in Seq(S)
        /\ Len(back) = IF i <= Len(s) THEN Len(s) - i + 1 ELSE 0
        /\ \A j \in 1..(Len(s) - i + 1) : back[j] = s[i + j - 1]
    BY <1>1, <2>1, SubSeqProperties
  <2> QED
    BY <1>1, <2>2
<1> DEFINE start == front \o <<x>>
<1>4. /\ start \in Seq(S)
      /\ Len(start) = i
      /\ \A j \in 1..i : start[j] = IF j < i THEN s[j] ELSE x
  <2>1. <<x>> \in Seq(S) /\ Len(<<x>>) = 1 /\ <<x>>[1] = x
    OBVIOUS
  <2>2. /\ start \in Seq(S)
        /\ Len(start) = Len(front) + Len(<<x>>)
        /\ \A j \in 1..(Len(front) + Len(<<x>>)) :
             start[j] = IF j <= Len(front) THEN front[j] ELSE <<x>>[j - Len(front)]
    BY <1>2, <2>1, ConcatProperties
  <2> QED
    BY <1>1, <1>2, <2>1, <2>2
<1> HIDE DEF front, back, start
<1>5. /\ start \o back \in Seq(S)
      /\ Len(start \o back) = Len(start) + Len(back)
      /\ \A j \in 1..(Len(start) + Len(back)) :
           (start \o back)[j] = IF j <= Len(start) THEN start[j] ELSE back[j - Len(start)]
  BY <1>3, <1>4, ConcatProperties
<1>6. InsertAt(s, i, x) = start \o back
  BY DEF InsertAt, start, front, back
<1> QED
  BY <1>1, <1>3, <1>4, <1>5, <1>6

\* A nonempty set of numbers has a smallest one.
LEMMA SmallestOne ==
  ASSUME NEW T \in SUBSET Nat, T # {}
  PROVE  \E i \in T : \A j \in T : i <= j
<1>1. PICK i \in T : \A j \in T : <<j, i>> \notin OpToRel(<, Nat)
  BY WFMin, NatLessThanWellFounded
<1>2. \A j \in T : ~(j < i)
  BY <1>1 DEF OpToRel
<1> QED
  BY <1>2

\* FlattenSeq is defined by a function that appends one sequence after the other.
Flattens(h, B) == h = [i \in 1..Len(B) |-> IF i = 1 THEN B[i] ELSE h[i - 1] \o B[i]]

LEMMA FlattenedBy ==
  ASSUME NEW B, Len(B) \in Nat \ {0}, NEW g, Flattens(g, B)
  PROVE  FlattenSeq(B) = g[Len(B)]
<1>1. PICK n \in Nat \ {0} : n = Len(B)
  OBVIOUS
<1>2. PICK h : h = CHOOSE f : Flattens(f, B)
  OBVIOUS
<1>3. Flattens(h, B)
  BY <1>2, Zenon
<1>4. FlattenSeq(B) = h[n]
  BY <1>1, <1>2 DEF FlattenSeq, Flattens
<1>5. ASSUME NEW f, Flattens(f, B)
      PROVE  f[1] = B[1] /\ \A i \in 1..n : i # 1 => f[i] = f[i - 1] \o B[i]
  <2>1. \A i \in 1..n : f[i] = IF i = 1 THEN B[i] ELSE f[i - 1] \o B[i]
    BY <1>1, <1>5, Zenon DEF Flattens
  <2>2. 1 \in 1..n
    OBVIOUS
  <2> QED
    BY <2>1, <2>2, Zenon
<1>6. PICK T : T = {i \in 1..n : h[i] # g[i]}
  OBVIOUS
<1>7. T \in SUBSET Nat /\ \A i : i \in T <=> i \in 1..n /\ h[i] # g[i]
  <2>1. T \in SUBSET Nat
    BY <1>6
  <2> QED
    BY <1>6, <2>1
<1>8. ASSUME T # {} PROVE FALSE
  <2>1. PICK i \in T : \A j \in T : i <= j
    BY <1>7, <1>8, SmallestOne
  <2>2. i \in 1..n /\ h[i] # g[i]
    BY <1>7
  <2>3. i # 1
    BY <1>3, <1>5, <2>2
  <2>4. i - 1 \in 1..n /\ ~(i <= i - 1)
    BY <2>2, <2>3
  <2>5. h[i - 1] = g[i - 1]
    BY <1>7, <2>1, <2>4
  <2>6. h[i] = h[i - 1] \o B[i] /\ g[i] = g[i - 1] \o B[i]
    BY <1>3, <1>5, <2>2, <2>3, Zenon
  <2> QED
    BY <2>2, <2>5, <2>6
<1> QED
  BY <1>1, <1>4, <1>7, <1>8

\* What holds before the first turn and is kept by every turn holds after all.
LEMMA AllTurns ==
  ASSUME NEW m \in Nat, NEW T, 0 \in T, \A n \in 1..m : n - 1 \in T => n \in T
  PROVE  \A n \in 0..m : n \in T
<1>1. PICK R : R = {n \in 0..m : n \notin T}
  OBVIOUS
<1>2. ASSUME R # {} PROVE FALSE
  <2>1. R \in SUBSET Nat
    BY <1>1
  <2>2. PICK n \in R : \A j \in R : n <= j
    BY <1>2, <2>1, SmallestOne
  <2>3. n \in 0..m /\ n \notin T
    BY <1>1, <2>2
  <2>4. n \in 1..m /\ n - 1 \in 0..m /\ ~(n <= n - 1)
    BY <2>3
  <2>5. n - 1 \in T
    BY <1>1, <2>2, <2>4
  <2> QED
    BY <2>3, <2>4, <2>5
<1> QED
  BY <1>1, <1>2
=============================================================================
