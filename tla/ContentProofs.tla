---------------------------- MODULE ContentProofs ----------------------------
(***************************************************************************)
(* Theorems about what becomes of a content: the cache it is kept in, and  *)
(* the cut of it into chunks.  What is proved of the four lists of the     *)
(* cache goes by the keys they hold and by their lengths in objects; the   *)
(* sizes in bytes are multiples of the size of an object.                  *)
(***************************************************************************)
EXTENDS MCArcCache, Chunking, SequenceFacts


-----------------------------------------------------------------------------
\* One list: its first and its last objects, and two of them put together.
LEMMA ListSplit ==
  ASSUME NEW s \in Seq(Keys), NoRepeat(s), NEW n \in 0..Len(s)
  PROVE  LET t == KeepFirst(s, n)
             u == LeastRecent(s, n) IN
         /\ t \in Seq(Keys) /\ NoRepeat(t) /\ Len(t) = Len(s) - n
         /\ u \in Seq(Keys) /\ NoRepeat(u) /\ Len(u) = n
         /\ Elements(t) \cup Elements(u) = Elements(s)
         /\ Elements(t) \cap Elements(u) = {}
         /\ \A idx, j \in DOMAIN s : idx < j /\ s[j] \in Elements(t) => s[idx] \in Elements(t)
<1> DEFINE m == Len(s) - n
           t == KeepFirst(s, n)
           u == LeastRecent(s, n)
<1>1. /\ Len(s) \in Nat /\ DOMAIN s = 1..Len(s) /\ m \in 0..Len(s)
      /\ \A idx \in 1..Len(s) : s[idx] \in Keys
  BY LenProperties, ElementOfSeq
<1>2. /\ t \in Seq(Keys) /\ Len(t) = m /\ \A idx \in 1..m : t[idx] = s[idx]
  <2>1. t = SubSeq(s, 1, m)
    BY DEF KeepFirst
  <2> HIDE DEF t, m
  <2>2. \A idx \in 1..m : s[idx] \in Keys
    BY <1>1
  <2> QED
    BY <1>1, <2>1, <2>2, SubSeqProperties
<1>3. /\ u \in Seq(Keys) /\ Len(u) = n /\ \A idx \in 1..n : u[idx] = s[m + idx]
  <2>1. u = SubSeq(s, m + 1, Len(s))
    BY DEF LeastRecent
  <2>2. \A idx \in (m + 1)..Len(s) : s[idx] \in Keys
    BY <1>1
  <2>3. /\ u \in Seq(Keys) /\ Len(u) = IF m + 1 <= Len(s) THEN Len(s) - (m + 1) + 1 ELSE 0
        /\ \A idx \in 1..(Len(s) - (m + 1) + 1) : u[idx] = s[m + 1 + idx - 1]
    <3> HIDE DEF u, m
    <3> QED
      BY <1>1, <2>1, <2>2, SubSeqProperties
  <2> QED
    BY <1>1, <2>3
<1> HIDE DEF t, u
<1>4. DOMAIN t = 1..m /\ DOMAIN u = 1..n
  <2> HIDE DEF m
  <2>1. DOMAIN t = 1..m
    BY <1>2, LenProperties
  <2>2. DOMAIN u = 1..n
    BY <1>3, LenProperties
  <2> QED
    BY <2>1, <2>2
<1>5. NoRepeat(t) /\ NoRepeat(u)
  <2>1. ASSUME NEW idx \in 1..m, NEW j \in 1..m, t[idx] = t[j] PROVE idx = j
    <3> HIDE DEF m
    <3>1. idx \in DOMAIN s /\ j \in DOMAIN s
      BY <1>1
    <3>2. s[idx] = s[j]
      BY <1>2, <2>1
    <3> QED
      BY <3>1, <3>2 DEF NoRepeat
  <2>2. ASSUME NEW idx \in 1..n, NEW j \in 1..n, u[idx] = u[j] PROVE idx = j
    <3>1. m + idx \in DOMAIN s /\ m + j \in DOMAIN s /\ s[m + idx] = s[m + j]
      BY <1>1, <1>3, <2>2
    <3>2. m + idx = m + j
      BY <3>1 DEF NoRepeat
    <3> QED
      BY <1>1, <3>2
  <2> QED
    BY <1>4, <2>1, <2>2 DEF NoRepeat
<1>6. \A x : x \in Elements(t) <=> \E idx \in 1..m : x = s[idx]
  BY <1>2, <1>4 DEF Elements
<1>7. \A x : x \in Elements(u) <=> \E idx \in (m + 1)..Len(s) : x = s[idx]
  <2>1. \A idx \in 1..n : m + idx \in (m + 1)..Len(s)
    BY <1>1
  <2>2. \A idx \in (m + 1)..Len(s) : idx - m \in 1..n /\ m + (idx - m) = idx
    BY <1>1
  <2> HIDE DEF m
  <2>3. ASSUME NEW idx \in (m + 1)..Len(s) PROVE s[idx] \in Elements(u)
    <3>1. u[idx - m] = s[idx] /\ idx - m \in DOMAIN u
      BY <1>3, <1>4, <2>2
    <3> QED
      BY <3>1 DEF Elements
  <2> QED
    BY <1>3, <1>4, <2>1, <2>3 DEF Elements
<1>8. \A x : x \in Elements(s) <=> \E idx \in 1..Len(s) : x = s[idx]
  BY <1>1 DEF Elements
<1>9. Elements(t) \cup Elements(u) = Elements(s)
  <2>1. \A idx \in 1..Len(s) : idx \in 1..m \/ idx \in (m + 1)..Len(s)
    BY <1>1
  <2>2. (\A idx \in 1..m : idx \in 1..Len(s)) /\ \A idx \in (m + 1)..Len(s) : idx \in 1..Len(s)
    BY <1>1
  <2> HIDE DEF m
  <2> QED
    BY <1>6, <1>7, <1>8, <2>1, <2>2
<1>10. Elements(t) \cap Elements(u) = {}
  <2> SUFFICES ASSUME NEW x \in Elements(t), x \in Elements(u) PROVE FALSE
    OBVIOUS
  <2>1. PICK idx \in 1..m : x = s[idx]
    BY <1>6
  <2>2. PICK j \in (m + 1)..Len(s) : x = s[j]
    BY <1>7
  <2>3. idx \in DOMAIN s /\ j \in DOMAIN s /\ idx # j
    BY <1>1
  <2> QED
    BY <2>1, <2>2, <2>3 DEF NoRepeat
<1>11. ASSUME NEW idx \in DOMAIN s, NEW j \in DOMAIN s, idx < j, s[j] \in Elements(t)
       PROVE  s[idx] \in Elements(t)
  <2>1. PICK l \in 1..m : s[j] = s[l]
    BY <1>6, <1>11
  <2>2. l \in DOMAIN s
    BY <1>1
  <2>3. j = l
    BY <1>11, <2>1, <2>2 DEF NoRepeat
  <2>4. idx \in 1..m
    BY <1>1, <1>11, <2>3
  <2> QED
    BY <1>6, <2>4
<1> QED
  BY <1>2, <1>3, <1>5, <1>9, <1>10, <1>11 DEF t, u

LEMMA ListsJoined ==
  ASSUME NEW s \in Seq(Keys), NoRepeat(s), NEW t \in Seq(Keys), NoRepeat(t),
         Elements(s) \cap Elements(t) = {}
  PROVE  /\ s \o t \in Seq(Keys) /\ NoRepeat(s \o t)
         /\ Elements(s \o t) = Elements(s) \cup Elements(t)
         /\ Len(s \o t) = Len(s) + Len(t)
<1> DEFINE u == s \o t
<1>1. /\ u \in Seq(Keys) /\ Len(u) = Len(s) + Len(t)
      /\ \A idx \in 1..Len(s) : u[idx] = s[idx]
      /\ \A idx \in 1..Len(t) : u[Len(s) + idx] = t[idx]
      /\ Len(s) \in Nat /\ Len(t) \in Nat
      /\ DOMAIN s = 1..Len(s) /\ DOMAIN t = 1..Len(t) /\ DOMAIN u = 1..Len(u)
  <2>1. u \in Seq(Keys) /\ Len(u) = Len(s) + Len(t)
    BY ConcatProperties
  <2>2. \A idx \in 1..(Len(s) + Len(t)) : u[idx] = IF idx <= Len(s) THEN s[idx] ELSE t[idx - Len(s)]
    BY ConcatProperties
  <2>3. Len(s) \in Nat /\ Len(t) \in Nat
    BY LenProperties
  <2>4. DOMAIN s = 1..Len(s) /\ DOMAIN t = 1..Len(t) /\ DOMAIN u = 1..Len(u)
    BY <2>1, LenProperties
  <2> HIDE DEF u
  <2>5. \A idx \in 1..Len(t) : u[Len(s) + idx] = t[idx]
    <3> SUFFICES ASSUME NEW idx \in 1..Len(t) PROVE u[Len(s) + idx] = t[idx]
      OBVIOUS
    <3>1. Len(s) + idx \in 1..(Len(s) + Len(t)) /\ ~(Len(s) + idx <= Len(s)) /\ Len(s) + idx - Len(s) = idx
      BY <2>3
    <3> QED
      BY <2>2, <3>1
  <2> QED
    BY <2>1, <2>2, <2>3, <2>4, <2>5
<1> HIDE DEF u
<1>2. ASSUME NEW idx \in DOMAIN u
      PROVE  \/ idx \in 1..Len(s) /\ u[idx] = s[idx] /\ u[idx] \in Elements(s)
             \/ /\ idx - Len(s) \in 1..Len(t) /\ u[idx] = t[idx - Len(s)] /\ u[idx] \in Elements(t)
                /\ idx \notin 1..Len(s)
  <2>1. CASE idx <= Len(s)
    BY <1>1, <2>1 DEF Elements
  <2>2. CASE ~(idx <= Len(s))
    <3> DEFINE j == idx - Len(s)
    <3>1. j \in 1..Len(t) /\ idx = Len(s) + j /\ idx \notin 1..Len(s)
      BY <1>1, <2>2
    <3> HIDE DEF j
    <3>2. u[idx] = t[j]
      BY <1>1, <3>1
    <3> QED
      BY <1>1, <3>1, <3>2 DEF Elements, j
  <2> QED
    BY <2>1, <2>2
<1>3. NoRepeat(u)
  <2> SUFFICES ASSUME NEW idx \in DOMAIN u, NEW j \in DOMAIN u, u[idx] = u[j] PROVE idx = j
    BY DEF NoRepeat
  <2>1. CASE u[idx] \in Elements(s)
    <3>1. idx \in 1..Len(s) /\ j \in 1..Len(s) /\ s[idx] = s[j]
      BY <1>2, <2>1
    <3> QED
      BY <1>1, <3>1 DEF NoRepeat
  <2>2. CASE u[idx] \in Elements(t)
    <3>1. /\ idx - Len(s) \in 1..Len(t) /\ j - Len(s) \in 1..Len(t)
          /\ t[idx - Len(s)] = t[j - Len(s)]
      BY <1>2, <2>2
    <3>2. idx - Len(s) = j - Len(s)
      BY <1>1, <3>1 DEF NoRepeat
    <3> QED
      BY <1>1, <3>2
  <2> QED
    BY <1>2, <2>1, <2>2
<1>4. Elements(u) = Elements(s) \cup Elements(t)
  <2>1. ASSUME NEW x \in Elements(s) PROVE x \in Elements(u)
    <3>1. PICK idx \in 1..Len(s) : x = s[idx]
      BY <1>1 DEF Elements
    <3>2. idx \in DOMAIN u /\ x = u[idx]
      BY <1>1, <3>1
    <3> QED
      BY <3>2 DEF Elements
  <2>2. ASSUME NEW x \in Elements(t) PROVE x \in Elements(u)
    <3>1. PICK idx \in 1..Len(t) : x = t[idx]
      BY <1>1 DEF Elements
    <3>2. Len(s) + idx \in DOMAIN u /\ x = u[Len(s) + idx]
      BY <1>1, <3>1
    <3> QED
      BY <3>2 DEF Elements
  <2>3. ASSUME NEW x \in Elements(u) PROVE x \in Elements(s) \cup Elements(t)
    BY <1>2, <2>3 DEF Elements
  <2> QED
    BY <2>1, <2>2, <2>3
<1> QED
  BY <1>1, <1>3, <1>4 DEF u

\* A list without one of its keys.
LEMMA Unlinked ==
  ASSUME NEW s \in Seq(Keys), NoRepeat(s), NEW k \in Elements(s)
  PROVE  /\ Unlink(s, k) \in Seq(Keys) /\ NoRepeat(Unlink(s, k))
         /\ Elements(Unlink(s, k)) = Elements(s) \ {k}
         /\ Len(Unlink(s, k)) = Len(s) - 1 /\ Len(s) \in Nat \ {0}
<1> DEFINE l == CHOOSE idx \in DOMAIN s : s[idx] = k
           t == RemoveAt(s, l)
<1>1. Len(s) \in Nat /\ DOMAIN s = 1..Len(s)
  BY LenProperties
<1>2. l \in 1..Len(s) /\ s[l] = k
  BY <1>1 DEF Elements
<1> HIDE DEF l
<1>3. /\ t \in Seq(Keys) /\ Len(t) = Len(s) - 1
      /\ \A j \in 1..(Len(s) - 1) : t[j] = s[IF j < l THEN j ELSE j + 1]
  BY <1>2, RemovedAt
<1>4. DOMAIN t = 1..(Len(s) - 1)
  BY <1>3, LenProperties
<1> HIDE DEF t
<1> DEFINE f(j) == IF j < l THEN j ELSE j + 1
<1>5. \A j \in 1..(Len(s) - 1) : f(j) \in DOMAIN s /\ f(j) # l /\ t[j] = s[f(j)]
  BY <1>1, <1>2, <1>3
<1>6. NoRepeat(t)
  <2> SUFFICES ASSUME NEW idx \in 1..(Len(s) - 1), NEW j \in 1..(Len(s) - 1), t[idx] = t[j]
               PROVE  idx = j
    BY <1>4 DEF NoRepeat
  <2>1. f(idx) = f(j)
    BY <1>5 DEF NoRepeat
  <2> QED
    BY <1>1, <1>2, <2>1
<1>7. ASSUME NEW x \in Elements(t) PROVE x \in Elements(s) /\ x # k
  <2>1. PICK j \in 1..(Len(s) - 1) : x = t[j]
    BY <1>4 DEF Elements
  <2>2. f(j) \in DOMAIN s /\ f(j) # l /\ x = s[f(j)]
    BY <1>5, <2>1
  <2> HIDE DEF f
  <2> QED
    BY <1>1, <1>2, <2>2 DEF Elements, NoRepeat
<1>8. ASSUME NEW x \in Elements(s), x # k PROVE x \in Elements(t)
  <2>1. PICK idx \in 1..Len(s) : x = s[idx]
    BY <1>1 DEF Elements
  <2>2. idx # l
    BY <1>2, <1>8, <2>1
  <2> DEFINE j == IF idx < l THEN idx ELSE idx - 1
  <2>3. j \in 1..(Len(s) - 1) /\ t[j] = x
    BY <1>1, <1>2, <1>3, <2>1, <2>2
  <2> QED
    BY <1>4, <2>3 DEF Elements
<1>9. Unlink(s, k) = t
  BY DEF Unlink, t, l
<1>10. Len(s) \in Nat \ {0}
  BY <1>1, <1>2
<1> QED
  BY <1>3, <1>6, <1>7, <1>8, <1>9, <1>10

-----------------------------------------------------------------------------
\* The four lists.
Fine(L) ==
  /\ L \in [ListNames -> Seq(Keys)]
  /\ \A n \in ListNames : NoRepeat(L[n])
  /\ \A m, n \in ListNames : m # n => Elements(L[m]) \cap Elements(L[n]) = {}

LEMMA FourLists ==
  ASSUME NEW L, Fine(L)
  PROVE  /\ L.mru \in Seq(Keys) /\ NoRepeat(L.mru) /\ Len(L.mru) \in Nat
         /\ L.mfu \in Seq(Keys) /\ NoRepeat(L.mfu) /\ Len(L.mfu) \in Nat
         /\ L.mrug \in Seq(Keys) /\ NoRepeat(L.mrug) /\ Len(L.mrug) \in Nat
         /\ L.mfug \in Seq(Keys) /\ NoRepeat(L.mfug) /\ Len(L.mfug) \in Nat
         /\ Elements(L.mru) \cap Elements(L.mfu) = {}
         /\ Elements(L.mru) \cap Elements(L.mrug) = {}
         /\ Elements(L.mru) \cap Elements(L.mfug) = {}
         /\ Elements(L.mfu) \cap Elements(L.mrug) = {}
         /\ Elements(L.mfu) \cap Elements(L.mfug) = {}
         /\ Elements(L.mrug) \cap Elements(L.mfug) = {}
<1>1. \A n \in ListNames : L[n] \in Seq(Keys) /\ NoRepeat(L[n]) /\ Len(L[n]) \in Nat
  BY LenProperties DEF Fine
<1>2. /\ "mru" \in ListNames /\ "mfu" \in ListNames
      /\ "mrug" \in ListNames /\ "mfug" \in ListNames
      /\ "mru" # "mfu" /\ "mru" # "mrug" /\ "mru" # "mfug"
      /\ "mfu" # "mrug" /\ "mfu" # "mfug" /\ "mrug" # "mfug"
  BY DEF ListNames
<1> QED
  BY <1>1, <1>2 DEF Fine

LEMMA FineLists ==
  ASSUME NEW a \in Seq(Keys), NEW b \in Seq(Keys), NEW c \in Seq(Keys), NEW d \in Seq(Keys),
         NoRepeat(a), NoRepeat(b), NoRepeat(c), NoRepeat(d),
         Elements(a) \cap Elements(b) = {}, Elements(a) \cap Elements(c) = {},
         Elements(a) \cap Elements(d) = {}, Elements(b) \cap Elements(c) = {},
         Elements(b) \cap Elements(d) = {}, Elements(c) \cap Elements(d) = {}
  PROVE  Fine([mru |-> a, mfu |-> b, mrug |-> c, mfug |-> d])
<1> DEFINE L == [mru |-> a, mfu |-> b, mrug |-> c, mfug |-> d]
<1>1. /\ DOMAIN L = ListNames
      /\ L["mru"] = a /\ L["mfu"] = b /\ L["mrug"] = c /\ L["mfug"] = d
      /\ L = [n \in DOMAIN L |-> L[n]]
  BY DEF ListNames
<1> HIDE DEF L
<1>2. \A n \in ListNames : n \in {"mru", "mfu", "mrug", "mfug"}
  BY DEF ListNames
<1>3. L \in [ListNames -> Seq(Keys)] /\ \A n \in ListNames : NoRepeat(L[n])
  BY <1>1, <1>2
<1>4. \A m, n \in ListNames : m # n => Elements(L[m]) \cap Elements(L[n]) = {}
  BY <1>1, <1>2
<1>5. Fine(L)
  BY <1>3, <1>4 DEF Fine
<1> QED
  BY <1>5 DEF L

LEMMA Detached ==
  ASSUME NEW L, Fine(L), NEW k
  PROVE  /\ Fine(Detach(L, k))
         /\ \A n \in ListNames :
              /\ Elements(Detach(L, k)[n]) = Elements(L[n]) \ {k}
              /\ Len(Detach(L, k)[n]) = IF k \in Elements(L[n]) THEN Len(L[n]) - 1 ELSE Len(L[n])
              /\ k \notin Elements(L[n]) => Detach(L, k)[n] = L[n]
              /\ Len(L[n]) \in Nat /\ (k \in Elements(L[n]) => Len(L[n]) > 0)
<1> DEFINE M == Detach(L, k)
<1>1. ASSUME NEW n \in ListNames
      PROVE  /\ M[n] \in Seq(Keys) /\ NoRepeat(M[n])
             /\ Elements(M[n]) = Elements(L[n]) \ {k}
             /\ Len(M[n]) = IF k \in Elements(L[n]) THEN Len(L[n]) - 1 ELSE Len(L[n])
             /\ k \notin Elements(L[n]) => M[n] = L[n]
             /\ Len(L[n]) \in Nat /\ (k \in Elements(L[n]) => Len(L[n]) > 0)
  <2>1. L[n] \in Seq(Keys) /\ NoRepeat(L[n]) /\ Len(L[n]) \in Nat
    BY LenProperties DEF Fine
  <2>2. CASE k \in Elements(L[n])
    <3>1. M[n] = Unlink(L[n], k)
      BY <2>2 DEF Detach
    <3> QED
      BY <2>1, <2>2, <3>1, Unlinked
  <2>3. CASE k \notin Elements(L[n])
    <3>1. M[n] = L[n]
      BY <2>3 DEF Detach
    <3> QED
      BY <2>1, <2>3, <3>1
  <2> QED
    BY <2>2, <2>3
<1>2. M \in [ListNames -> Seq(Keys)]
  <2>1. M = [n \in ListNames |-> M[n]]
    BY DEF Detach
  <2> HIDE DEF M
  <2> QED
    BY <1>1, <2>1
<1> HIDE DEF M
<1>3. \A m, n \in ListNames : m # n => Elements(M[m]) \cap Elements(M[n]) = {}
  BY <1>1 DEF Fine
<1>4. Fine(M)
  BY <1>1, <1>2, <1>3 DEF Fine
<1> QED
  BY <1>1, <1>4 DEF M

LEMMA Prepended ==
  ASSUME NEW L, Fine(L), NEW n \in ListNames, NEW k \in Keys, k \notin DirectoryOf(L)
  PROVE  /\ Fine(Prepend(L, n, k))
         /\ Elements(Prepend(L, n, k)[n]) = Elements(L[n]) \cup {k}
         /\ Len(Prepend(L, n, k)[n]) = Len(L[n]) + 1
         /\ \A m \in ListNames : m # n => Prepend(L, n, k)[m] = L[m]
<1> DEFINE M == Prepend(L, n, k)
           s == <<k>>
<1>1. L[n] \in Seq(Keys) /\ NoRepeat(L[n]) /\ Len(L[n]) \in Nat
  BY LenProperties DEF Fine
<1>2. \A m \in ListNames : k \notin Elements(L[m])
  BY DEF DirectoryOf, ResidentIn, GhostsIn, ListNames
<1>3. s \in Seq(Keys) /\ NoRepeat(s) /\ Elements(s) = {k} /\ Len(s) = 1
  BY DEF NoRepeat, Elements
<1> HIDE DEF s
<1>4. /\ s \o L[n] \in Seq(Keys) /\ NoRepeat(s \o L[n])
      /\ Elements(s \o L[n]) = Elements(L[n]) \cup {k}
      /\ Len(s \o L[n]) = Len(L[n]) + 1
  <2>1. Elements(s) \cap Elements(L[n]) = {}
    BY <1>2, <1>3
  <2>2. Elements(s) \cup Elements(L[n]) = Elements(L[n]) \cup {k}
    BY <1>3
  <2>3. /\ s \o L[n] \in Seq(Keys) /\ NoRepeat(s \o L[n])
        /\ Elements(s \o L[n]) = Elements(s) \cup Elements(L[n])
        /\ Len(s \o L[n]) = Len(s) + Len(L[n])
    BY <1>1, <1>3, <2>1, ListsJoined
  <2> QED
    BY <1>1, <1>3, <2>2, <2>3
<1>5. /\ M \in [ListNames -> Seq(Keys)] /\ M[n] = s \o L[n]
      /\ \A m \in ListNames : m # n => M[m] = L[m]
  BY <1>4 DEF Fine, Prepend, s
<1> HIDE DEF M
<1>6. \A m \in ListNames : NoRepeat(M[m])
  BY <1>4, <1>5 DEF Fine
<1>7. ASSUME NEW l \in ListNames, NEW m \in ListNames, l # m
      PROVE  Elements(M[l]) \cap Elements(M[m]) = {}
  <2>1. \A idx \in ListNames : Elements(M[idx]) = IF idx = n THEN Elements(L[n]) \cup {k} ELSE Elements(L[idx])
    BY <1>4, <1>5
  <2>2. Elements(L[l]) \cap Elements(L[m]) = {}
    BY <1>7 DEF Fine
  <2> QED
    BY <1>2, <1>7, <2>1, <2>2
<1>8. Fine(M)
  BY <1>5, <1>6, <1>7 DEF Fine
<1> QED
  BY <1>4, <1>5, <1>8 DEF M

-----------------------------------------------------------------------------
\* Sizes in bytes and in objects.
LEMMA Products ==
  ASSUME NEW o \in Nat, NEW x \in Nat, NEW y \in Nat, x <= y
  PROVE  o * x <= o * y
<1>1. o * y = o * x + o * (y - x)
  OBVIOUS
<1>2. y - x \in Nat
  OBVIOUS
<1>3. o * (y - x) \in Nat /\ o * x \in Nat
  BY <1>2
<1> QED
  BY <1>1, <1>3

LEMMA TargetInSlots ==
  ASSUME NEW q \in 0..Capacity
  PROVE  /\ Slots \in Nat /\ Target(q) \in 0..Slots
         /\ ObjectSize * Slots <= Capacity
<1> DEFINE o == ObjectSize
<1>1. o \in Nat \ {0} /\ Capacity \in Nat /\ q \in Nat /\ q <= Capacity
  BY ArcAssumption
<1>2. /\ Slots \in Nat /\ Target(q) \in Nat
      /\ o * Slots <= Capacity /\ Capacity < o * Slots + o
      /\ o * Target(q) <= q
  BY <1>1 DEF Slots, Target
<1>3. Target(q) <= Slots
  <2> SUFFICES ASSUME Slots + 1 <= Target(q) PROVE FALSE
    BY <1>2
  <2>1. o * (Slots + 1) <= o * Target(q)
    BY <1>1, <1>2, Products
  <2>2. o * (Slots + 1) = o * Slots + o
    BY <1>1, <1>2
  <2>3. o * Slots \in Nat /\ o * Target(q) \in Nat
    BY <1>1, <1>2
  <2> QED
    BY <1>1, <1>2, <2>1, <2>2, <2>3
<1> QED
  BY <1>2, <1>3

-----------------------------------------------------------------------------
\* Making room: the objects evicted are the last ones of their lists, and
\* become ghosts.
LEMMA Evicted ==
  ASSUME NEW L, Fine(L), NEW q \in 0..Capacity
  PROVE  LET E == Evict(L, q) IN
         /\ Fine(E)
         /\ Elements(E.mru) \subseteq Elements(L.mru)
         /\ Elements(E.mfu) \subseteq Elements(L.mfu)
         /\ DirectoryOf(E) = DirectoryOf(L)
         /\ Len(E.mru) + Len(E.mfu) <= Slots
         /\ \A idx, j \in DOMAIN L.mru :
              idx < j /\ L.mru[j] \in Elements(E.mru) => L.mru[idx] \in Elements(E.mru)
         /\ \A idx, j \in DOMAIN L.mfu :
              idx < j /\ L.mfu[j] \in Elements(E.mfu) => L.mfu[idx] \in Elements(E.mfu)
<1> DEFINE x == Len(L.mru)
           y == Len(L.mfu)
           excess == NonNeg(x + y + 1 - Slots)
           r == AtMost(excess, NonNeg(x - Target(q)))
           f == AtMost(excess - r, y)
           a == KeepFirst(L.mru, r)
           b == KeepFirst(L.mfu, f)
           c == LeastRecent(L.mru, r)
           d == LeastRecent(L.mfu, f)
           E == [mru |-> a, mfu |-> b, mrug |-> c \o L.mrug, mfug |-> d \o L.mfug]
<1>1. E = Evict(L, q)
  BY DEF Evict
<1>2. /\ L.mru \in Seq(Keys) /\ NoRepeat(L.mru) /\ x \in Nat
      /\ L.mfu \in Seq(Keys) /\ NoRepeat(L.mfu) /\ y \in Nat
      /\ L.mrug \in Seq(Keys) /\ NoRepeat(L.mrug)
      /\ L.mfug \in Seq(Keys) /\ NoRepeat(L.mfug)
  BY FourLists
<1>3. Slots \in Nat /\ Target(q) \in 0..Slots
  BY TargetInSlots
<1>4. r \in 0..x /\ f \in 0..y /\ x - r + (y - f) <= Slots
  <2> HIDE DEF x, y
  <2> DEFINE t == Target(q)
  <2>1. t \in Nat /\ t <= Slots
    BY <1>3
  <2> HIDE DEF t
  <2>2. /\ excess \in Nat /\ x + y + 1 - Slots <= excess
        /\ excess = 0 \/ excess = x + y + 1 - Slots
    BY <1>2, <1>3 DEF NonNeg
  <2> HIDE DEF excess
  <2>3. r = IF excess <= (IF x - t >= 0 THEN x - t ELSE 0) THEN excess
            ELSE IF x - t >= 0 THEN x - t ELSE 0
    BY DEF AtMost, NonNeg, t
  <2>4. r \in 0..x /\ (r = excess \/ x - r <= t) /\ r <= excess
    <3> HIDE DEF r
    <3> QED
      BY <1>2, <2>1, <2>2, <2>3
  <2> HIDE DEF r
  <2>5. f = IF excess - r <= y THEN excess - r ELSE y
    BY DEF AtMost
  <2> HIDE DEF f
  <2> QED
    BY <1>2, <1>3, <2>1, <2>2, <2>4, <2>5
<1> HIDE DEF r, f
<1>5. /\ a \in Seq(Keys) /\ NoRepeat(a) /\ Len(a) = x - r
      /\ c \in Seq(Keys) /\ NoRepeat(c)
      /\ Elements(a) \cup Elements(c) = Elements(L.mru)
      /\ Elements(a) \cap Elements(c) = {}
      /\ \A idx, j \in DOMAIN L.mru :
           idx < j /\ L.mru[j] \in Elements(a) => L.mru[idx] \in Elements(a)
  BY <1>2, <1>4, ListSplit
<1>6. /\ b \in Seq(Keys) /\ NoRepeat(b) /\ Len(b) = y - f
      /\ d \in Seq(Keys) /\ NoRepeat(d)
      /\ Elements(b) \cup Elements(d) = Elements(L.mfu)
      /\ Elements(b) \cap Elements(d) = {}
      /\ \A idx, j \in DOMAIN L.mfu :
           idx < j /\ L.mfu[j] \in Elements(b) => L.mfu[idx] \in Elements(b)
  BY <1>2, <1>4, ListSplit
<1> HIDE DEF x, y, a, b, c, d
<1>7. /\ Elements(L.mru) \cap Elements(L.mfu) = {}
      /\ Elements(L.mru) \cap Elements(L.mrug) = {}
      /\ Elements(L.mru) \cap Elements(L.mfug) = {}
      /\ Elements(L.mfu) \cap Elements(L.mrug) = {}
      /\ Elements(L.mfu) \cap Elements(L.mfug) = {}
      /\ Elements(L.mrug) \cap Elements(L.mfug) = {}
  BY FourLists
<1>8. /\ c \o L.mrug \in Seq(Keys) /\ NoRepeat(c \o L.mrug)
      /\ Elements(c \o L.mrug) = Elements(c) \cup Elements(L.mrug)
  <2>1. Elements(c) \cap Elements(L.mrug) = {}
    BY <1>5, <1>7
  <2> QED
    BY <1>2, <1>5, <2>1, ListsJoined
<1>9. /\ d \o L.mfug \in Seq(Keys) /\ NoRepeat(d \o L.mfug)
      /\ Elements(d \o L.mfug) = Elements(d) \cup Elements(L.mfug)
  <2>1. Elements(d) \cap Elements(L.mfug) = {}
    BY <1>6, <1>7
  <2> QED
    BY <1>2, <1>6, <2>1, ListsJoined
<1> DEFINE g == c \o L.mrug
           fn == d \o L.mfug
<1>10. /\ g \in Seq(Keys) /\ NoRepeat(g) /\ Elements(g) = Elements(c) \cup Elements(L.mrug)
       /\ fn \in Seq(Keys) /\ NoRepeat(fn) /\ Elements(fn) = Elements(d) \cup Elements(L.mfug)
       /\ E = [mru |-> a, mfu |-> b, mrug |-> g, mfug |-> fn]
  BY <1>8, <1>9
<1> HIDE DEF g, fn, E
<1>11. /\ Elements(a) \cap Elements(b) = {} /\ Elements(a) \cap Elements(g) = {}
       /\ Elements(a) \cap Elements(fn) = {} /\ Elements(b) \cap Elements(g) = {}
       /\ Elements(b) \cap Elements(fn) = {} /\ Elements(g) \cap Elements(fn) = {}
  BY <1>5, <1>6, <1>7, <1>10
<1>12. Fine(E)
  BY <1>5, <1>6, <1>10, <1>11, FineLists
<1>13. E.mru = a /\ E.mfu = b /\ E.mrug = g /\ E.mfug = fn
  BY <1>10
<1>14. DirectoryOf(E) = DirectoryOf(L)
  BY <1>5, <1>6, <1>10, <1>13 DEF DirectoryOf, ResidentIn, GhostsIn
<1>15. Len(E.mru) + Len(E.mfu) <= Slots
  BY <1>4, <1>5, <1>6, <1>13
<1> QED
  BY <1>1, <1>5, <1>6, <1>12, <1>13, <1>14, <1>15

LEMMA Forgotten ==
  ASSUME NEW L, Fine(L), NEW q \in 0..Capacity
  PROVE  LET F == Forget(L, q) IN
         /\ Fine(F)
         /\ F.mru = L.mru /\ F.mfu = L.mfu
         /\ Elements(F.mrug) \subseteq Elements(L.mrug)
         /\ Elements(F.mfug) \subseteq Elements(L.mfug)
         /\ Len(F.mrug) + Len(F.mfug) <= Slots
<1> DEFINE x == Len(L.mrug)
           y == Len(L.mfug)
           excess == NonNeg(x + y - Slots)
           f == AtMost(excess, NonNeg(y - Target(q)))
           r == AtMost(excess - f, x)
           a == KeepFirst(L.mrug, r)
           b == KeepFirst(L.mfug, f)
           F == Forget(L, q)
<1>1. /\ L.mru \in Seq(Keys) /\ NoRepeat(L.mru)
      /\ L.mfu \in Seq(Keys) /\ NoRepeat(L.mfu)
      /\ L.mrug \in Seq(Keys) /\ NoRepeat(L.mrug) /\ x \in Nat
      /\ L.mfug \in Seq(Keys) /\ NoRepeat(L.mfug) /\ y \in Nat
  BY FourLists
<1>2. F = [mru |-> L.mru, mfu |-> L.mfu, mrug |-> a, mfug |-> b]
  <2>1. L = [mru |-> L.mru, mfu |-> L.mfu, mrug |-> L.mrug, mfug |-> L.mfug]
    BY DEF Fine, ListNames
  <2>2. F = [L EXCEPT !.mrug = a, !.mfug = b]
    BY DEF Forget
  <2> HIDE DEF F, a, b
  <2> QED
    BY <2>1, <2>2
<1>3. Slots \in Nat /\ Target(q) \in 0..Slots
  BY TargetInSlots
<1>4. r \in 0..x /\ f \in 0..y /\ x - r + (y - f) <= Slots
  <2> HIDE DEF x, y
  <2> DEFINE t == Target(q)
  <2>1. t \in Nat /\ t <= Slots
    BY <1>3
  <2> HIDE DEF t
  <2>2. /\ excess \in Nat /\ x + y - Slots <= excess
        /\ excess = 0 \/ excess = x + y - Slots
    BY <1>1, <1>3 DEF NonNeg
  <2> HIDE DEF excess
  <2>3. f = IF excess <= (IF y - t >= 0 THEN y - t ELSE 0) THEN excess
            ELSE IF y - t >= 0 THEN y - t ELSE 0
    BY DEF AtMost, NonNeg, t
  <2>4. f \in 0..y /\ (f = excess \/ y - f <= t) /\ f <= excess
    <3> HIDE DEF f
    <3> QED
      BY <1>1, <2>1, <2>2, <2>3
  <2> HIDE DEF f
  <2>5. r = IF excess - f <= x THEN excess - f ELSE x
    BY DEF AtMost
  <2> HIDE DEF r
  <2> QED
    BY <1>1, <1>3, <2>1, <2>2, <2>4, <2>5
<1> HIDE DEF r, f, F
<1>5. /\ a \in Seq(Keys) /\ NoRepeat(a) /\ Len(a) = x - r
      /\ Elements(a) \subseteq Elements(L.mrug)
  <2>1. /\ a \in Seq(Keys) /\ NoRepeat(a) /\ Len(a) = x - r
        /\ Elements(a) \cup Elements(LeastRecent(L.mrug, r)) = Elements(L.mrug)
    BY <1>1, <1>4, ListSplit
  <2> QED
    BY <2>1
<1>6. /\ b \in Seq(Keys) /\ NoRepeat(b) /\ Len(b) = y - f
      /\ Elements(b) \subseteq Elements(L.mfug)
  <2>1. /\ b \in Seq(Keys) /\ NoRepeat(b) /\ Len(b) = y - f
        /\ Elements(b) \cup Elements(LeastRecent(L.mfug, f)) = Elements(L.mfug)
    BY <1>1, <1>4, ListSplit
  <2> QED
    BY <2>1
<1> HIDE DEF x, y, a, b
<1>7. /\ Elements(L.mru) \cap Elements(L.mfu) = {}
      /\ Elements(L.mru) \cap Elements(a) = {}
      /\ Elements(L.mru) \cap Elements(b) = {}
      /\ Elements(L.mfu) \cap Elements(a) = {}
      /\ Elements(L.mfu) \cap Elements(b) = {}
      /\ Elements(a) \cap Elements(b) = {}
  BY <1>5, <1>6, FourLists
<1>8. Fine(F)
  BY <1>1, <1>2, <1>5, <1>6, <1>7, FineLists
<1>9. F.mru = L.mru /\ F.mfu = L.mfu /\ F.mrug = a /\ F.mfug = b
  BY <1>2
<1>10. Len(F.mrug) + Len(F.mfug) <= Slots
  BY <1>4, <1>5, <1>6, <1>9
<1> QED
  BY <1>5, <1>6, <1>8, <1>9, <1>10 DEF F

-----------------------------------------------------------------------------
\* The cache.  The bounds are those of ListsBounded in objects.
ArcInv ==
  /\ Fine(lists)
  /\ p \in 0..Capacity
  /\ owner \in [Directory -> IoBlocks]
  /\ content = Resident
  /\ Len(lists.mrug) + Len(lists.mfug) <= Slots
  /\ Len(lists.mru) + Len(lists.mfu) <= Slots + 1

LEMMA ArcInvBounds == ArcInv => TypeOK /\ ContentBounded
<1> SUFFICES ASSUME ArcInv PROVE TypeOK /\ ContentBounded
  OBVIOUS
<1>1. \A n \in ListNames : Elements(lists[n]) \subseteq Keys
  BY LenProperties, ElementOfSeq DEF ArcInv, Fine, Elements
<1>2. content \subseteq Keys
  BY <1>1 DEF ArcInv, Resident, ResidentIn, ListNames
<1>3. TypeOK /\ ListsDisjoint /\ ContentIffResident
  BY <1>2 DEF ArcInv, Fine, TypeOK, ListsDisjoint, ContentIffResident
<1>4. ListsBounded
  <2> DEFINE o == ObjectSize
             u == Len(lists.mrug)
             v == Len(lists.mfug)
             x == Len(lists.mru)
             y == Len(lists.mfu)
  <2>1. /\ o \in Nat /\ Slots \in Nat /\ Capacity \in Nat /\ o * Slots <= Capacity
        /\ u \in Nat /\ v \in Nat /\ x \in Nat /\ y \in Nat
        /\ u + v <= Slots /\ x + y <= Slots + 1
    <3>1. 0 \in 0..Capacity
      BY ArcAssumption
    <3> QED
      BY <3>1, ArcAssumption, TargetInSlots, FourLists DEF ArcInv
  <2> HIDE DEF o, u, v, x, y
  <2>2. o * (u + v) <= o * Slots /\ o * (x + y) <= o * (Slots + 1)
    BY <2>1, Products
  <2>3. /\ o * (u + v) = o * u + o * v /\ o * (x + y) = o * x + o * y
        /\ o * (Slots + 1) = o * Slots + o
    BY <2>1
  <2>4. /\ o * u \in Nat /\ o * v \in Nat /\ o * x \in Nat /\ o * y \in Nat
        /\ o * Slots \in Nat
    BY <2>1
  <2>5. o * u + o * v <= Capacity /\ o * x + o * y <= Capacity + o
    BY <2>1, <2>2, <2>3, <2>4
  <2> QED
    BY <2>5 DEF ListsBounded, Bytes, o, u, v, x, y
<1> QED
  BY <1>3, <1>4 DEF ContentBounded

LEMMA ArcInitially == ArcInit => ArcInv /\ Resident = {}
<1> SUFFICES ASSUME ArcInit PROVE ArcInv /\ Resident = {}
  OBVIOUS
<1>1. /\ lists \in [ListNames -> Seq(Keys)]
      /\ \A n \in ListNames : lists[n] = <<>> /\ Elements(lists[n]) = {} /\ Len(lists[n]) = 0
  BY EmptySeq DEF ArcInit, Elements
<1>2. Fine(lists)
  BY <1>1 DEF Fine, NoRepeat
<1>3. Directory = {} /\ Resident = {}
  BY <1>1 DEF Directory, DirectoryOf, Resident, ResidentIn, GhostsIn, ListNames
<1>4. p \in 0..Capacity
  BY ArcAssumption DEF ArcInit
<1>5. Slots \in Nat
  BY <1>4, TargetInSlots
<1>6. /\ Len(lists.mru) = 0 /\ Len(lists.mfu) = 0
      /\ Len(lists.mrug) = 0 /\ Len(lists.mfug) = 0
  BY <1>1 DEF ListNames
<1>7. owner \in [Directory -> IoBlocks] /\ content = Resident
  BY <1>3 DEF ArcInit
<1> QED
  BY <1>2, <1>3, <1>4, <1>5, <1>6, <1>7 DEF ArcInv

\* An object comes in, into a list of resident ones.
LEMMA BroughtIn ==
  ASSUME NEW L, Fine(L), NEW q \in 0..Capacity, NEW n \in {"mru", "mfu"},
         NEW k \in Keys, NEW b \in IoBlocks,
         k \notin DirectoryOf(L), DirectoryOf(L) \subseteq Directory,
         ResidentIn(L) = content, owner \in [Directory -> IoBlocks],
         BringIn(L, q, n, k, b)
  PROVE  /\ ArcInv'
         /\ k \in Resident' /\ Resident' \subseteq content \cup {k}
         /\ owner'[k] = b
         /\ \A x \in Resident' : x # k => owner'[x] = owner[x]
         /\ \A idx, j \in DOMAIN L.mru :
              idx < j /\ L.mru[j] \in Resident' => L.mru[idx] \in Resident'
         /\ \A idx, j \in DOMAIN L.mfu :
              idx < j /\ L.mfu[j] \in Resident' => L.mfu[idx] \in Resident'
<1> DEFINE E == Evict(L, q)
           M == Balance(L, q)
           known == DirectoryOf(M) \cup {k}
<1>1. /\ Fine(E)
      /\ Elements(E.mru) \subseteq Elements(L.mru)
      /\ Elements(E.mfu) \subseteq Elements(L.mfu)
      /\ DirectoryOf(E) = DirectoryOf(L)
      /\ Len(E.mru) + Len(E.mfu) <= Slots
      /\ \A idx, j \in DOMAIN L.mru :
           idx < j /\ L.mru[j] \in Elements(E.mru) => L.mru[idx] \in Elements(E.mru)
      /\ \A idx, j \in DOMAIN L.mfu :
           idx < j /\ L.mfu[j] \in Elements(E.mfu) => L.mfu[idx] \in Elements(E.mfu)
  BY Evicted
<1> HIDE DEF E
<1>2. /\ Fine(M)
      /\ M.mru = E.mru /\ M.mfu = E.mfu
      /\ Elements(M.mrug) \subseteq Elements(E.mrug)
      /\ Elements(M.mfug) \subseteq Elements(E.mfug)
      /\ Len(M.mrug) + Len(M.mfug) <= Slots
  BY <1>1, Forgotten DEF Balance, E
<1>3. /\ lists' = Prepend(M, n, k)
      /\ p' = q
      /\ content' = (content \ GhostsIn(E)) \cup {k}
      /\ owner' = [x \in known |-> IF x = k THEN b ELSE owner[x]]
  BY DEF BringIn, E
<1> HIDE DEF M
<1>4. ResidentIn(M) = ResidentIn(E) /\ GhostsIn(M) \subseteq GhostsIn(E)
  BY <1>2 DEF ResidentIn, GhostsIn
<1>5. DirectoryOf(M) \subseteq DirectoryOf(L)
  BY <1>1, <1>4 DEF DirectoryOf
<1>6. k \notin DirectoryOf(M)
  BY <1>5
<1>7. /\ Fine(lists')
      /\ Elements(lists'[n]) = Elements(M[n]) \cup {k}
      /\ Len(lists'[n]) = Len(M[n]) + 1
      /\ \A m \in ListNames : m # n => lists'[m] = M[m]
  <2>1. n \in ListNames
    BY DEF ListNames
  <2>2. /\ Fine(Prepend(M, n, k))
        /\ Elements(Prepend(M, n, k)[n]) = Elements(M[n]) \cup {k}
        /\ Len(Prepend(M, n, k)[n]) = Len(M[n]) + 1
        /\ \A m \in ListNames : m # n => Prepend(M, n, k)[m] = M[m]
    BY <1>2, <1>6, <2>1, Prepended
  <2> QED
    BY <1>3, <2>2
<1>8. /\ Resident' = ResidentIn(M) \cup {k}
      /\ Directory' = DirectoryOf(M) \cup {k}
      /\ lists'.mrug = M.mrug /\ lists'.mfug = M.mfug
      /\ Len(lists'.mru) + Len(lists'.mfu) = Len(M.mru) + Len(M.mfu) + 1
  <2>1. /\ Len(M.mru) \in Nat /\ Len(M.mfu) \in Nat
    BY <1>2, FourLists
  <2>2. lists'.mrug = M.mrug /\ lists'.mfug = M.mfug
    BY <1>7 DEF ListNames
  <2>3. CASE n = "mru"
    <3>1. /\ lists'.mfu = M.mfu /\ Elements(lists'.mru) = Elements(M.mru) \cup {k}
          /\ Len(lists'.mru) = Len(M.mru) + 1 /\ Len(lists'.mfu) = Len(M.mfu)
      BY <1>7, <2>3 DEF ListNames
    <3>0. PICK x \in Nat, y \in Nat : x = Len(M.mru) /\ y = Len(M.mfu)
      BY <2>1
    <3>2. Resident' = ResidentIn(M) \cup {k}
      BY <3>1 DEF Resident, ResidentIn
    <3>3. Directory' = DirectoryOf(M) \cup {k}
      BY <2>2, <3>1 DEF Directory, DirectoryOf, ResidentIn, GhostsIn
    <3>4. Len(lists'.mru) + Len(lists'.mfu) = Len(M.mru) + Len(M.mfu) + 1
      <4>1. Len(lists'.mru) = x + 1 /\ Len(lists'.mfu) = y
        BY <3>0, <3>1
      <4>2. x + 1 + y = x + y + 1 /\ x + (y + 1) = x + y + 1
        OBVIOUS
      <4> QED
        BY <3>0, <4>1, <4>2
    <3> QED
      BY <2>2, <3>2, <3>3, <3>4
  <2>4. CASE n = "mfu"
    <3>1. /\ lists'.mru = M.mru /\ Elements(lists'.mfu) = Elements(M.mfu) \cup {k}
          /\ Len(lists'.mfu) = Len(M.mfu) + 1 /\ Len(lists'.mru) = Len(M.mru)
      BY <1>7, <2>4 DEF ListNames
    <3>0. PICK x \in Nat, y \in Nat : x = Len(M.mru) /\ y = Len(M.mfu)
      BY <2>1
    <3>2. Resident' = ResidentIn(M) \cup {k}
      BY <3>1 DEF Resident, ResidentIn
    <3>3. Directory' = DirectoryOf(M) \cup {k}
      BY <2>2, <3>1 DEF Directory, DirectoryOf, ResidentIn, GhostsIn
    <3>4. Len(lists'.mru) + Len(lists'.mfu) = Len(M.mru) + Len(M.mfu) + 1
      <4>1. Len(lists'.mfu) = y + 1 /\ Len(lists'.mru) = x
        BY <3>0, <3>1
      <4>2. x + 1 + y = x + y + 1 /\ x + (y + 1) = x + y + 1
        OBVIOUS
      <4> QED
        BY <3>0, <4>1, <4>2
    <3> QED
      BY <2>2, <3>2, <3>3, <3>4
  <2> QED
    BY <2>3, <2>4
<1>9. owner' \in [Directory' -> IoBlocks]
  <2>1. \A x \in known : (IF x = k THEN b ELSE owner[x]) \in IoBlocks
    BY <1>5
  <2>2. owner' \in [known -> IoBlocks]
    BY <1>3, <2>1
  <2> QED
    BY <1>8, <2>2
<1>10. content \ GhostsIn(E) = ResidentIn(E)
  <2>1. ResidentIn(E) \cap GhostsIn(E) = {}
    BY <1>1, FourLists DEF ResidentIn, GhostsIn
  <2>2. ResidentIn(E) \subseteq ResidentIn(L)
    BY <1>1 DEF ResidentIn
  <2>3. ResidentIn(L) \subseteq ResidentIn(E) \cup GhostsIn(E)
    BY <1>1 DEF DirectoryOf
  <2> QED
    BY <2>1, <2>2, <2>3
<1>11. content' = Resident' /\ k \in Resident' /\ Resident' \subseteq content \cup {k}
  BY <1>3, <1>4, <1>8, <1>10
<1>12. Len(lists'.mru) + Len(lists'.mfu) <= Slots + 1
  <2> DEFINE x == Len(M.mru)
             y == Len(M.mfu)
  <2>1. x \in Nat /\ y \in Nat /\ Slots \in Nat
    BY <1>2, FourLists, TargetInSlots
  <2>2. x + y <= Slots /\ Len(lists'.mru) + Len(lists'.mfu) = x + y + 1
    BY <1>1, <1>2, <1>8
  <2> HIDE DEF x, y
  <2>3. x + y + 1 <= Slots + 1
    BY <2>1, <2>2
  <2> QED
    BY <2>2, <2>3
<1>13. ArcInv'
  BY <1>2, <1>3, <1>7, <1>8, <1>9, <1>11, <1>12 DEF ArcInv, Slots
<1>14. owner'[k] = b /\ \A x \in Resident' : x # k => owner'[x] = owner[x]
  BY <1>3, <1>8 DEF DirectoryOf
<1>15. \A x : x # k => (x \in Resident' <=> x \in Elements(E.mru) \/ x \in Elements(E.mfu))
  BY <1>4, <1>8 DEF ResidentIn
<1>16. /\ Elements(L.mru) \cap Elements(L.mfu) = {}
       /\ k \notin Elements(L.mru) /\ k \notin Elements(L.mfu)
  BY FourLists DEF DirectoryOf, ResidentIn
<1>17. ASSUME NEW idx \in DOMAIN L.mru, NEW j \in DOMAIN L.mru, idx < j, L.mru[j] \in Resident'
       PROVE  L.mru[idx] \in Resident'
  <2>1. L.mru[idx] \in Elements(L.mru) /\ L.mru[j] \in Elements(L.mru)
    BY DEF Elements
  <2>2. L.mru[j] \in Elements(E.mru)
    BY <1>1, <1>15, <1>16, <1>17, <2>1
  <2> QED
    BY <1>1, <1>15, <1>16, <1>17, <2>1, <2>2
<1>18. ASSUME NEW idx \in DOMAIN L.mfu, NEW j \in DOMAIN L.mfu, idx < j, L.mfu[j] \in Resident'
       PROVE  L.mfu[idx] \in Resident'
  <2>1. L.mfu[idx] \in Elements(L.mfu) /\ L.mfu[j] \in Elements(L.mfu)
    BY DEF Elements
  <2>2. L.mfu[j] \in Elements(E.mfu)
    BY <1>1, <1>15, <1>16, <1>18, <2>1
  <2> QED
    BY <1>1, <1>15, <1>16, <1>18, <2>1, <2>2
<1> QED
  BY <1>11, <1>13, <1>14, <1>17, <1>18

\* A ghost that comes back leaves its list first.
LEMMA GhostDetached ==
  ASSUME ArcInv, NEW k \in Keys, k \in Ghosts
  PROVE  LET L == Detach(lists, k) IN
         /\ Fine(L) /\ k \notin DirectoryOf(L) /\ DirectoryOf(L) \subseteq Directory
         /\ ResidentIn(L) = content
         /\ L.mru = lists.mru /\ L.mfu = lists.mfu
         /\ k \notin Resident
<1> DEFINE L == Detach(lists, k)
<1>1. /\ Fine(L)
      /\ \A n \in ListNames :
           /\ Elements(L[n]) = Elements(lists[n]) \ {k}
           /\ k \notin Elements(lists[n]) => L[n] = lists[n]
  BY Detached DEF ArcInv
<1> HIDE DEF L
<1>2. k \notin Elements(lists.mru) /\ k \notin Elements(lists.mfu)
  BY FourLists DEF ArcInv, Ghosts, GhostsIn
<1>3. L.mru = lists.mru /\ L.mfu = lists.mfu
  BY <1>1, <1>2 DEF ListNames
<1>4. /\ Elements(L.mrug) = Elements(lists.mrug) \ {k}
      /\ Elements(L.mfug) = Elements(lists.mfug) \ {k}
  BY <1>1 DEF ListNames
<1>5. k \notin DirectoryOf(L) /\ DirectoryOf(L) \subseteq Directory
  BY <1>2, <1>3, <1>4 DEF DirectoryOf, Directory, ResidentIn, GhostsIn
<1>6. ResidentIn(L) = content /\ k \notin Resident
  BY <1>2, <1>3 DEF ArcInv, Resident, ResidentIn
<1> QED
  BY <1>1, <1>3, <1>5, <1>6 DEF L

LEMMA Targets ==
  ASSUME ArcInv
  PROVE  /\ Len(lists.mrug) > 0 => GrowTarget \in 0..Capacity
         /\ Len(lists.mfug) > 0 => ShrinkTarget \in 0..Capacity
<1> DEFINE u == Bytes(lists.mrug)
           v == Bytes(lists.mfug)
<1>1. PICK x \in Nat, y \in Nat : x = Len(lists.mrug) /\ y = Len(lists.mfug)
  BY FourLists DEF ArcInv
<1>2. u = ObjectSize * x /\ v = ObjectSize * y /\ ObjectSize \in Nat \ {0}
  BY <1>1, ArcAssumption DEF Bytes
<1>3. u \in Nat /\ v \in Nat /\ (x > 0 => u > 0) /\ (y > 0 => v > 0)
  <2>1. \A z \in Nat : ObjectSize * z \in Nat
    BY <1>2
  <2>2. ASSUME NEW z \in Nat, z > 0 PROVE ObjectSize * z > 0
    <3>1. ObjectSize * 1 <= ObjectSize * z
      BY <1>2, <2>2, Products
    <3> QED
      BY <1>2, <2>1, <3>1
  <2> QED
    BY <1>2, <2>1, <2>2
<1>4. p \in Nat /\ p <= Capacity /\ Capacity \in Nat
  BY ArcAssumption DEF ArcInv
<1> HIDE DEF u, v
<1>5. ASSUME x > 0 PROVE GrowTarget \in 0..Capacity
  <2> DEFINE g == AtLeastOne(v \div u)
  <2>1. g \in Nat
    <3>1. v \div u \in Nat
      BY <1>3, <1>5
    <3> QED
      BY <3>1 DEF AtLeastOne
  <2>2. GrowTarget = AtMost(Capacity, p + g)
    BY DEF GrowTarget, u, v
  <2> HIDE DEF g
  <2> QED
    BY <1>4, <2>1, <2>2 DEF AtMost
<1>6. ASSUME y > 0 PROVE ShrinkTarget \in 0..Capacity
  <2> DEFINE g == AtLeastOne(u \div v)
  <2>1. g \in Nat
    <3>1. u \div v \in Nat
      BY <1>3, <1>6
    <3> QED
      BY <3>1 DEF AtLeastOne
  <2>2. ShrinkTarget = IF p - g >= IntLimit THEN 0 ELSE NonNeg(p - g)
    BY DEF ShrinkTarget, u, v
  <2> HIDE DEF g
  <2> QED
    BY <1>4, <2>1, <2>2 DEF NonNeg
<1> QED
  BY <1>1, <1>5, <1>6

\* A list that holds a key is not empty.
LEMMA HoldsOne ==
  ASSUME NEW s \in Seq(Keys), NEW k \in Elements(s)
  PROVE  Len(s) > 0
BY LenProperties DEF Elements

\* What an addition does that brings in an object.
Admits(k, b) ==
  /\ ArcInv'
  /\ k \in Keys /\ b \in IoBlocks /\ k \notin Resident
  /\ k \in Resident' /\ Resident' \subseteq Resident \cup {k}
  /\ owner'[k] = b
  /\ \A x \in Resident' : x # k => owner'[x] = owner[x]
  /\ KeepsRecentOf(lists.mru) /\ KeepsRecentOf(lists.mfu)

LEMMA Admitted ==
  ASSUME ArcInv, NEW k \in Keys, NEW b \in IoBlocks,
         AddMruGhost(k, b) \/ AddMfuGhost(k, b) \/ AddNew(k, b)
  PROVE  Admits(k, b)
<1>1. content = Resident /\ owner \in [Directory -> IoBlocks] /\ Fine(lists) /\ p \in 0..Capacity
  BY DEF ArcInv
<1>2. CASE AddMruGhost(k, b) \/ AddMfuGhost(k, b)
  <2> DEFINE L == Detach(lists, k)
  <2>1. k \in Ghosts
    BY <1>2 DEF AddMruGhost, AddMfuGhost, Ghosts, GhostsIn
  <2>2. /\ Fine(L) /\ k \notin DirectoryOf(L) /\ DirectoryOf(L) \subseteq Directory
        /\ ResidentIn(L) = content
        /\ L.mru = lists.mru /\ L.mfu = lists.mfu
        /\ k \notin Resident
    BY <2>1, GhostDetached
  <2> HIDE DEF L
  <2>3. PICK q \in 0..Capacity : BringIn(L, q, "mfu", k, b)
    <3>1. lists.mrug \in Seq(Keys) /\ lists.mfug \in Seq(Keys)
      BY <1>1, FourLists
    <3>2. CASE AddMruGhost(k, b)
      <4>1. GrowTarget \in 0..Capacity
        BY <3>1, <3>2, HoldsOne, Targets DEF AddMruGhost
      <4> QED
        BY <3>2, <4>1 DEF AddMruGhost, L
    <3>3. CASE AddMfuGhost(k, b)
      <4>1. ShrinkTarget \in 0..Capacity
        BY <3>1, <3>3, HoldsOne, Targets DEF AddMfuGhost
      <4> QED
        BY <3>3, <4>1 DEF AddMfuGhost, L
    <3> QED
      BY <1>2, <3>2, <3>3
  <2>4. /\ ArcInv'
        /\ k \in Resident' /\ Resident' \subseteq content \cup {k}
        /\ owner'[k] = b
        /\ \A x \in Resident' : x # k => owner'[x] = owner[x]
        /\ \A idx, j \in DOMAIN L.mru :
             idx < j /\ L.mru[j] \in Resident' => L.mru[idx] \in Resident'
        /\ \A idx, j \in DOMAIN L.mfu :
             idx < j /\ L.mfu[j] \in Resident' => L.mfu[idx] \in Resident'
    BY <1>1, <2>2, <2>3, BroughtIn
  <2> QED
    BY <1>1, <2>2, <2>4 DEF Admits, KeepsRecentOf
<1>3. CASE AddNew(k, b)
  <2>1. BringIn(lists, p, "mru", k, b) /\ k \notin Directory /\ k \notin Resident
    BY <1>3 DEF AddNew, Directory, DirectoryOf, Resident
  <2>2. Directory = DirectoryOf(lists) /\ ResidentIn(lists) = content
    BY <1>1 DEF Directory, Resident
  <2>3. /\ ArcInv'
        /\ k \in Resident' /\ Resident' \subseteq content \cup {k}
        /\ owner'[k] = b
        /\ \A x \in Resident' : x # k => owner'[x] = owner[x]
        /\ \A idx, j \in DOMAIN lists.mru :
             idx < j /\ lists.mru[j] \in Resident' => lists.mru[idx] \in Resident'
        /\ \A idx, j \in DOMAIN lists.mfu :
             idx < j /\ lists.mfu[j] \in Resident' => lists.mfu[idx] \in Resident'
    BY <1>1, <2>1, <2>2, BroughtIn
  <2> QED
    BY <1>1, <2>1, <2>3 DEF Admits, KeepsRecentOf
<1> QED
  BY <1>2, <1>3

\* A hit only reorders the resident objects.
LEMMA HitKeeps ==
  ASSUME ArcInv, NEW k \in Keys, LookupHit(k)
  PROVE  ArcInv' /\ Resident' = Resident /\ Directory' = Directory /\ owner' = owner
<1> DEFINE L == Detach(lists, k)
<1>1. k \in Resident /\ lists' = Prepend(L, "mfu", k) /\ UNCHANGED <<p, content, owner>>
  BY DEF LookupHit, MoveToMfu
<1>2. /\ Fine(L)
      /\ \A n \in ListNames :
           /\ Elements(L[n]) = Elements(lists[n]) \ {k}
           /\ Len(L[n]) = IF k \in Elements(lists[n]) THEN Len(lists[n]) - 1 ELSE Len(lists[n])
           /\ k \notin Elements(lists[n]) => L[n] = lists[n]
           /\ Len(lists[n]) \in Nat /\ (k \in Elements(lists[n]) => Len(lists[n]) > 0)
  BY Detached DEF ArcInv
<1> HIDE DEF L
<1>3. /\ Elements(L.mru) = Elements(lists.mru) \ {k}
      /\ Elements(L.mfu) = Elements(lists.mfu) \ {k}
      /\ Elements(L.mrug) = Elements(lists.mrug) \ {k}
      /\ Elements(L.mfug) = Elements(lists.mfug) \ {k}
  BY <1>2 DEF ListNames
<1>4. k \notin DirectoryOf(L)
  BY <1>3 DEF DirectoryOf, ResidentIn, GhostsIn
<1>5. /\ Fine(lists')
      /\ Elements(lists'["mfu"]) = Elements(L["mfu"]) \cup {k}
      /\ Len(lists'["mfu"]) = Len(L["mfu"]) + 1
      /\ \A m \in ListNames : m # "mfu" => lists'[m] = L[m]
  <2>1. "mfu" \in ListNames
    BY DEF ListNames
  <2>2. /\ Fine(Prepend(L, "mfu", k))
        /\ Elements(Prepend(L, "mfu", k)["mfu"]) = Elements(L["mfu"]) \cup {k}
        /\ Len(Prepend(L, "mfu", k)["mfu"]) = Len(L["mfu"]) + 1
        /\ \A m \in ListNames : m # "mfu" => Prepend(L, "mfu", k)[m] = L[m]
    BY <1>2, <1>4, <2>1, Prepended
  <2> QED
    BY <1>1, <2>2
<1>6. k \notin Elements(lists.mrug) /\ k \notin Elements(lists.mfug)
  BY <1>1, FourLists DEF ArcInv, Resident, ResidentIn
<1>7. /\ lists'.mru = L.mru /\ lists'.mrug = lists.mrug /\ lists'.mfug = lists.mfug
      /\ Elements(lists'.mfu) = Elements(L.mfu) \cup {k}
  BY <1>2, <1>5, <1>6 DEF ListNames
<1>8. Resident' = Resident /\ Directory' = Directory
  BY <1>1, <1>3, <1>7 DEF Resident, Directory, DirectoryOf, ResidentIn, GhostsIn
<1>9. Len(lists'.mru) + Len(lists'.mfu) = Len(lists.mru) + Len(lists.mfu)
  <2>1. PICK x \in Nat, y \in Nat : x = Len(lists.mru) /\ y = Len(lists.mfu)
    BY FourLists DEF ArcInv
  <2>2. /\ Len(lists'.mfu) = Len(L.mfu) + 1 /\ Len(lists'.mru) = Len(L.mru)
        /\ Len(L.mru) = IF k \in Elements(lists.mru) THEN x - 1 ELSE x
        /\ Len(L.mfu) = IF k \in Elements(lists.mfu) THEN y - 1 ELSE y
    BY <1>2, <1>5, <1>7, <2>1 DEF ListNames
  <2>3. \/ k \in Elements(lists.mru) /\ k \notin Elements(lists.mfu)
        \/ k \notin Elements(lists.mru) /\ k \in Elements(lists.mfu)
    BY <1>1, FourLists DEF ArcInv, Resident, ResidentIn
  <2>4. \/ Len(lists'.mru) = x - 1 /\ Len(lists'.mfu) = y + 1
        \/ Len(lists'.mru) = x /\ Len(lists'.mfu) = y - 1 + 1
    BY <2>2, <2>3
  <2>5. x - 1 + (y + 1) = x + y /\ x + (y - 1 + 1) = x + y
    OBVIOUS
  <2>6. Len(lists'.mru) + Len(lists'.mfu) = x + y
    <3>1. CASE Len(lists'.mru) = x - 1 /\ Len(lists'.mfu) = y + 1
      BY <2>5, <3>1, Zenon
    <3>2. CASE Len(lists'.mru) = x /\ Len(lists'.mfu) = y - 1 + 1
      BY <2>5, <3>2, Zenon
    <3> QED
      BY <2>4, <3>1, <3>2
  <2> QED
    BY <2>1, <2>6, Zenon
<1>10. ArcInv'
  BY <1>1, <1>5, <1>7, <1>8, <1>9 DEF ArcInv, Slots
<1> QED
  BY <1>1, <1>8, <1>10

LEMMA AllFreed == ArcInv /\ ArcDestroy => ArcInv' /\ Resident' = {}
<1> SUFFICES ASSUME ArcInv, ArcDestroy PROVE ArcInv' /\ Resident' = {}
  OBVIOUS
<1>1. /\ lists' \in [ListNames -> Seq(Keys)]
      /\ \A n \in ListNames : lists'[n] = <<>> /\ Elements(lists'[n]) = {} /\ Len(lists'[n]) = 0
  BY EmptySeq DEF ArcDestroy, Elements
<1>2. Fine(lists')
  BY <1>1 DEF Fine, NoRepeat
<1>3. Directory' = {} /\ Resident' = {}
  BY <1>1 DEF Directory, DirectoryOf, Resident, ResidentIn, GhostsIn, ListNames
<1>4. p' \in 0..Capacity /\ Slots \in Nat /\ Slots' = Slots
  BY TargetInSlots DEF ArcInv, ArcDestroy, Slots
<1>5. /\ Len(lists'.mru) = 0 /\ Len(lists'.mfu) = 0
      /\ Len(lists'.mrug) = 0 /\ Len(lists'.mfug) = 0
  BY <1>1 DEF ListNames
<1>6. owner' \in [Directory' -> IoBlocks] /\ content' = Resident'
  BY <1>3 DEF ArcDestroy
<1> QED
  BY <1>2, <1>3, <1>4, <1>5, <1>6 DEF ArcInv

\* An addition finds the object resident, or brings it in.
LEMMA AddCases ==
  ASSUME ArcInv, NEW k \in Keys, NEW b \in IoBlocks, ArcAdd(k, b)
  PROVE  \/ ArcInv' /\ k \in Resident /\ Resident' = Resident /\ owner' = owner
         \/ Admits(k, b)
<1>1. CASE AddResident(k)
  BY <1>1, HitKeeps DEF AddResident, LookupHit
<1>2. CASE AddMruGhost(k, b) \/ AddMfuGhost(k, b) \/ AddNew(k, b)
  BY <1>2, Admitted
<1> QED
  BY <1>1, <1>2 DEF ArcAdd

\* What a step does to the resident objects.
ArcEffect ==
  \/ Resident' = {}
  \/ Resident' = Resident /\ owner' = owner
  \/ \E k \in Keys, b \in IoBlocks : Admits(k, b)

LEMMA ArcStep == ArcInv /\ [ArcNext]_arcVars => ArcInv' /\ ArcEffect
<1> SUFFICES ASSUME ArcInv, [ArcNext]_arcVars PROVE ArcInv' /\ ArcEffect
  OBVIOUS
<1>1. CASE UNCHANGED arcVars
  <2>1. UNCHANGED <<lists, p, content, owner>>
    BY <1>1 DEF arcVars
  <2>2. Resident' = Resident /\ Directory' = Directory
    BY <2>1 DEF Resident, Directory, DirectoryOf, ResidentIn, GhostsIn, Elements
  <2>3. ArcInv'
    BY <2>1, <2>2 DEF ArcInv, Slots
  <2> QED
    BY <2>1, <2>2, <2>3 DEF ArcEffect
<1>2. ASSUME NEW k \in Keys, LookupHit(k) PROVE ArcInv' /\ ArcEffect
  BY <1>2, HitKeeps DEF ArcEffect
<1>3. ASSUME NEW k \in Keys, LookupMiss(k) PROVE UNCHANGED arcVars
  BY <1>3 DEF LookupMiss
<1>4. ASSUME NEW k \in Keys, NEW b \in IoBlocks, ArcAdd(k, b) PROVE ArcInv' /\ ArcEffect
  BY <1>4, AddCases DEF ArcEffect, Admits
<1>5. CASE ArcDestroy
  BY <1>5, AllFreed DEF ArcEffect
<1> QED
  BY <1>1, <1>2, <1>3, <1>4, <1>5 DEF ArcNext

-----------------------------------------------------------------------------
\* The lists, the target and the objects stay as ArcInv says.
THEOREM ArcInvariant == ArcSpec => []ArcInv
<1>1. ArcInit => ArcInv
  BY ArcInitially
<1>2. ArcInv /\ [ArcNext]_arcVars => ArcInv'
  BY ArcStep
<1> QED
  BY <1>1, <1>2, PTL DEF ArcSpec

\* An object is linked in one list, once; it has a content just when it is
\* resident; the ghosts are no more than fit the cache and the resident
\* objects at most one more (arc.c:25-262, contentcache.c:32-130).
THEOREM ContentTheorem == ArcSpec => [](TypeOK /\ ContentBounded)
<1>1. ArcInv => TypeOK /\ ContentBounded
  BY ArcInvBounds
<1> QED
  BY <1>1, ArcInvariant, PTL

\* Each of the two resident lists loses its tail first, and loses an object
\* only when another comes in (arc.c:170-200).
THEOREM EvictionTheorem == ArcSpec => EvictsLeastRecent
<1> DEFINE Orderly ==
      \/ Resident' = {}
      \/ Resident \subseteq Resident'
      \/ /\ KeepsRecentOf(lists.mru)
         /\ KeepsRecentOf(lists.mfu)
         /\ \E k \in Keys : Resident' \ Resident = {k}
<1>1. ArcInv /\ [ArcNext]_arcVars => [Orderly]_arcVars
  <2> SUFFICES ASSUME ArcInv, [ArcNext]_arcVars PROVE Orderly
    OBVIOUS
  <2>1. ArcEffect
    BY ArcStep
  <2>2. ASSUME NEW k \in Keys, NEW b \in IoBlocks, Admits(k, b) PROVE Orderly
    <3>1. Resident' \ Resident = {k}
      BY <2>2 DEF Admits
    <3> QED
      BY <2>2, <3>1 DEF Admits
  <2> QED
    BY <2>1, <2>2 DEF ArcEffect
<1> QED
  BY <1>1, ArcInvariant, PTL DEF ArcSpec, EvictsLeastRecent

\* To its callers the cache is a store: an object keeps the block number it
\* came in with for as long as it is resident (contentcache.c:346).
THEOREM ArcStoreTheorem == ArcSpec => ImplementsStore
<1> DEFINE held == [k \in Resident |-> owner[k]]
<1>1. ArcInit => Objects!StoreInit
  BY ArcInitially DEF Objects!StoreInit
<1>2. ArcInv /\ [ArcNext]_arcVars => [Objects!StoreNext]_held
  <2> SUFFICES ASSUME ArcInv, [ArcNext]_arcVars PROVE [Objects!StoreNext]_held
    OBVIOUS
  <2>1. ArcEffect
    BY ArcStep
  <2>2. CASE Resident' = {}
    <3>1. Objects!Clear
      BY <2>2 DEF Objects!Clear
    <3> QED
      BY <3>1 DEF Objects!StoreNext
  <2>3. CASE Resident' = Resident /\ owner' = owner
    BY <2>3
  <2>4. ASSUME NEW k \in Keys, NEW b \in IoBlocks, Admits(k, b) PROVE Objects!StoreNext
    <3> DEFINE kept == Resident' \ {k}
    <3>1. k \notin Resident /\ kept \subseteq Resident /\ Resident' = kept \cup {k}
      BY <2>4 DEF Admits
    <3>2. \A x \in Resident' : owner'[x] = IF x = k THEN b ELSE owner[x]
      BY <2>4 DEF Admits
    <3>3. /\ kept \in SUBSET DOMAIN held
          /\ held' = [m \in kept \cup {k} |-> IF m = k THEN b ELSE held[m]]
      BY <3>1, <3>2
    <3>4. Objects!Insert(k, b)
      BY <3>1, <3>3 DEF Objects!Insert
    <3> QED
      BY <3>4 DEF Objects!StoreNext, Objects!Put
  <2> QED
    BY <2>1, <2>2, <2>3, <2>4 DEF ArcEffect
<1> QED
  BY <1>1, <1>2, ArcInvariant, PTL DEF ArcSpec, ImplementsStore, Objects!StoreSpec

-----------------------------------------------------------------------------
\* The closed form of __arc_balance.  Sizes in bytes are compared as the
\* numbers of objects are.
LEMMA InObjects ==
  ASSUME NEW q \in Nat, NEW m \in Nat
  PROVE  ObjectSize * m <= q <=> m <= q \div ObjectSize
<1> DEFINE o == ObjectSize
           t == q \div o
<1>1. o \in Nat \ {0}
  BY ArcAssumption
<1>2. t \in Nat /\ o * t <= q /\ q < o * t + o
  BY <1>1
<1>3. o * t \in Nat /\ o * m \in Nat
  BY <1>1, <1>2
<1> HIDE DEF t
<1>4. m <= t => o * m <= q
  BY <1>1, <1>2, <1>3, Products
<1>5. ASSUME t + 1 <= m PROVE ~(o * m <= q)
  <2>1. o * (t + 1) <= o * m
    BY <1>1, <1>2, <1>5, Products
  <2>2. o * (t + 1) = o * t + o
    BY <1>1, <1>2
  <2> QED
    BY <1>1, <1>2, <1>3, <2>1, <2>2
<1> QED
  BY <1>2, <1>4, <1>5 DEF t

\* A loop takes objects from a first list, of x, until t are left, then from
\* a second, of y, until B are left in all: how many from each, in the end and
\* after n turns.
FromFirst(x, y, t, B) == AtMost(NonNeg(x + y - B), NonNeg(x - t))
FromSecond(x, y, t, B) == AtMost(NonNeg(x + y - B) - FromFirst(x, y, t, B), y)
FirstAt(n, x, y, t, B) == AtMost(n, FromFirst(x, y, t, B))
SecondAt(n, x, y, t, B) == AtMost(n - FirstAt(n, x, y, t, B), FromSecond(x, y, t, B))

TurnsRight(n, m, x, y, t, B) ==
  LET r == FromFirst(x, y, t, B)
      f == FromSecond(x, y, t, B)
      R == FirstAt(n, x, y, t, B)
      F == SecondAt(n, x, y, t, B)
      next == FirstAt(m, x, y, t, B)
      then == SecondAt(m, x, y, t, B)
  IN  /\ r \in 0..x /\ f \in 0..y
      /\ R \in 0..x /\ F \in 0..y
      /\ n = 0 => R = 0 /\ F = 0
      /\ n >= r + f => R = r /\ F = f
      /\ IF x - R + (y - F) <= B THEN next = R /\ then = F
         ELSE IF x - R > t THEN R < x /\ next = R + 1 /\ then = F
         ELSE IF y - F > 0 THEN next = R /\ then = F + 1
         ELSE next = R /\ then = F

LEMMA TurnCounts ==
  ASSUME NEW x \in Nat, NEW y \in Nat, NEW t \in Nat, NEW B \in Int, NEW n \in Nat,
         NEW m \in Nat, m = n + 1
  PROVE  TurnsRight(n, m, x, y, t, B)
<1> DEFINE e == NonNeg(x + y - B)
           r == FromFirst(x, y, t, B)
           f == FromSecond(x, y, t, B)
           R == FirstAt(n, x, y, t, B)
           F == SecondAt(n, x, y, t, B)
           next == FirstAt(m, x, y, t, B)
           then == SecondAt(m, x, y, t, B)
           Turn == IF x - R + (y - F) <= B THEN next = R /\ then = F
                   ELSE IF x - R > t THEN R < x /\ next = R + 1 /\ then = F
                   ELSE IF y - F > 0 THEN next = R /\ then = F + 1
                   ELSE next = R /\ then = F
<1>1. /\ r = AtMost(e, NonNeg(x - t)) /\ f = AtMost(e - r, y)
      /\ R = AtMost(n, r) /\ F = AtMost(n - R, f)
      /\ next = AtMost(m, r) /\ then = AtMost(m - next, f)
  <2>1. r = AtMost(e, NonNeg(x - t))
    BY DEF FromFirst
  <2>2. f = AtMost(e - r, y)
    BY DEF FromSecond
  <2>3. R = AtMost(n, r) /\ next = AtMost(m, r)
    BY DEF FirstAt
  <2>4. F = AtMost(n - R, f)
    BY DEF SecondAt
  <2>5. then = AtMost(m - next, f)
    BY DEF SecondAt
  <2> HIDE DEF e, r, f, R, F, next, then
  <2> QED
    BY <2>1, <2>2, <2>3, <2>4, <2>5
<1>2. e \in Nat /\ e >= x + y - B /\ (e = 0 \/ e = x + y - B)
  BY DEF NonNeg
<1> HIDE DEF e, r, f, R, F, next, then
<1>3. /\ r \in Nat /\ r <= e /\ r <= x
      /\ r = e \/ r = x - t \/ (r = 0 /\ x <= t)
      /\ x - r >= t \/ r = 0
  BY <1>1, <1>2 DEF AtMost, NonNeg
<1>4. /\ f \in Nat /\ f <= e - r /\ f <= y
      /\ f = e - r \/ f = y
  BY <1>1, <1>2, <1>3 DEF AtMost
<1>5. R = IF n <= r THEN n ELSE r
  BY <1>1 DEF AtMost
<1>6. F = IF n - R <= f THEN n - R ELSE f
  BY <1>1 DEF AtMost
<1>7. /\ next = IF n + 1 <= r THEN n + 1 ELSE r
      /\ then = IF n + 1 - next <= f THEN n + 1 - next ELSE f
  BY <1>1 DEF AtMost
<1>8. CASE n < r
  <2>1. R = n /\ F = 0 /\ next = n + 1 /\ then = 0
    BY <1>3, <1>4, <1>5, <1>6, <1>7, <1>8
  <2>2. n < e /\ x - n > t /\ ~(x - n + (y - 0) <= B) /\ n < x
    BY <1>2, <1>3, <1>8
  <2>3. Turn
    BY <2>1, <2>2
  <2>4. ~(n >= r + f)
    BY <1>3, <1>4, <1>8
  <2> QED
    BY <1>3, <1>4, <1>8, <2>1, <2>3, <2>4 DEF r, f, R, F, next, then, TurnsRight
<1>9. CASE ~(n < r)
  <2>1. R = r /\ next = r /\ (x - r <= t \/ r = e)
    BY <1>2, <1>3, <1>5, <1>7, <1>9
  <2>2. PICK d \in Nat : n = r + d
    <3>1. n - r \in Nat /\ n = r + (n - r)
      BY <1>3, <1>9
    <3> QED
      BY <3>1
  <2>3. /\ F = IF d <= f THEN d ELSE f
        /\ then = IF d + 1 <= f THEN d + 1 ELSE f
    <3>1. n - R = d /\ n + 1 - next = d + 1
      BY <1>3, <2>1, <2>2
    <3> QED
      BY <1>6, <1>7, <3>1
  <2>4. n >= r + f => F = f
    BY <1>3, <1>4, <2>2, <2>3
  <2>5. n = 0 => R = 0 /\ F = 0
    BY <1>3, <1>4, <2>1, <2>2, <2>3
  <2>6. Turn
    <3>1. CASE d < f
      <4>1. F = d /\ then = F + 1
        BY <1>4, <2>3, <3>1
      <4>2. ~(x - r + (y - F) <= B) /\ ~(x - r > t) /\ y - F > 0
        BY <1>2, <1>3, <1>4, <2>1, <3>1, <4>1
      <4> QED
        BY <2>1, <4>1, <4>2
    <3>2. CASE ~(d < f)
      <4>1. F = f /\ then = f
        BY <1>4, <2>3, <3>2
      <4>2. x - r + (y - f) <= B \/ (~(x - r > t) /\ ~(y - f > 0))
        BY <1>2, <1>3, <1>4, <2>1
      <4> QED
        BY <2>1, <4>1, <4>2
    <3> QED
      BY <3>1, <3>2
  <2>7. F \in 0..y /\ R \in 0..x /\ r \in 0..x /\ f \in 0..y
    BY <1>3, <1>4, <2>1, <2>3
  <2> QED
    BY <2>1, <2>4, <2>5, <2>6, <2>7 DEF r, f, R, F, next, then, TurnsRight
<1> QED
  BY <1>8, <1>9

\* One object more is taken from a list.
LEMMA OneMore ==
  ASSUME NEW s \in Seq(Keys), NEW n \in 0..Len(s)
  PROVE  /\ KeepFirst(s, n) \in Seq(Keys) /\ Len(KeepFirst(s, n)) = Len(s) - n
         /\ LeastRecent(s, n) \in Seq(Keys) /\ Len(LeastRecent(s, n)) = n
         /\ n = 0 => KeepFirst(s, n) = s /\ LeastRecent(s, n) = <<>>
         /\ n < Len(s) =>
              /\ Front(KeepFirst(s, n)) = KeepFirst(s, n + 1)
              /\ Last(KeepFirst(s, n)) \in Keys
              /\ <<Last(KeepFirst(s, n))>> \o LeastRecent(s, n) = LeastRecent(s, n + 1)
<1> DEFINE l == Len(s)
           t == KeepFirst(s, n)
           u == LeastRecent(s, n)
<1>1. l \in Nat /\ \A idx \in 1..l : s[idx] \in Keys
  BY LenProperties, ElementOfSeq
<1>2. ASSUME NEW m \in 0..l
      PROVE  /\ KeepFirst(s, m) \in Seq(Keys) /\ Len(KeepFirst(s, m)) = l - m
             /\ \A idx \in 1..(l - m) : KeepFirst(s, m)[idx] = s[idx]
             /\ LeastRecent(s, m) \in Seq(Keys) /\ Len(LeastRecent(s, m)) = m
             /\ \A idx \in 1..m : LeastRecent(s, m)[idx] = s[l - m + idx]
  <2> HIDE DEF l
  <2>1. /\ SubSeq(s, 1, l - m) \in Seq(Keys)
        /\ Len(SubSeq(s, 1, l - m)) = IF 1 <= l - m THEN l - m - 1 + 1 ELSE 0
        /\ \A idx \in 1..(l - m - 1 + 1) : SubSeq(s, 1, l - m)[idx] = s[1 + idx - 1]
    <3>1. \A idx \in 1..(l - m) : s[idx] \in Keys
      BY <1>1
    <3> QED
      BY <1>1, <3>1, SubSeqProperties
  <2>2. /\ SubSeq(s, l - m + 1, l) \in Seq(Keys)
        /\ Len(SubSeq(s, l - m + 1, l)) = IF l - m + 1 <= l THEN l - (l - m + 1) + 1 ELSE 0
        /\ \A idx \in 1..(l - (l - m + 1) + 1) : SubSeq(s, l - m + 1, l)[idx] = s[l - m + 1 + idx - 1]
    <3>1. \A idx \in (l - m + 1)..l : s[idx] \in Keys
      BY <1>1
    <3> QED
      BY <1>1, <3>1, SubSeqProperties
  <2>3. /\ KeepFirst(s, m) = SubSeq(s, 1, l - m)
        /\ LeastRecent(s, m) = SubSeq(s, l - m + 1, l)
    BY DEF KeepFirst, LeastRecent, l
  <2> DEFINE kept == SubSeq(s, 1, l - m)
             gone == SubSeq(s, l - m + 1, l)
  <2>4. kept \in Seq(Keys) /\ Len(kept) = l - m /\ \A idx \in 1..(l - m) : kept[idx] = s[idx]
    <3>1. ASSUME NEW idx \in 1..(l - m) PROVE kept[idx] = s[idx]
      <4>1. idx \in 1..(l - m - 1 + 1) /\ 1 + idx - 1 = idx
        BY <1>1
      <4>2. kept[idx] = s[1 + idx - 1]
        BY <2>1, <4>1
      <4> QED
        BY <4>1, <4>2, Zenon
    <3>2. kept \in Seq(Keys) /\ Len(kept) = l - m
      <4>1. kept \in Seq(Keys) /\ Len(kept) = IF 1 <= l - m THEN l - m - 1 + 1 ELSE 0
        BY <2>1
      <4> HIDE DEF kept
      <4> QED
        BY <1>1, <4>1
    <3> QED
      BY <3>1, <3>2
  <2>5. gone \in Seq(Keys) /\ Len(gone) = m /\ \A idx \in 1..m : gone[idx] = s[l - m + idx]
    <3>1. ASSUME NEW idx \in 1..m PROVE gone[idx] = s[l - m + idx]
      <4>1. idx \in 1..(l - (l - m + 1) + 1) /\ l - m + 1 + idx - 1 = l - m + idx
        BY <1>1
      <4>2. gone[idx] = s[l - m + 1 + idx - 1]
        BY <2>2, <4>1
      <4> QED
        BY <4>1, <4>2, Zenon
    <3>2. gone \in Seq(Keys) /\ Len(gone) = m
      <4>1. /\ gone \in Seq(Keys)
            /\ Len(gone) = IF l - m + 1 <= l THEN l - (l - m + 1) + 1 ELSE 0
        BY <2>2
      <4> HIDE DEF gone
      <4> QED
        BY <1>1, <4>1
    <3> QED
      BY <3>1, <3>2
  <2> QED
    BY <2>3, <2>4, <2>5
<1>3. ASSUME n = 0 PROVE t = s /\ u = <<>>
  <2>1. u = <<>>
    BY <1>2, <1>3, EmptySeq
  <2>2. t = SubSeq(s, 1, Len(s))
    BY <1>1, <1>3 DEF KeepFirst
  <2> QED
    BY <2>1, <2>2, SubSeqFull
<1>4. ASSUME n < l
      PROVE  /\ Front(t) = KeepFirst(s, n + 1)
             /\ Last(t) \in Keys
             /\ <<Last(t)>> \o u = LeastRecent(s, n + 1)
  <2>1. n + 1 \in 0..l /\ l - n \in 1..l /\ l - (n + 1) = l - n - 1
    BY <1>1, <1>4
  <2> DEFINE a == KeepFirst(s, n + 1)
             d == LeastRecent(s, n + 1)
             c == <<Last(t)>> \o u
  <2>2. /\ t \in Seq(Keys) /\ Len(t) = l - n /\ \A idx \in 1..(l - n) : t[idx] = s[idx]
        /\ u \in Seq(Keys) /\ Len(u) = n /\ \A idx \in 1..n : u[idx] = s[l - n + idx]
        /\ a \in Seq(Keys) /\ Len(a) = l - n - 1 /\ \A idx \in 1..(l - n - 1) : a[idx] = s[idx]
        /\ d \in Seq(Keys) /\ Len(d) = n + 1 /\ \A idx \in 1..(n + 1) : d[idx] = s[l - n - 1 + idx]
    <3>1. /\ t \in Seq(Keys) /\ Len(t) = l - n /\ \A idx \in 1..(l - n) : t[idx] = s[idx]
          /\ u \in Seq(Keys) /\ Len(u) = n /\ \A idx \in 1..n : u[idx] = s[l - n + idx]
      BY <1>2
    <3>2. /\ a \in Seq(Keys) /\ Len(a) = l - (n + 1) /\ \A idx \in 1..(l - (n + 1)) : a[idx] = s[idx]
          /\ d \in Seq(Keys) /\ Len(d) = n + 1
          /\ \A idx \in 1..(n + 1) : d[idx] = s[l - (n + 1) + idx]
      BY <1>2, <2>1
    <3> HIDE DEF t, u, a, d, l
    <3> QED
      BY <2>1, <3>1, <3>2
  <2> HIDE DEF t, u, a, d, l
  <2>3. Last(t) = s[l - n] /\ Last(t) \in Keys
    BY <1>1, <2>1, <2>2 DEF Last
  <2>4. Front(t) = a
    <3>1. Front(t) = SubSeq(t, 1, l - n - 1)
      BY <2>2 DEF Front
    <3>2. ASSUME NEW idx \in 1..(l - n - 1) PROVE t[idx] \in Keys
      <4>1. idx \in 1..(l - n) /\ idx \in 1..l
        BY <1>1, <2>1
      <4>2. s[idx] \in Keys
        BY <1>1, <4>1
      <4> QED
        BY <2>2, <4>1, <4>2
    <3>3. /\ Front(t) \in Seq(Keys)
          /\ Len(Front(t)) = IF 1 <= l - n - 1 THEN l - n - 1 - 1 + 1 ELSE 0
          /\ \A idx \in 1..(l - n - 1 - 1 + 1) : Front(t)[idx] = t[1 + idx - 1]
      BY <1>1, <2>1, <3>1, <3>2, SubSeqProperties
    <3>4. /\ (IF 1 <= l - n - 1 THEN l - n - 1 - 1 + 1 ELSE 0) = l - n - 1
          /\ l - n - 1 - 1 + 1 = l - n - 1 /\ \A idx \in Int : 1 + idx - 1 = idx
      BY <1>1, <2>1
    <3>5. Len(Front(t)) = Len(a) /\ \A idx \in 1..(l - n - 1) : Front(t)[idx] = t[idx]
      BY <2>2, <3>3, <3>4
    <3>6. ASSUME NEW idx \in 1..(l - n - 1) PROVE Front(t)[idx] = a[idx]
      <4>1. idx \in 1..(l - n)
        BY <1>1, <2>1
      <4>2. Front(t)[idx] = t[idx]
        BY <3>5
      <4>3. t[idx] = s[idx] /\ a[idx] = s[idx]
        BY <2>2, <4>1
      <4> QED
        BY <4>2, <4>3, Zenon
    <3>7. Len(Front(t)) = l - n - 1
      BY <2>2, <3>5
    <3>8. \A idx \in 1..Len(Front(t)) : Front(t)[idx] = a[idx]
      BY <3>6, <3>7, Zenon
    <3> QED
      BY <2>2, <3>3, <3>5, <3>8, SeqEqual
  <2>5. c = d
    <3> DEFINE fn == <<Last(t)>>
    <3>1. fn \in Seq(Keys) /\ Len(fn) = 1 /\ fn[1] = s[l - n]
      BY <2>3
    <3> HIDE DEF fn
    <3>2. /\ c \in Seq(Keys) /\ Len(c) = 1 + n
          /\ \A idx \in 1..(1 + n) : c[idx] = IF idx <= 1 THEN fn[idx] ELSE u[idx - 1]
      <4>1. u \in Seq(Keys) /\ Len(u) = n /\ c = fn \o u
        BY <2>2 DEF fn
      <4> HIDE DEF c
      <4>2. /\ fn \o u \in Seq(Keys) /\ Len(fn \o u) = Len(fn) + Len(u)
            /\ \A idx \in 1..(Len(fn) + Len(u)) :
                 (fn \o u)[idx] = IF idx <= Len(fn) THEN fn[idx] ELSE u[idx - Len(fn)]
        BY <3>1, <4>1, ConcatProperties
      <4> QED
        BY <3>1, <4>1, <4>2
    <3> HIDE DEF c
    <3>3. ASSUME NEW idx \in 1..(n + 1) PROVE c[idx] = d[idx]
      <4>1. d[idx] = s[l - n - 1 + idx]
        BY <2>2
      <4>2. CASE idx = 1
        <5>1. l - n - 1 + idx = l - n
          BY <1>1, <4>2
        <5> QED
          BY <3>1, <3>2, <4>1, <4>2, <5>1
      <4>3. CASE idx # 1
        <5>1. idx - 1 \in 1..n /\ ~(idx <= 1) /\ l - n + (idx - 1) = l - n - 1 + idx
          BY <1>1, <4>3
        <5> QED
          <6>1. idx \in 1..(1 + n)
            BY <2>2
          <6>2. c[idx] = u[idx - 1]
            BY <3>2, <5>1, <6>1
          <6>3. u[idx - 1] = s[l - n + (idx - 1)]
            BY <2>2, <5>1
          <6> QED
            BY <4>1, <5>1, <6>2, <6>3
      <4> QED
        BY <4>2, <4>3
    <3>4. Len(c) = Len(d) /\ Len(c) = n + 1
      BY <1>1, <2>2, <3>2
    <3>5. \A idx \in 1..Len(c) : c[idx] = d[idx]
      BY <3>3, <3>4, Zenon
    <3> QED
      BY <2>2, <3>2, <3>4, <3>5, SeqEqual
  <2> QED
    BY <2>3, <2>4, <2>5 DEF a, c, d
<1> QED
  BY <1>1, <1>2, <1>3, <1>4

\* One list of the four replaced.
Lists(a, b, c, d) == [mru |-> a, mfu |-> b, mrug |-> c, mfug |-> d]

LEMMA OneReplaced ==
  ASSUME NEW a, NEW b, NEW c, NEW d, NEW w, NEW M, M = Lists(a, b, c, d)
  PROVE  /\ M["mru"] = a /\ M["mfu"] = b /\ M["mrug"] = c /\ M["mfug"] = d
         /\ [M EXCEPT !["mru"] = w] = Lists(w, b, c, d)
         /\ [M EXCEPT !["mfu"] = w] = Lists(a, w, c, d)
         /\ [M EXCEPT !["mrug"] = w] = Lists(a, b, w, d)
         /\ [M EXCEPT !["mfug"] = w] = Lists(a, b, c, w)
<1>1. M["mru"] = a /\ M["mfu"] = b /\ M["mrug"] = c /\ M["mfug"] = d
  BY DEF Lists
<1>2. [M EXCEPT !["mru"] = w] = Lists(w, b, c, d)
  BY DEF Lists
<1>3. [M EXCEPT !["mfu"] = w] = Lists(a, w, c, d)
  BY DEF Lists
<1>4. [M EXCEPT !["mrug"] = w] = Lists(a, b, w, d)
  BY DEF Lists
<1>5. [M EXCEPT !["mfug"] = w] = Lists(a, b, c, w)
  BY DEF Lists
<1> QED
  BY <1>1, <1>2, <1>3, <1>4, <1>5

OnTop(k, s) == <<k>> \o s

\* An object moves from a resident list to its ghosts.
LEMMA Shifted ==
  ASSUME NEW a, NEW b, NEW c, NEW d, NEW M, M = Lists(a, b, c, d)
  PROVE  /\ Shift(M, "mru", "mrug") = Lists(Front(a), b, OnTop(Last(a), c), d)
         /\ Shift(M, "mfu", "mfug") = Lists(a, Front(b), c, OnTop(Last(b), d))
<1>1. /\ M["mru"] = a /\ [M EXCEPT !["mru"] = Front(a)] = Lists(Front(a), b, c, d)
      /\ M["mfu"] = b /\ [M EXCEPT !["mfu"] = Front(b)] = Lists(a, Front(b), c, d)
  BY OneReplaced
<1>2. ASSUME NEW k, NEW N, N = Lists(Front(a), b, c, d)
      PROVE  Prepend(N, "mrug", k) = Lists(Front(a), b, OnTop(k, c), d)
  <2>1. N["mrug"] = c
    BY <1>2, OneReplaced
  <2>2. PICK w : w = OnTop(k, N["mrug"])
    OBVIOUS
  <2>3. [N EXCEPT !["mrug"] = w] = Lists(Front(a), b, w, d)
    BY <1>2, OneReplaced
  <2>4. Prepend(N, "mrug", k) = [N EXCEPT !["mrug"] = w]
    BY <2>2 DEF Prepend, OnTop
  <2> QED
    BY <2>1, <2>2, <2>3, <2>4, Zenon
<1>3. ASSUME NEW k, NEW N, N = Lists(a, Front(b), c, d)
      PROVE  Prepend(N, "mfug", k) = Lists(a, Front(b), c, OnTop(k, d))
  <2>1. N["mfug"] = d
    BY <1>3, OneReplaced
  <2>2. PICK w : w = OnTop(k, N["mfug"])
    OBVIOUS
  <2>3. [N EXCEPT !["mfug"] = w] = Lists(a, Front(b), c, w)
    BY <1>3, OneReplaced
  <2>4. Prepend(N, "mfug", k) = [N EXCEPT !["mfug"] = w]
    BY <2>2 DEF Prepend, OnTop
  <2> QED
    BY <2>1, <2>2, <2>3, <2>4, Zenon
<1>4. Shift(M, "mru", "mrug") = Prepend(Lists(Front(a), b, c, d), "mrug", Last(a))
  BY <1>1, Zenon DEF Shift
<1>5. Shift(M, "mfu", "mfug") = Prepend(Lists(a, Front(b), c, d), "mfug", Last(b))
  BY <1>1, Zenon DEF Shift
<1> QED
  BY <1>2, <1>3, <1>4, <1>5

Moves(a, b, c, d) ==
  /\ Shift(Lists(a, b, c, d), "mru", "mrug") = Lists(Front(a), b, OnTop(Last(a), c), d)
  /\ Shift(Lists(a, b, c, d), "mfu", "mfug") = Lists(a, Front(b), c, OnTop(Last(b), d))

LEMMA ShiftedLists ==
  ASSUME NEW a, NEW b, NEW c, NEW d
  PROVE  Moves(a, b, c, d)
<1>1. PICK M : M = Lists(a, b, c, d)
  OBVIOUS
<1> QED
  BY <1>1, Shifted DEF Moves

\* The lists when r objects have been evicted from mru and f from mfu.
Evicting(L, r, f) ==
  Lists(KeepFirst(L.mru, r), KeepFirst(L.mfu, f),
        LeastRecent(L.mru, r) \o L.mrug, LeastRecent(L.mfu, f) \o L.mfug)

LEMMA PutInFront ==
  ASSUME NEW k \in Keys, NEW u \in Seq(Keys), NEW v \in Seq(Keys)
  PROVE  OnTop(k, u \o v) = OnTop(k, u) \o v
<1> DEFINE fn == <<k>>
<1>1. fn \in Seq(Keys)
  OBVIOUS
<1> HIDE DEF fn
<1>2. (fn \o u) \o v = fn \o (u \o v)
  BY <1>1, ConcatAssociative
<1> QED
  BY <1>2 DEF fn, OnTop

\* A turn of the first loop.
LEMMA EvictTurn ==
  ASSUME NEW L, Fine(L), NEW q \in 0..Capacity,
         NEW r \in 0..Len(L.mru), NEW f \in 0..Len(L.mfu)
  PROVE  EvictOne(Evicting(L, r, f), q) =
           IF Len(L.mru) - r + (Len(L.mfu) - f) <= Slots - 1 THEN Evicting(L, r, f)
           ELSE IF Len(L.mru) - r > Target(q) THEN Evicting(L, r + 1, f)
           ELSE IF Len(L.mfu) - f > 0 THEN Evicting(L, r, f + 1)
           ELSE Evicting(L, r, f)
<1>0. PICK E : E = Evicting(L, r, f)
  OBVIOUS
<1>1. /\ L.mru \in Seq(Keys) /\ L.mfu \in Seq(Keys)
      /\ L.mrug \in Seq(Keys) /\ L.mfug \in Seq(Keys)
  BY FourLists
<1>2. PICK x \in Nat, y \in Nat :
        x = Len(L.mru) - r /\ y = Len(L.mfu) - f
        /\ (x > 0 => r < Len(L.mru)) /\ (y > 0 => f < Len(L.mfu))
  <2>1. Len(L.mru) \in Nat /\ Len(L.mfu) \in Nat
    BY <1>1, LenProperties
  <2>2. /\ Len(L.mru) - r \in Nat /\ (Len(L.mru) - r > 0 => r < Len(L.mru))
        /\ Len(L.mfu) - f \in Nat /\ (Len(L.mfu) - f > 0 => f < Len(L.mfu))
    BY <2>1
  <2> QED
    BY <2>2
<1>3. Slots \in Nat /\ Target(q) \in Nat /\ q \in Nat /\ Capacity \in Nat
  BY TargetInSlots, ArcAssumption
<1>4. Len(E.mru) = x /\ Len(E.mfu) = y
  BY <1>0, <1>1, <1>2, OneMore DEF Evicting, Lists
<1>5. /\ Bytes(E.mru) = ObjectSize * x /\ Bytes(E.mfu) = ObjectSize * y
      /\ Bytes(E.mru) + Bytes(E.mfu) + ObjectSize = ObjectSize * (x + y + 1)
  <2>1. Bytes(E.mru) = ObjectSize * x /\ Bytes(E.mfu) = ObjectSize * y
    BY <1>4 DEF Bytes
  <2>2. ObjectSize * x + ObjectSize * y + ObjectSize = ObjectSize * (x + y + 1)
    BY ArcAssumption
  <2> QED
    BY <2>1, <2>2
<1>6. /\ Bytes(E.mru) + Bytes(E.mfu) + ObjectSize <= Capacity <=> x + y <= Slots - 1
      /\ Bytes(E.mru) > q <=> x > Target(q)
      /\ Bytes(E.mfu) > 0 <=> y > 0
  <2>1. /\ x + y + 1 \in Nat
        /\ x + y + 1 <= Slots <=> x + y <= Slots - 1
    BY <1>3
  <2>2. ObjectSize * (x + y + 1) <= Capacity <=> x + y + 1 <= Slots
    BY <1>3, <2>1, InObjects DEF Slots
  <2>3. ObjectSize * x <= q <=> x <= Target(q)
    BY <1>3, InObjects DEF Target
  <2>4. ObjectSize * y <= 0 <=> y <= 0
    <3>1. 0 \in Nat /\ 0 \div ObjectSize = 0
      BY ArcAssumption
    <3> QED
      BY <3>1, InObjects
  <2>5. ObjectSize * x \in Int /\ ObjectSize * y \in Int
    BY ArcAssumption
  <2> QED
    <3>1. Bytes(E.mru) + Bytes(E.mfu) + ObjectSize <= Capacity <=> x + y <= Slots - 1
      BY <1>5, <2>1, <2>2
    <3>2. Bytes(E.mru) > q <=> x > Target(q)
      BY <1>3, <1>5, <2>3, <2>5
    <3>3. Bytes(E.mfu) > 0 <=> y > 0
      BY <1>3, <1>5, <2>4, <2>5
    <3> QED
      BY <3>1, <3>2, <3>3
<1>7. ASSUME x > 0 PROVE Shift(E, "mru", "mrug") = Evicting(L, r + 1, f)
  <2>1. /\ Front(KeepFirst(L.mru, r)) = KeepFirst(L.mru, r + 1)
        /\ Last(KeepFirst(L.mru, r)) \in Keys
        /\ OnTop(Last(KeepFirst(L.mru, r)), LeastRecent(L.mru, r)) = LeastRecent(L.mru, r + 1)
        /\ LeastRecent(L.mru, r) \in Seq(Keys)
    BY <1>1, <1>2, <1>7, OneMore DEF OnTop
  <2>2. OnTop(Last(KeepFirst(L.mru, r)), LeastRecent(L.mru, r) \o L.mrug)
          = LeastRecent(L.mru, r + 1) \o L.mrug
    <3> DEFINE k == Last(KeepFirst(L.mru, r))
               u == LeastRecent(L.mru, r)
    <3>1. k \in Keys /\ u \in Seq(Keys) /\ OnTop(k, u) = LeastRecent(L.mru, r + 1)
      BY <2>1
    <3> HIDE DEF k, u
    <3>2. OnTop(k, u \o L.mrug) = OnTop(k, u) \o L.mrug
      BY <1>1, <3>1, PutInFront
    <3> QED
      BY <3>1, <3>2, Zenon DEF k, u
  <2>3. Shift(E, "mru", "mrug")
          = Lists(Front(KeepFirst(L.mru, r)), KeepFirst(L.mfu, f),
                  OnTop(Last(KeepFirst(L.mru, r)), LeastRecent(L.mru, r) \o L.mrug),
                  LeastRecent(L.mfu, f) \o L.mfug)
    <3>1. E = Lists(KeepFirst(L.mru, r), KeepFirst(L.mfu, f),
                    LeastRecent(L.mru, r) \o L.mrug, LeastRecent(L.mfu, f) \o L.mfug)
      BY <1>0 DEF Evicting
    <3>2. PICK a, b, c, d : /\ a = KeepFirst(L.mru, r) /\ b = KeepFirst(L.mfu, f)
                            /\ c = LeastRecent(L.mru, r) \o L.mrug
                            /\ d = LeastRecent(L.mfu, f) \o L.mfug
      OBVIOUS
    <3>3. Shift(Lists(a, b, c, d), "mru", "mrug") = Lists(Front(a), b, OnTop(Last(a), c), d)
      <4>1. Moves(a, b, c, d)
        BY ShiftedLists
      <4> QED
        BY <4>1, Zenon DEF Moves
    <3> QED
      BY <3>1, <3>2, <3>3, Zenon
  <2> QED
    BY <2>1, <2>2, <2>3, Zenon DEF Evicting
<1>8. ASSUME y > 0 PROVE Shift(E, "mfu", "mfug") = Evicting(L, r, f + 1)
  <2>1. /\ Front(KeepFirst(L.mfu, f)) = KeepFirst(L.mfu, f + 1)
        /\ Last(KeepFirst(L.mfu, f)) \in Keys
        /\ OnTop(Last(KeepFirst(L.mfu, f)), LeastRecent(L.mfu, f)) = LeastRecent(L.mfu, f + 1)
        /\ LeastRecent(L.mfu, f) \in Seq(Keys)
    BY <1>1, <1>2, <1>8, OneMore DEF OnTop
  <2>2. OnTop(Last(KeepFirst(L.mfu, f)), LeastRecent(L.mfu, f) \o L.mfug)
          = LeastRecent(L.mfu, f + 1) \o L.mfug
    <3> DEFINE k == Last(KeepFirst(L.mfu, f))
               u == LeastRecent(L.mfu, f)
    <3>1. k \in Keys /\ u \in Seq(Keys) /\ OnTop(k, u) = LeastRecent(L.mfu, f + 1)
      BY <2>1
    <3> HIDE DEF k, u
    <3>2. OnTop(k, u \o L.mfug) = OnTop(k, u) \o L.mfug
      BY <1>1, <3>1, PutInFront
    <3> QED
      BY <3>1, <3>2, Zenon DEF k, u
  <2>3. Shift(E, "mfu", "mfug")
          = Lists(KeepFirst(L.mru, r), Front(KeepFirst(L.mfu, f)),
                  LeastRecent(L.mru, r) \o L.mrug,
                  OnTop(Last(KeepFirst(L.mfu, f)), LeastRecent(L.mfu, f) \o L.mfug))
    <3>1. E = Lists(KeepFirst(L.mru, r), KeepFirst(L.mfu, f),
                    LeastRecent(L.mru, r) \o L.mrug, LeastRecent(L.mfu, f) \o L.mfug)
      BY <1>0 DEF Evicting
    <3>2. PICK a, b, c, d : /\ a = KeepFirst(L.mru, r) /\ b = KeepFirst(L.mfu, f)
                            /\ c = LeastRecent(L.mru, r) \o L.mrug
                            /\ d = LeastRecent(L.mfu, f) \o L.mfug
      OBVIOUS
    <3>3. Shift(Lists(a, b, c, d), "mfu", "mfug") = Lists(a, Front(b), c, OnTop(Last(b), d))
      <4>1. Moves(a, b, c, d)
        BY ShiftedLists
      <4> QED
        BY <4>1, Zenon DEF Moves
    <3> QED
      BY <3>1, <3>2, <3>3, Zenon
  <2> QED
    BY <2>1, <2>2, <2>3, Zenon DEF Evicting
<1>9. x > Target(q) => x > 0
  BY <1>3
<1>10. EvictOne(E, q) =
         IF x + y <= Slots - 1 THEN E
         ELSE IF x > Target(q) THEN Evicting(L, r + 1, f)
         ELSE IF y > 0 THEN Evicting(L, r, f + 1)
         ELSE E
  BY <1>6, <1>7, <1>8, <1>9 DEF EvictOne
<1> QED
  BY <1>0, <1>2, <1>10

\* Two functions that agree at 0 and on every next turn agree at the end.
LEMMA TurnsUnequal ==
  ASSUME NEW turns \in Nat, NEW fn, NEW g, NEW T, T = {n \in 0..turns : fn[n] # g[n]}
  PROVE  T \in SUBSET Nat /\ \A n : n \in T <=> n \in 0..turns /\ fn[n] # g[n]
<1>1. T \in SUBSET Nat
  OBVIOUS
<1>2. \A n : n \in T <=> n \in 0..turns /\ fn[n] # g[n]
  OBVIOUS
<1> QED
  BY <1>1, <1>2

LEMMA TurnByTurn ==
  ASSUME NEW turns \in Nat, NEW fn, NEW g, fn[0] = g[0],
         \A n \in 1..turns : fn[n - 1] = g[n - 1] => fn[n] = g[n]
  PROVE  fn[turns] = g[turns]
<1>1. PICK T : T = {n \in 0..turns : fn[n] # g[n]}
  OBVIOUS
<1>2. T \in SUBSET Nat /\ \A n : n \in T <=> n \in 0..turns /\ fn[n] # g[n]
  BY <1>1, TurnsUnequal
<1>3. ASSUME T # {} PROVE FALSE
  <2>1. PICK n \in T : \A m \in T : n <= m
    BY <1>2, <1>3, SmallestOne
  <2>2. n \in 0..turns /\ fn[n] # g[n]
    BY <1>2
  <2>3. n # 0
    BY <2>2
  <2>4. n \in 1..turns /\ n - 1 \in 0..turns /\ ~(n <= n - 1)
    BY <2>2, <2>3
  <2>5. n - 1 \notin T
    BY <2>1, <2>4
  <2>6. fn[n - 1] = g[n - 1]
    BY <1>2, <2>4, <2>5
  <2> QED
    BY <2>2, <2>4, <2>6
<1>4. turns \in 0..turns
  OBVIOUS
<1> QED
  BY <1>2, <1>3, <1>4

LEMMA Numbered ==
  ASSUME NEW turns \in Nat
  PROVE  0 \in 0..turns /\ \A n \in 1..turns : n \in 0..turns /\ n # 0
OBVIOUS

\* A function that takes the turns is what the loop is defined by.
EvictsBy(fn, L, q, turns) ==
  fn = [n \in 0..turns |-> IF n = 0 THEN L ELSE EvictOne(fn[n - 1], q)]

LEMMA EvictTurns ==
  ASSUME NEW L, NEW q, NEW turns \in Nat, turns = Len(L.mru) + Len(L.mfu),
         NEW g, EvictsBy(g, L, q, turns)
  PROVE  EvictByLoop(L, q) = g[turns]
<1>1. PICK after : after = CHOOSE fn : EvictsBy(fn, L, q, turns)
  OBVIOUS
<1>2. EvictsBy(after, L, q, turns)
  BY <1>1, Zenon
<1>3. EvictByLoop(L, q) = after[turns]
  BY <1>1 DEF EvictByLoop, EvictsBy
<1>4. ASSUME NEW fn, EvictsBy(fn, L, q, turns)
      PROVE  fn[0] = L /\ \A n \in 1..turns : fn[n] = EvictOne(fn[n - 1], q)
  <2>1. \A n \in 0..turns : fn[n] = IF n = 0 THEN L ELSE EvictOne(fn[n - 1], q)
    BY <1>4, Zenon DEF EvictsBy
  <2>2. 0 \in 0..turns /\ \A n \in 1..turns : n \in 0..turns /\ n # 0
    BY Numbered
  <2> QED
    BY <2>1, <2>2, Zenon
<1>5. /\ after[0] = L /\ \A n \in 1..turns : after[n] = EvictOne(after[n - 1], q)
      /\ g[0] = L /\ \A n \in 1..turns : g[n] = EvictOne(g[n - 1], q)
  BY <1>2, <1>4
<1>6. \A n \in 1..turns : after[n - 1] = g[n - 1] => after[n] = g[n]
  BY <1>5, Zenon
<1>7. after[0] = g[0]
  BY <1>5, Zenon
<1>8. after[turns] = g[turns]
  BY <1>6, <1>7, TurnByTurn, Zenon
<1> QED
  BY <1>3, <1>8, Zenon

LEMMA EvictIsLoop ==
  ASSUME NEW L, Fine(L), NEW q \in 0..Capacity
  PROVE  Evict(L, q) = EvictByLoop(L, q)
<1>1. PICK x \in Nat, y \in Nat : x = Len(L.mru) /\ y = Len(L.mfu)
  BY FourLists
<1>2. PICK B \in Int : B = Slots - 1 /\ Slots \in Nat /\ Target(q) \in Nat
  BY TargetInSlots
<1> DEFINE r == FromFirst(x, y, Target(q), B)
           f == FromSecond(x, y, Target(q), B)
           R(n) == FirstAt(n, x, y, Target(q), B)
           F(n) == SecondAt(n, x, y, Target(q), B)
           g == [n \in 0..(x + y) |-> Evicting(L, R(n), F(n))]
<1>3. Evict(L, q) = Evicting(L, r, f)
  <2>1. x + y + 1 - Slots = x + y - B
    BY <1>2
  <2>2. r = AtMost(NonNeg(Len(L.mru) + Len(L.mfu) + 1 - Slots), NonNeg(Len(L.mru) - Target(q)))
    BY <1>1, <2>1 DEF FromFirst
  <2>3. f = AtMost(NonNeg(Len(L.mru) + Len(L.mfu) + 1 - Slots) - r, Len(L.mfu))
    BY <1>1, <2>1 DEF FromSecond
  <2> HIDE DEF r, f
  <2> QED
    BY <2>2, <2>3, Zenon DEF Evict, Evicting, Lists
<1>4. ASSUME NEW n \in Nat, NEW m \in Nat, m = n + 1
      PROVE  /\ r \in 0..x /\ f \in 0..y
             /\ R(n) \in 0..x /\ F(n) \in 0..y
             /\ n = 0 => R(n) = 0 /\ F(n) = 0
             /\ n >= r + f => R(n) = r /\ F(n) = f
             /\ IF x - R(n) + (y - F(n)) <= B THEN R(m) = R(n) /\ F(m) = F(n)
                ELSE IF x - R(n) > Target(q) THEN R(n) < x /\ R(m) = R(n) + 1 /\ F(m) = F(n)
                ELSE IF y - F(n) > 0 THEN R(m) = R(n) /\ F(m) = F(n) + 1
                ELSE R(m) = R(n) /\ F(m) = F(n)
  <2>1. TurnsRight(n, m, x, y, Target(q), B)
    BY <1>2, <1>4, TurnCounts
  <2> QED
    BY <2>1, Zenon DEF TurnsRight
<1> HIDE DEF r, f, R, F
<1>5. Evicting(L, R(0), F(0)) = L
  <2>1. R(0) = 0 /\ F(0) = 0
    BY <1>4
  <2>2. /\ L.mru \in Seq(Keys) /\ L.mfu \in Seq(Keys)
        /\ L.mrug \in Seq(Keys) /\ L.mfug \in Seq(Keys)
        /\ 0 \in 0..Len(L.mru) /\ 0 \in 0..Len(L.mfu)
    BY FourLists
  <2>3. /\ KeepFirst(L.mru, 0) = L.mru /\ LeastRecent(L.mru, 0) = <<>>
        /\ KeepFirst(L.mfu, 0) = L.mfu /\ LeastRecent(L.mfu, 0) = <<>>
    BY <2>2, OneMore
  <2>4. <<>> \o L.mrug = L.mrug /\ <<>> \o L.mfug = L.mfug
    BY <2>2, ConcatEmptySeq
  <2>5. L = [mru |-> L.mru, mfu |-> L.mfu, mrug |-> L.mrug, mfug |-> L.mfug]
    BY DEF Fine, ListNames
  <2> QED
    BY <2>1, <2>3, <2>4, <2>5, Zenon DEF Evicting, Lists
<1>6. ASSUME NEW n \in Nat, NEW m \in Nat, m = n + 1
      PROVE  Evicting(L, R(m), F(m)) = EvictOne(Evicting(L, R(n), F(n)), q)
  <2>1. PICK idx \in 0..x, j \in 0..y : idx = R(n) /\ j = F(n)
    BY <1>4, <1>6
  <2>2. EvictOne(Evicting(L, idx, j), q) =
          IF x - idx + (y - j) <= B THEN Evicting(L, idx, j)
          ELSE IF x - idx > Target(q) THEN Evicting(L, idx + 1, j)
          ELSE IF y - j > 0 THEN Evicting(L, idx, j + 1)
          ELSE Evicting(L, idx, j)
    BY <1>1, <1>2, EvictTurn
  <2>3. IF x - idx + (y - j) <= B THEN R(m) = idx /\ F(m) = j
        ELSE IF x - idx > Target(q) THEN R(m) = idx + 1 /\ F(m) = j
        ELSE IF y - j > 0 THEN R(m) = idx /\ F(m) = j + 1
        ELSE R(m) = idx /\ F(m) = j
    BY <1>4, <1>6, <2>1
  <2> QED
    BY <2>1, <2>2, <2>3
<1>7. EvictsBy(g, L, q, x + y)
  <2> SUFFICES ASSUME NEW n \in 0..(x + y)
               PROVE  Evicting(L, R(n), F(n)) = IF n = 0 THEN L ELSE EvictOne(g[n - 1], q)
    BY Zenon DEF EvictsBy
  <2>1. CASE n = 0
    BY <1>5, <2>1
  <2>2. CASE n # 0
    <3>1. PICK m \in Nat : m = n - 1 /\ m \in 0..(x + y) /\ n = m + 1
      BY <2>2
    <3>2. g[n - 1] = Evicting(L, R(m), F(m))
      BY <3>1, Zenon
    <3>3. Evicting(L, R(n), F(n)) = EvictOne(Evicting(L, R(m), F(m)), q)
      BY <1>6, <3>1
    <3> QED
      BY <2>2, <3>2, <3>3
  <2> QED
    BY <2>1, <2>2
<1> HIDE DEF g
<1>8. EvictByLoop(L, q) = g[x + y]
  <2>1. x + y \in Nat
    OBVIOUS
  <2>2. x + y = Len(L.mru) + Len(L.mfu)
    BY <1>1, Zenon
  <2> QED
    BY <1>7, <2>1, <2>2, EvictTurns, Zenon
<1>9. g[x + y] = Evicting(L, r, f)
  <2>1. R(x + y) = r /\ F(x + y) = f
    <3>1. x + y \in Nat
      OBVIOUS
    <3>2. r \in 0..x /\ f \in 0..y
      BY <1>4, <3>1
    <3>3. x + y >= r + f
      BY <3>2
    <3> QED
      BY <1>4, <3>1, <3>3
  <2>2. x + y \in 0..(x + y)
    OBVIOUS
  <2> QED
    BY <2>1, <2>2 DEF g
<1> QED
  BY <1>3, <1>8, <1>9

-----------------------------------------------------------------------------
\* The second loop, likewise: f objects have left mfug and r mrug.
Forgetting(L, f, r) ==
  Lists(L.mru, L.mfu, KeepFirst(L.mrug, r), KeepFirst(L.mfug, f))

LEMMA ListsOf ==
  ASSUME NEW a, NEW b, NEW c, NEW d, NEW M, M = Lists(a, b, c, d)
  PROVE  M.mru = a /\ M.mfu = b /\ M.mrug = c /\ M.mfug = d
BY DEF Lists

\* Either ghost list gives up its least recent object.
GivesUp(a, b, c, d) ==
  /\ [Lists(a, b, c, d) EXCEPT !.mfug = Front(@)] = Lists(a, b, c, Front(d))
  /\ [Lists(a, b, c, d) EXCEPT !.mrug = Front(@)] = Lists(a, b, Front(c), d)

LEMMA GivenUp ==
  ASSUME NEW a, NEW b, NEW c, NEW d
  PROVE  GivesUp(a, b, c, d)
<1>1. PICK M : M = Lists(a, b, c, d)
  OBVIOUS
<1>2. M["mrug"] = c /\ M["mfug"] = d
  BY <1>1, OneReplaced
<1>3. /\ [M EXCEPT !["mfug"] = Front(d)] = Lists(a, b, c, Front(d))
      /\ [M EXCEPT !["mrug"] = Front(c)] = Lists(a, b, Front(c), d)
  BY <1>1, OneReplaced
<1> QED
  BY <1>1, <1>2, <1>3 DEF GivesUp

LEMMA ForgetTurn ==
  ASSUME NEW L, Fine(L), NEW q \in 0..Capacity,
         NEW f \in 0..Len(L.mfug), NEW r \in 0..Len(L.mrug)
  PROVE  ForgetOne(Forgetting(L, f, r), q) =
           IF Len(L.mfug) - f + (Len(L.mrug) - r) <= Slots THEN Forgetting(L, f, r)
           ELSE IF Len(L.mfug) - f > Target(q) THEN Forgetting(L, f + 1, r)
           ELSE IF Len(L.mrug) - r > 0 THEN Forgetting(L, f, r + 1)
           ELSE Forgetting(L, f, r)
<1>0. PICK E : E = Forgetting(L, f, r)
  OBVIOUS
<1>1. L.mrug \in Seq(Keys) /\ L.mfug \in Seq(Keys)
  BY FourLists
<1>2. PICK x \in Nat, y \in Nat :
        x = Len(L.mfug) - f /\ y = Len(L.mrug) - r
        /\ (x > 0 => f < Len(L.mfug)) /\ (y > 0 => r < Len(L.mrug))
  <2>1. Len(L.mfug) \in Nat /\ Len(L.mrug) \in Nat
    BY <1>1, LenProperties
  <2>2. /\ Len(L.mfug) - f \in Nat /\ (Len(L.mfug) - f > 0 => f < Len(L.mfug))
        /\ Len(L.mrug) - r \in Nat /\ (Len(L.mrug) - r > 0 => r < Len(L.mrug))
    BY <2>1
  <2> QED
    BY <2>2
<1>3. Slots \in Nat /\ Target(q) \in Nat /\ q \in Nat /\ Capacity \in Nat
  BY TargetInSlots, ArcAssumption
<1>4. Len(E.mfug) = x /\ Len(E.mrug) = y
  BY <1>0, <1>1, <1>2, OneMore DEF Forgetting, Lists
<1>5. /\ Bytes(E.mfug) = ObjectSize * x /\ Bytes(E.mrug) = ObjectSize * y
      /\ Bytes(E.mrug) + Bytes(E.mfug) = ObjectSize * (x + y)
  <2>1. Bytes(E.mfug) = ObjectSize * x /\ Bytes(E.mrug) = ObjectSize * y
    BY <1>4 DEF Bytes
  <2>2. ObjectSize * y + ObjectSize * x = ObjectSize * (x + y)
    BY ArcAssumption
  <2> QED
    BY <2>1, <2>2
<1>6. /\ Bytes(E.mrug) + Bytes(E.mfug) <= Capacity <=> x + y <= Slots
      /\ Bytes(E.mfug) > q <=> x > Target(q)
      /\ Bytes(E.mrug) > 0 <=> y > 0
  <2>1. x + y \in Nat
    OBVIOUS
  <2>2. ObjectSize * (x + y) <= Capacity <=> x + y <= Slots
    BY <1>3, <2>1, InObjects DEF Slots
  <2>3. ObjectSize * x <= q <=> x <= Target(q)
    BY <1>3, InObjects DEF Target
  <2>4. ObjectSize * y <= 0 <=> y <= 0
    <3>1. 0 \in Nat /\ 0 \div ObjectSize = 0
      BY ArcAssumption
    <3> QED
      BY <3>1, InObjects
  <2>5. ObjectSize * x \in Int /\ ObjectSize * y \in Int
    BY ArcAssumption
  <2> QED
    BY <1>3, <1>5, <2>1, <2>2, <2>3, <2>4, <2>5
<1>7. GivesUp(L.mru, L.mfu, KeepFirst(L.mrug, r), KeepFirst(L.mfug, f))
  BY GivenUp
<1>8. ASSUME x > 0 PROVE [E EXCEPT !.mfug = Front(@)] = Forgetting(L, f + 1, r)
  <2>1. Front(KeepFirst(L.mfug, f)) = KeepFirst(L.mfug, f + 1)
    BY <1>1, <1>2, <1>8, OneMore
  <2>2. [E EXCEPT !.mfug = Front(@)]
          = Lists(L.mru, L.mfu, KeepFirst(L.mrug, r), Front(KeepFirst(L.mfug, f)))
    BY <1>0, <1>7 DEF Forgetting, GivesUp
  <2> QED
    BY <2>1, <2>2, Zenon DEF Forgetting
<1>9. ASSUME y > 0 PROVE [E EXCEPT !.mrug = Front(@)] = Forgetting(L, f, r + 1)
  <2>1. Front(KeepFirst(L.mrug, r)) = KeepFirst(L.mrug, r + 1)
    BY <1>1, <1>2, <1>9, OneMore
  <2>2. [E EXCEPT !.mrug = Front(@)]
          = Lists(L.mru, L.mfu, Front(KeepFirst(L.mrug, r)), KeepFirst(L.mfug, f))
    BY <1>0, <1>7 DEF Forgetting, GivesUp
  <2> QED
    BY <2>1, <2>2, Zenon DEF Forgetting
<1>10. x > Target(q) => x > 0
  BY <1>3
<1>11. ForgetOne(E, q) =
         IF x + y <= Slots THEN E
         ELSE IF x > Target(q) THEN Forgetting(L, f + 1, r)
         ELSE IF y > 0 THEN Forgetting(L, f, r + 1)
         ELSE E
  BY <1>6, <1>8, <1>9, <1>10 DEF ForgetOne
<1> QED
  BY <1>0, <1>2, <1>11

ForgetsBy(fn, L, q, turns) ==
  fn = [n \in 0..turns |-> IF n = 0 THEN L ELSE ForgetOne(fn[n - 1], q)]

LEMMA ForgetTurns ==
  ASSUME NEW L, NEW q, NEW turns \in Nat, turns = Len(L.mrug) + Len(L.mfug),
         NEW g, ForgetsBy(g, L, q, turns)
  PROVE  ForgetByLoop(L, q) = g[turns]
<1>1. PICK after : after = CHOOSE fn : ForgetsBy(fn, L, q, turns)
  OBVIOUS
<1>2. ForgetsBy(after, L, q, turns)
  BY <1>1, Zenon
<1>3. ForgetByLoop(L, q) = after[turns]
  BY <1>1 DEF ForgetByLoop, ForgetsBy
<1>4. ASSUME NEW fn, ForgetsBy(fn, L, q, turns)
      PROVE  fn[0] = L /\ \A n \in 1..turns : fn[n] = ForgetOne(fn[n - 1], q)
  <2>1. \A n \in 0..turns : fn[n] = IF n = 0 THEN L ELSE ForgetOne(fn[n - 1], q)
    BY <1>4, Zenon DEF ForgetsBy
  <2>2. 0 \in 0..turns /\ \A n \in 1..turns : n \in 0..turns /\ n # 0
    BY Numbered
  <2> QED
    BY <2>1, <2>2, Zenon
<1>5. /\ after[0] = L /\ \A n \in 1..turns : after[n] = ForgetOne(after[n - 1], q)
      /\ g[0] = L /\ \A n \in 1..turns : g[n] = ForgetOne(g[n - 1], q)
  BY <1>2, <1>4
<1>6. \A n \in 1..turns : after[n - 1] = g[n - 1] => after[n] = g[n]
  BY <1>5, Zenon
<1>7. after[0] = g[0]
  BY <1>5, Zenon
<1>8. after[turns] = g[turns]
  BY <1>6, <1>7, TurnByTurn, Zenon
<1> QED
  BY <1>3, <1>8, Zenon

LEMMA ForgetIsLoop ==
  ASSUME NEW L, Fine(L), NEW q \in 0..Capacity
  PROVE  Forget(L, q) = ForgetByLoop(L, q)
<1>1. PICK x \in Nat, y \in Nat : x = Len(L.mfug) /\ y = Len(L.mrug)
  BY FourLists
<1>2. PICK B \in Int : B = Slots /\ Slots \in Nat /\ Target(q) \in Nat
  BY TargetInSlots
<1> DEFINE f == FromFirst(x, y, Target(q), B)
           r == FromSecond(x, y, Target(q), B)
           F(n) == FirstAt(n, x, y, Target(q), B)
           R(n) == SecondAt(n, x, y, Target(q), B)
           g == [n \in 0..(x + y) |-> Forgetting(L, F(n), R(n))]
<1>3. L = Lists(L.mru, L.mfu, L.mrug, L.mfug)
  BY DEF Fine, ListNames, Lists
<1>4. Forget(L, q) = Forgetting(L, f, r)
  <2>1. Len(L.mrug) + Len(L.mfug) - Slots = x + y - B
    <3>1. y + x - B = x + y - B
      OBVIOUS
    <3> QED
      BY <1>1, <1>2, <3>1, Zenon
  <2>2. f = AtMost(NonNeg(Len(L.mrug) + Len(L.mfug) - Slots), NonNeg(Len(L.mfug) - Target(q)))
    BY <1>1, <2>1 DEF FromFirst
  <2>3. r = AtMost(NonNeg(Len(L.mrug) + Len(L.mfug) - Slots) - f, Len(L.mrug))
    BY <1>1, <2>1 DEF FromSecond
  <2> HIDE DEF r, f
  <2>4. Forget(L, q) = [L EXCEPT !.mrug = KeepFirst(@, r), !.mfug = KeepFirst(@, f)]
    BY <2>2, <2>3, Zenon DEF Forget
  <2>5. PICK v, w : v = KeepFirst(L.mrug, r) /\ w = KeepFirst(L.mfug, f)
    OBVIOUS
  <2>6. Forget(L, q) = [[L EXCEPT !["mrug"] = v] EXCEPT !["mfug"] = w]
    BY <2>4, <2>5
  <2>7. [L EXCEPT !["mrug"] = v] = Lists(L.mru, L.mfu, v, L.mfug)
    BY <1>3, OneReplaced
  <2>8. [[L EXCEPT !["mrug"] = v] EXCEPT !["mfug"] = w] = Lists(L.mru, L.mfu, v, w)
    <3>1. PICK M, a, b, d : /\ M = [L EXCEPT !["mrug"] = v]
                            /\ a = L.mru /\ b = L.mfu /\ d = L.mfug
      OBVIOUS
    <3>2. M = Lists(a, b, v, d)
      BY <2>7, <3>1, Zenon
    <3>3. [M EXCEPT !["mfug"] = w] = Lists(a, b, v, w)
      BY <3>2, OneReplaced
    <3> QED
      BY <3>1, <3>3, Zenon
  <2> QED
    BY <2>5, <2>6, <2>8, Zenon DEF Forgetting
<1>5. ASSUME NEW n \in Nat, NEW m \in Nat, m = n + 1
      PROVE  /\ f \in 0..x /\ r \in 0..y
             /\ F(n) \in 0..x /\ R(n) \in 0..y
             /\ n = 0 => F(n) = 0 /\ R(n) = 0
             /\ n >= f + r => F(n) = f /\ R(n) = r
             /\ IF x - F(n) + (y - R(n)) <= B THEN F(m) = F(n) /\ R(m) = R(n)
                ELSE IF x - F(n) > Target(q) THEN F(n) < x /\ F(m) = F(n) + 1 /\ R(m) = R(n)
                ELSE IF y - R(n) > 0 THEN F(m) = F(n) /\ R(m) = R(n) + 1
                ELSE F(m) = F(n) /\ R(m) = R(n)
  <2>1. TurnsRight(n, m, x, y, Target(q), B)
    BY <1>2, <1>5, TurnCounts
  <2> QED
    BY <2>1, Zenon DEF TurnsRight
<1> HIDE DEF f, r, F, R
<1>6. Forgetting(L, F(0), R(0)) = L
  <2>1. F(0) = 0 /\ R(0) = 0
    BY <1>5
  <2>2. /\ L.mrug \in Seq(Keys) /\ L.mfug \in Seq(Keys)
        /\ 0 \in 0..Len(L.mrug) /\ 0 \in 0..Len(L.mfug)
    BY FourLists
  <2>3. KeepFirst(L.mrug, 0) = L.mrug /\ KeepFirst(L.mfug, 0) = L.mfug
    BY <2>2, OneMore
  <2> QED
    BY <1>3, <2>1, <2>3, Zenon DEF Forgetting
<1>7. ASSUME NEW n \in Nat, NEW m \in Nat, m = n + 1
      PROVE  Forgetting(L, F(m), R(m)) = ForgetOne(Forgetting(L, F(n), R(n)), q)
  <2>1. PICK idx \in 0..x, j \in 0..y : idx = F(n) /\ j = R(n)
    BY <1>5, <1>7
  <2>2. ForgetOne(Forgetting(L, idx, j), q) =
          IF x - idx + (y - j) <= B THEN Forgetting(L, idx, j)
          ELSE IF x - idx > Target(q) THEN Forgetting(L, idx + 1, j)
          ELSE IF y - j > 0 THEN Forgetting(L, idx, j + 1)
          ELSE Forgetting(L, idx, j)
    BY <1>1, <1>2, ForgetTurn
  <2>3. IF x - idx + (y - j) <= B THEN F(m) = idx /\ R(m) = j
        ELSE IF x - idx > Target(q) THEN F(m) = idx + 1 /\ R(m) = j
        ELSE IF y - j > 0 THEN F(m) = idx /\ R(m) = j + 1
        ELSE F(m) = idx /\ R(m) = j
    BY <1>5, <1>7, <2>1
  <2> QED
    BY <2>1, <2>2, <2>3
<1>8. ForgetsBy(g, L, q, x + y)
  <2> SUFFICES ASSUME NEW n \in 0..(x + y)
               PROVE  Forgetting(L, F(n), R(n)) = IF n = 0 THEN L ELSE ForgetOne(g[n - 1], q)
    BY Zenon DEF ForgetsBy
  <2>1. CASE n = 0
    BY <1>6, <2>1
  <2>2. CASE n # 0
    <3>1. PICK m \in Nat : m = n - 1 /\ m \in 0..(x + y) /\ n = m + 1
      BY <2>2
    <3>2. g[n - 1] = Forgetting(L, F(m), R(m))
      BY <3>1, Zenon
    <3>3. Forgetting(L, F(n), R(n)) = ForgetOne(Forgetting(L, F(m), R(m)), q)
      BY <1>7, <3>1
    <3> QED
      BY <2>2, <3>2, <3>3
  <2> QED
    BY <2>1, <2>2
<1> HIDE DEF g
<1>9. ForgetByLoop(L, q) = g[x + y]
  <2>1. x + y \in Nat
    OBVIOUS
  <2>2. x + y = Len(L.mrug) + Len(L.mfug)
    <3>1. x + y = y + x
      OBVIOUS
    <3> QED
      BY <1>1, <3>1, Zenon
  <2> QED
    BY <1>8, <2>1, <2>2, ForgetTurns, Zenon
<1>10. g[x + y] = Forgetting(L, f, r)
  <2>1. F(x + y) = f /\ R(x + y) = r
    <3>1. x + y \in Nat
      OBVIOUS
    <3>2. f \in 0..x /\ r \in 0..y
      BY <1>5, <3>1
    <3>3. x + y >= f + r
      BY <3>2
    <3> QED
      BY <1>5, <3>1, <3>3
  <2>2. x + y \in 0..(x + y)
    OBVIOUS
  <2> QED
    BY <2>1, <2>2 DEF g
<1> QED
  BY <1>4, <1>9, <1>10

\* __arc_balance in closed form is what its two loops compute, whatever the
\* sizes of the cache and of its four lists (arc.c:170-200).
THEOREM BalanceTheorem == ArcSpec => []BalanceIsLoops
<1>1. ArcInv => BalanceIsLoops
  <2> SUFFICES ASSUME ArcInv, NEW q \in 0..Capacity
               PROVE  Balance(lists, q) = BalanceByLoops(lists, q)
    BY DEF BalanceIsLoops
  <2>1. Fine(lists)
    BY DEF ArcInv
  <2>2. Fine(Evict(lists, q))
    BY <2>1, Evicted
  <2>3. Evict(lists, q) = EvictByLoop(lists, q)
    BY <2>1, EvictIsLoop
  <2>4. Forget(Evict(lists, q), q) = ForgetByLoop(Evict(lists, q), q)
    BY <2>2, ForgetIsLoop
  <2> QED
    BY <2>3, <2>4, Zenon DEF Balance, BalanceByLoops
<1> QED
  BY <1>1, ArcInvariant, PTL

-----------------------------------------------------------------------------
\* Recursive functions.  A number of turns can be taken one after the other.
LEMMA TurnsTaken ==
  ASSUME NEW V, NEW s \in V, NEW m \in Nat, NEW F \in [1..m -> [V -> V]]
  PROVE  \E g \in [0..m -> V] : g[0] = s /\ \A n \in 1..m : g[n] = F[n][g[n - 1]]
<1> DEFINE Some(n) == \E g \in [0..n -> V] : g[0] = s /\ \A j \in 1..n : g[j] = F[j][g[j - 1]]
<1>1. PICK T : T = {n \in 0..m : Some(n)}
  OBVIOUS
<1>2. 0 \in T
  <2>1. PICK g : g = [j \in 0..0 |-> s]
    OBVIOUS
  <2>2. g \in [0..0 -> V] /\ g[0] = s /\ \A j \in 1..0 : g[j] = F[j][g[j - 1]]
    BY <2>1
  <2>3. Some(0)
    BY <2>2
  <2> QED
    BY <1>1, <2>3
<1>3. ASSUME NEW n \in 1..m, n - 1 \in T PROVE n \in T
  <2>1. PICK k \in Nat : n = k + 1 /\ k = n - 1 /\ k \in 0..m
    <3>1. n - 1 \in Nat /\ n = (n - 1) + 1 /\ n - 1 \in 0..m
      BY <1>3
    <3> QED
      BY <3>1
  <2>2. PICK g \in [0..k -> V] : g[0] = s /\ \A j \in 1..k : g[j] = F[j][g[j - 1]]
    BY <1>1, <1>3, <2>1
  <2>3. PICK r : r = F[n][g[k]]
    OBVIOUS
  <2>4. r \in V
    BY <2>1, <2>2, <2>3
  <2>5. PICK f : f = [j \in 0..n |-> IF j <= k THEN g[j] ELSE r]
    OBVIOUS
  <2>6. f \in [0..n -> V]
    <3>1. ASSUME NEW j \in 0..n PROVE (IF j <= k THEN g[j] ELSE r) \in V
      BY <2>1, <2>2, <2>4
    <3> QED
      BY <2>5, <3>1
  <2>7. f[0] = s
    BY <2>1, <2>2, <2>5
  <2>8. ASSUME NEW j \in 1..n PROVE f[j] = F[j][f[j - 1]]
    <3>1. CASE j <= k
      <4>1. j \in 1..k /\ j \in 0..n /\ j - 1 \in 0..n /\ j - 1 <= k
        BY <2>1, <3>1
      <4>2. f[j] = g[j] /\ f[j - 1] = g[j - 1]
        BY <2>5, <3>1, <4>1
      <4> QED
        BY <2>2, <4>1, <4>2
    <3>2. CASE ~(j <= k)
      <4>1. j = n /\ j - 1 = k /\ k \in 0..n /\ n \in 0..n /\ k <= k /\ ~(n <= k)
        BY <2>1, <3>2
      <4>2. f[n] = r /\ f[k] = g[k]
        BY <2>5, <4>1
      <4> QED
        BY <2>3, <4>1, <4>2
    <3> QED
      BY <3>1, <3>2
  <2>9. Some(n)
    BY <2>6, <2>7, <2>8
  <2> QED
    BY <1>1, <2>9
<1>4. m \in T
  <2>1. \A n \in 0..m : n \in T
    BY <1>2, <1>3, AllTurns
  <2> QED
    BY <2>1
<1> QED
  BY <1>1, <1>4

-----------------------------------------------------------------------------
\* Words.  Addition is the symmetric difference.
Words == SUBSET (0..Word - 1)

LEMMA Sizes ==
  /\ BlockSize \in Nat \ {0} /\ NWINDOW \in Nat \ {0} /\ ByteBits \in Nat \ {0}
  /\ Word \in Nat \ {0} /\ 1 < NWINDOW
  /\ Letters = SUBSET (0..ByteBits - 1)
  /\ irrpoly \in Words
BY RabinAssumption DEF Letters, Words

LEMMA XorWords == ASSUME NEW u \in Words, NEW v \in Words PROVE Xor(u, v) \in Words
BY DEF Words, Xor

LEMMA XorLaws ==
  ASSUME NEW u, NEW v, NEW w
  PROVE  /\ Xor(u, v) = Xor(v, u)
         /\ Xor(Xor(u, v), w) = Xor(u, Xor(v, w))
         /\ Xor(u, u) = {} /\ Xor(u, {}) = u
BY DEF Xor

\* The bits of a product with t.
LEMMA TimesTBits ==
  ASSUME NEW u \in Words
  PROVE  /\ TimesT(u) \in Words
         /\ \A e \in 0..Word - 1 :
              e \in TimesT(u) <=> ~((e - 1 \in u) <=> (Word - 1 \in u /\ e \in irrpoly))
<1>1. Shl(u, 1) \in Words
  BY DEF Shl, Words
<1>2. \A e \in 0..Word - 1 : e \in Shl(u, 1) <=> e - 1 \in u
  <2> SUFFICES ASSUME NEW e \in 0..Word - 1 PROVE e \in Shl(u, 1) <=> e - 1 \in u
    OBVIOUS
  <2>1. ASSUME e \in Shl(u, 1) PROVE e - 1 \in u
    <3>1. PICK d \in u : e = d + 1
      BY <2>1 DEF Shl
    <3>2. d \in Int
      BY Sizes DEF Words
    <3> QED
      BY <3>1, <3>2
  <2>2. ASSUME e - 1 \in u PROVE e \in Shl(u, 1)
    <3>1. (e - 1) + 1 = e
      OBVIOUS
    <3> QED
      BY <2>2, <3>1 DEF Shl
  <2> QED
    BY <2>1, <2>2
<1>3. TimesT(u) \in Words
  BY <1>1, XorWords, Sizes DEF TimesT
<1> QED
  BY <1>2, <1>3 DEF TimesT, Xor

LEMMA TimesTXor ==
  ASSUME NEW u \in Words, NEW v \in Words
  PROVE  TimesT(Xor(u, v)) = Xor(TimesT(u), TimesT(v))
<1>1. Xor(u, v) \in Words
  BY XorWords
<1>2. TimesT(u) \in Words /\ TimesT(v) \in Words /\ TimesT(Xor(u, v)) \in Words
  BY <1>1, TimesTBits
<1>3. Xor(TimesT(u), TimesT(v)) \in Words
  BY <1>2, XorWords
<1>4. ASSUME NEW e \in 0..Word - 1
      PROVE  e \in TimesT(Xor(u, v)) <=> e \in Xor(TimesT(u), TimesT(v))
  <2>1. /\ e \in TimesT(u) <=> ~((e - 1 \in u) <=> (Word - 1 \in u /\ e \in irrpoly))
        /\ e \in TimesT(v) <=> ~((e - 1 \in v) <=> (Word - 1 \in v /\ e \in irrpoly))
        /\ e \in TimesT(Xor(u, v)) <=>
             ~((e - 1 \in Xor(u, v)) <=> (Word - 1 \in Xor(u, v) /\ e \in irrpoly))
    BY <1>1, TimesTBits
  <2>2. \A d : d \in Xor(u, v) <=> ~(d \in u <=> d \in v)
    BY DEF Xor
  <2>3. e \in Xor(TimesT(u), TimesT(v)) <=> ~(e \in TimesT(u) <=> e \in TimesT(v))
    BY DEF Xor
  <2> QED
    BY <2>1, <2>2, <2>3
<1>5. TimesT(Xor(u, v)) \subseteq 0..Word - 1 /\ Xor(TimesT(u), TimesT(v)) \subseteq 0..Word - 1
  BY <1>2, <1>3 DEF Words
<1> QED
  BY <1>4, <1>5

-----------------------------------------------------------------------------
\* Products with powers of t.
TimesBy(g, u, n) == g = [m \in 0..n |-> IF m = 0 THEN u ELSE TimesT(g[m - 1])]

LEMMA TimesTurns ==
  ASSUME NEW u \in Words, NEW n \in Nat
  PROVE  \E g : /\ g[0] = u
                /\ \A m \in 1..n : g[m] = TimesT(g[m - 1])
                /\ Times(u, n) = g[n]
<1>1. PICK F : F = [m \in 1..n |-> [v \in Words |-> TimesT(v)]]
  OBVIOUS
<1>2. F \in [1..n -> [Words -> Words]]
  BY <1>1, TimesTBits
<1>3. PICK f \in [0..n -> Words] : f[0] = u /\ \A m \in 1..n : f[m] = F[m][f[m - 1]]
  BY <1>2, TurnsTaken
<1>4. ASSUME NEW m \in 0..n PROVE f[m] = IF m = 0 THEN u ELSE TimesT(f[m - 1])
  <2>1. CASE m = 0
    BY <1>3, <2>1
  <2>2. CASE m # 0
    <3>1. m \in 1..n /\ m - 1 \in 0..n
      BY <2>2
    <3>2. f[m - 1] \in Words /\ f[m] = F[m][f[m - 1]]
      BY <1>3, <3>1
    <3> QED
      BY <1>1, <2>2, <3>1, <3>2
  <2> QED
    BY <2>1, <2>2
<1>5. TimesBy(f, u, n)
  <2>1. f = [m \in 0..n |-> f[m]]
    BY <1>3
  <2>2. [m \in 0..n |-> f[m]] = [m \in 0..n |-> IF m = 0 THEN u ELSE TimesT(f[m - 1])]
    BY <1>4
  <2> QED
    BY <2>1, <2>2, Zenon DEF TimesBy
<1>6. PICK g : g = CHOOSE f0 : TimesBy(f0, u, n)
  OBVIOUS
<1>7. TimesBy(g, u, n)
  BY <1>5, <1>6, Zenon
<1>8. Times(u, n) = g[n]
  BY <1>6 DEF Times, TimesBy
<1>9. \A m \in 0..n : g[m] = IF m = 0 THEN u ELSE TimesT(g[m - 1])
  BY <1>7, Zenon DEF TimesBy
<1>10. 0 \in 0..n /\ \A m \in 1..n : m \in 0..n /\ m # 0
  OBVIOUS
<1>11. g[0] = u /\ \A m \in 1..n : g[m] = TimesT(g[m - 1])
  BY <1>9, <1>10, Zenon
<1> QED
  BY <1>8, <1>11, Zenon

LEMMA TimesNone == ASSUME NEW u \in Words PROVE Times(u, 0) = u
BY TimesTurns

LEMMA TimesStep ==
  ASSUME NEW u \in Words, NEW n \in Nat
  PROVE  Times(u, n + 1) = TimesT(Times(u, n))
<1>1. PICK m \in Nat : m = n + 1
  OBVIOUS
<1>2. PICK g : g[0] = u /\ (\A j \in 1..n : g[j] = TimesT(g[j - 1])) /\ Times(u, n) = g[n]
  BY TimesTurns
<1>3. PICK f : f[0] = u /\ (\A j \in 1..m : f[j] = TimesT(f[j - 1])) /\ Times(u, m) = f[m]
  BY TimesTurns
<1>4. PICK T : T = {j \in 0..n : f[j] = g[j]}
  OBVIOUS
<1>5. 0 \in T
  BY <1>2, <1>3, <1>4
<1>6. ASSUME NEW j \in 1..n, j - 1 \in T PROVE j \in T
  <2>1. j \in 1..m /\ f[j - 1] = g[j - 1]
    BY <1>1, <1>4, <1>6
  <2>2. f[j] = TimesT(f[j - 1]) /\ g[j] = TimesT(g[j - 1])
    BY <1>2, <1>3, <2>1
  <2>3. f[j] = g[j]
    BY <2>1, <2>2
  <2> QED
    BY <1>4, <2>3
<1>7. f[n] = g[n]
  <2>1. \A j \in 0..n : j \in T
    BY <1>5, <1>6, AllTurns
  <2> QED
    BY <1>4, <2>1
<1>8. m \in 1..m /\ m - 1 = n
  BY <1>1
<1> QED
  BY <1>1, <1>2, <1>3, <1>7, <1>8

LEMMA TimesWord ==
  ASSUME NEW u \in Words, NEW n \in Nat
  PROVE  Times(u, n) \in Words
<1>1. PICK T : T = {j \in 0..n : Times(u, j) \in Words}
  OBVIOUS
<1>2. 0 \in T
  BY <1>1, TimesNone
<1>3. ASSUME NEW j \in 1..n, j - 1 \in T PROVE j \in T
  <2>1. PICK k \in Nat : k = j - 1 /\ j = k + 1
    BY <1>3
  <2>2. Times(u, k) \in Words /\ Times(u, j) = TimesT(Times(u, k))
    BY <1>1, <1>3, <2>1, TimesStep
  <2> QED
    BY <1>1, <2>2, TimesTBits
<1>4. \A j \in 0..n : j \in T
  BY <1>2, <1>3, AllTurns
<1> QED
  BY <1>1, <1>4

LEMMA TimesXor ==
  ASSUME NEW u \in Words, NEW v \in Words, NEW n \in Nat
  PROVE  Times(Xor(u, v), n) = Xor(Times(u, n), Times(v, n))
<1>1. PICK T : T = {j \in 0..n : Times(Xor(u, v), j) = Xor(Times(u, j), Times(v, j))}
  OBVIOUS
<1>2. PICK w \in Words : w = Xor(u, v)
  BY XorWords
<1>3. 0 \in T
  BY <1>1, <1>2, TimesNone
<1>4. ASSUME NEW j \in 1..n, j - 1 \in T PROVE j \in T
  <2>1. PICK k \in Nat : k = j - 1 /\ j = k + 1
    BY <1>4
  <2>2. PICK x \in Words, y \in Words : x = Times(u, k) /\ y = Times(v, k)
    BY <2>1, TimesWord
  <2>3. Times(w, k) = Xor(x, y)
    BY <1>1, <1>2, <1>4, <2>1, <2>2
  <2>4. Times(u, j) = TimesT(x) /\ Times(v, j) = TimesT(y) /\ Times(w, j) = TimesT(Xor(x, y))
    BY <1>2, <2>1, <2>2, <2>3, TimesStep
  <2>5. Times(w, j) = Xor(Times(u, j), Times(v, j))
    BY <2>2, <2>4, TimesTXor
  <2> QED
    BY <1>1, <1>2, <2>5
<1>5. \A j \in 0..n : j \in T
  BY <1>3, <1>4, AllTurns
<1> QED
  BY <1>1, <1>5

LEMMA TimesPlus ==
  ASSUME NEW u \in Words, NEW m \in Nat, NEW n \in Nat
  PROVE  Times(Times(u, m), n) = Times(u, m + n)
<1>1. PICK v \in Words : v = Times(u, m)
  BY TimesWord
<1>2. PICK T : T = {j \in 0..n : Times(v, j) = Times(u, m + j)}
  OBVIOUS
<1>3. 0 \in T
  BY <1>1, <1>2, TimesNone
<1>4. ASSUME NEW j \in 1..n, j - 1 \in T PROVE j \in T
  <2>1. PICK k \in Nat : k = j - 1 /\ j = k + 1
    BY <1>4
  <2>2. PICK l \in Nat : l = m + k
    BY <2>1
  <2>3. l + 1 = m + j
    BY <2>1, <2>2
  <2>4. Times(v, k) = Times(u, l)
    BY <1>2, <1>4, <2>1, <2>2
  <2>5. Times(v, k + 1) = TimesT(Times(v, k)) /\ Times(u, l + 1) = TimesT(Times(u, l))
    BY TimesStep
  <2>6. Times(v, j) = Times(u, m + j)
    BY <2>1, <2>3, <2>4, <2>5
  <2> QED
    BY <1>2, <2>6
<1>5. \A j \in 0..n : j \in T
  BY <1>3, <1>4, AllTurns
<1> QED
  BY <1>1, <1>2, <1>5

\* A product that leaves the word nowhere is a shift.
LEMMA TimesShift ==
  ASSUME NEW u \in Words, NEW n \in Nat, \A e \in u : e + n < Word
  PROVE  Times(u, n) = {e + n : e \in u}
<1>1. PICK T : T = {j \in 0..n : Times(u, j) = {e + j : e \in u}}
  OBVIOUS
<1>2. \A e \in u : e \in Nat
  BY Sizes DEF Words
<1>3. 0 \in T
  <2>1. {e + 0 : e \in u} = u
    BY <1>2
  <2> QED
    BY <1>1, <2>1, TimesNone
<1>4. ASSUME NEW j \in 1..n, j - 1 \in T PROVE j \in T
  <2>1. PICK k \in Nat : k = j - 1 /\ j = k + 1 /\ k < n
    BY <1>4
  <2>2. PICK v : v = Times(u, k)
    OBVIOUS
  <2>3. v \in Words /\ v = {e + k : e \in u} /\ Times(u, j) = TimesT(v)
    BY <1>1, <1>4, <2>1, <2>2, TimesWord, TimesStep
  <2>4. Word - 1 \notin v
    <3>1. ASSUME NEW e \in u PROVE e + k # Word - 1
      BY <1>2, <2>1, Sizes
    <3> QED
      BY <2>3, <3>1
  <2>5. TimesT(v) = {d + 1 : d \in v} \cap 0..Word - 1
    BY <2>4 DEF TimesT, Shl
  <2>6. {d + 1 : d \in v} = {e + j : e \in u}
    <3>1. ASSUME NEW e \in u PROVE (e + k) + 1 = e + j
      BY <1>2, <2>1
    <3> QED
      BY <2>3, <3>1
  <2>7. {e + j : e \in u} \subseteq 0..Word - 1
    <3>1. ASSUME NEW e \in u PROVE e + j \in 0..Word - 1
      BY <1>2, <2>1, Sizes
    <3> QED
      BY <3>1
  <2>8. Times(u, j) = {e + j : e \in u}
    BY <2>3, <2>5, <2>6, <2>7
  <2> QED
    BY <1>1, <2>8
<1>5. \A j \in 0..n : j \in T
  BY <1>3, <1>4, AllTurns
<1> QED
  BY <1>1, <1>5

-----------------------------------------------------------------------------
\* Letters and words.
LEMMA Multiple ==
  ASSUME NEW a \in Nat, NEW d \in Nat \ {0}, a % d = 0
  PROVE  \E q \in Nat : a = d * q
<1>1. a = d * (a \div d) + (a % d) /\ a \div d \in Nat
  OBVIOUS
<1> QED
  BY <1>1

LEMMA LettersInWord ==
  /\ \E q \in Nat \ {0} : Word = ByteBits * q
  /\ ByteBits <= Word
  /\ Letters \subseteq Words
<1>1. Word \in Nat \ {0} /\ ByteBits \in Nat \ {0} /\ Word % ByteBits = 0
  BY RabinAssumption
<1>2. PICK q \in Nat : Word = ByteBits * q
  BY <1>1, Multiple
<1>3. q # 0
  BY <1>1, <1>2
<1>4. ByteBits <= Word
  <2>1. PICK r \in Nat : q = r + 1
    <3>1. q - 1 \in Nat /\ q = (q - 1) + 1
      BY <1>3
    <3> QED
      BY <3>1
  <2>2. Word = ByteBits * r + ByteBits /\ ByteBits * r \in Nat
    BY <1>1, <1>2, <2>1
  <2> QED
    BY <1>1, <2>2
<1> QED
  BY <1>1, <1>2, <1>3, <1>4, Sizes DEF Words

\* With the table the print is multiplied by t^ByteBits, and the letter comes
\* in behind.
LEMMA RollTimes ==
  ASSUME NEW u \in Words, NEW x \in Letters, rabintab = FpMkRedTab
  PROVE  Roll(u, x) = Xor(Times(u, ByteBits), x)
<1>1. PICK s \in Nat : s = Word - ByteBits /\ Word = s + ByteBits
  <2>1. Word - ByteBits \in Nat /\ Word = (Word - ByteBits) + ByteBits
    BY LettersInWord, Sizes
  <2> QED
    BY <2>1
<1>2. u \subseteq 0..Word - 1 /\ Word \in Nat /\ ByteBits \in Nat \ {0} /\ s <= Word
  BY <1>1, Sizes DEF Words
<1>3. PICK lo, hi, top : /\ lo = {e \in u : e < s} /\ top = {e \in u : s <= e}
                         /\ hi = Shr(u, s)
  OBVIOUS
<1>4. hi \in Letters
  <2>1. ASSUME NEW d \in u, d >= s PROVE d - s \in 0..ByteBits - 1
    BY <1>1, <1>2, <2>1
  <2>2. hi \subseteq 0..ByteBits - 1
    BY <1>3, <2>1 DEF Shr
  <2> QED
    BY <2>2, Sizes
<1>5. lo \in Words /\ top \in Words /\ hi \in Words
  BY <1>3, <1>4, LettersInWord DEF Words
<1>6. u = Xor(lo, top)
  <2>1. ASSUME NEW e \in u PROVE e < s <=> ~(s <= e)
    BY <1>2
  <2>2. lo \ top = lo /\ top \ lo = top /\ lo \cup top = u
    BY <1>3, <2>1
  <2> QED
    BY <2>2, Zenon DEF Xor
<1>7. Times(hi, s) = top
  <2>1. \A e \in hi : e + s < Word
    BY <1>1, <1>2, <1>4, Sizes
  <2>2. Times(hi, s) = {e + s : e \in hi}
    BY <1>5, <2>1, TimesShift
  <2>3. {e + s : e \in hi} = top
    <3>1. ASSUME NEW d \in u, d >= s PROVE (d - s) + s = d /\ s <= d
      BY <1>1, <1>2, <3>1
    <3>2. hi = {d - s : d \in {e \in u : e >= s}}
      BY <1>3 DEF Shr
    <3>3. ASSUME NEW e \in hi PROVE e + s \in top
      BY <1>3, <3>1, <3>2
    <3>4. ASSUME NEW d \in top PROVE \E e \in hi : d = e + s
      <4>1. d \in u /\ d >= s
        BY <1>1, <1>2, <1>3
      <4>2. d - s \in hi /\ (d - s) + s = d
        BY <3>1, <3>2, <4>1
      <4> QED
        BY <4>2
    <3> QED
      BY <3>3, <3>4
  <2> QED
    BY <2>2, <2>3
<1>8. Times(top, ByteBits) = rabintab[hi]
  <2>1. Times(Times(hi, s), ByteBits) = Times(hi, s + ByteBits)
    BY <1>2, <1>5, TimesPlus
  <2> QED
    BY <1>1, <1>4, <1>7, <2>1 DEF FpMkRedTab, FpReduce
<1>9. Times(lo, ByteBits) = Shl(u, ByteBits)
  <2>1. \A e \in lo : e + ByteBits < Word /\ e + ByteBits \in 0..Word - 1
    BY <1>1, <1>2, <1>3
  <2>2. Times(lo, ByteBits) = {e + ByteBits : e \in lo}
    BY <1>2, <1>5, <2>1, TimesShift
  <2>3. ASSUME NEW e \in u, e + ByteBits \in 0..Word - 1 PROVE e \in lo
    BY <1>1, <1>2, <1>3, <2>3
  <2>4. {e + ByteBits : e \in lo} = {e + ByteBits : e \in u} \cap 0..Word - 1
    BY <1>3, <2>1, <2>3
  <2> QED
    BY <2>2, <2>4 DEF Shl
<1>10. Shl(u, ByteBits) \cup x = Xor(Shl(u, ByteBits), x)
  <2>1. ASSUME NEW e \in u PROVE e + ByteBits \notin 0..ByteBits - 1
    BY <1>2
  <2>2. Shl(u, ByteBits) \cap x = {}
    BY <2>1, Sizes DEF Shl
  <2> QED
    BY <2>2 DEF Xor
<1>11. Roll(u, x) = Xor(Xor(Shl(u, ByteBits), x), rabintab[hi])
  BY <1>1, <1>3, <1>10 DEF Roll
<1>12. Times(u, ByteBits) = Xor(Shl(u, ByteBits), rabintab[hi])
  BY <1>2, <1>5, <1>6, <1>8, <1>9, TimesXor
<1> QED
  <2>1. PICK v, w : v = Shl(u, ByteBits) /\ w = rabintab[hi]
    OBVIOUS
  <2>2. Xor(Xor(v, x), w) = Xor(Xor(v, w), x)
    BY DEF Xor
  <2> QED
    BY <1>11, <1>12, <2>1, <2>2

-----------------------------------------------------------------------------
\* fpwinreduce multiplies by the power of the window less one letter.
WinBy(g, x, n, r) ==
  g = [m \in 0..n |-> IF m = 0 THEN Shl(x, r) ELSE FpReduce(g[m - 1])]

LEMMA WinTurns ==
  ASSUME NEW x \in Words, NEW r \in Nat, NEW n \in Nat, Shl(x, r) = Times(x, r),
         NEW g, g = CHOOSE f0 : WinBy(f0, x, n, r)
  PROVE  g[n] = Times(x, r + n * Word)
<1>1. Word \in Nat
  BY Sizes
<1>2. PICK f : f = [m \in 0..n |-> Times(x, r + m * Word)]
  OBVIOUS
<1>3. ASSUME NEW m \in 0..n
      PROVE  f[m] = IF m = 0 THEN Shl(x, r) ELSE FpReduce(f[m - 1])
  <2>1. CASE m = 0
    BY <1>1, <1>2, <2>1
  <2>2. CASE m # 0
    <3>1. PICK k \in 0..n : m = k + 1 /\ m - 1 = k
      <4>1. m - 1 \in 0..n /\ m = (m - 1) + 1
        BY <2>2
      <4> QED
        BY <4>1
    <3>2. r + k * Word \in Nat /\ r + m * Word = (r + k * Word) + Word
      BY <1>1, <3>1
    <3>3. Times(Times(x, r + k * Word), Word) = Times(x, (r + k * Word) + Word)
      BY <1>1, <3>2, TimesPlus
    <3> QED
      BY <1>2, <2>2, <3>1, <3>2, <3>3 DEF FpReduce
  <2> QED
    BY <2>1, <2>2
<1>4. WinBy(f, x, n, r)
  <2>1. f = [m \in 0..n |-> f[m]]
    BY <1>2
  <2>2. [m \in 0..n |-> f[m]] = [m \in 0..n |-> IF m = 0 THEN Shl(x, r) ELSE FpReduce(f[m - 1])]
    BY <1>3
  <2> QED
    BY <2>1, <2>2, Zenon DEF WinBy
<1>5. WinBy(g, x, n, r)
  BY <1>4, Zenon
<1>6. \A m \in 0..n : g[m] = IF m = 0 THEN Shl(x, r) ELSE FpReduce(g[m - 1])
  BY <1>5, Zenon DEF WinBy
<1>7. PICK T : T = {m \in 0..n : g[m] = f[m]}
  OBVIOUS
<1>8. 0 \in T
  BY <1>3, <1>6, <1>7
<1>9. ASSUME NEW m \in 1..n, m - 1 \in T PROVE m \in T
  <2>1. m \in 0..n /\ m # 0 /\ g[m - 1] = f[m - 1]
    BY <1>7, <1>9
  <2>2. g[m] = FpReduce(g[m - 1]) /\ f[m] = FpReduce(f[m - 1])
    BY <1>3, <1>6, <2>1
  <2> QED
    BY <1>7, <2>1, <2>2
<1>10. \A m \in 0..n : m \in T
  BY <1>8, <1>9, AllTurns
<1> QED
  BY <1>2, <1>7, <1>10

\* What is left of a multiple of the letters fits a word with a letter.
LEMMA Remainder ==
  ASSUME NEW a \in Nat
  PROVE  \E k \in Nat, r \in Nat :
           /\ k = (ByteBits * a) \div Word /\ r = (ByteBits * a) % Word
           /\ ByteBits * a = r + k * Word
           /\ r + ByteBits <= Word
<1>1. Word \in Nat \ {0} /\ ByteBits \in Nat \ {0}
  BY Sizes
<1>2. PICK q \in Nat \ {0} : Word = ByteBits * q
  BY LettersInWord
<1>3. PICK cs \in Nat : cs = ByteBits * a
  BY <1>1
<1>4. PICK k \in Nat, r \in Nat : k = cs \div Word /\ r = cs % Word /\ cs = r + k * Word /\ r < Word
  <2>1. /\ cs \div Word \in Nat /\ cs % Word \in Nat /\ cs % Word < Word
        /\ cs = (cs % Word) + (cs \div Word) * Word
    BY <1>1
  <2> QED
    BY <2>1
<1>5. r = ByteBits * (a - k * q)
  BY <1>1, <1>2, <1>3, <1>4
<1>6. PICK z \in Int : z = a - k * q
  OBVIOUS
<1>7. r = ByteBits * z /\ ByteBits * z < ByteBits * q
  BY <1>2, <1>4, <1>5, <1>6
<1>8. z <= q - 1
  <2>1. ASSUME z >= q PROVE FALSE
    <3>1. PICK w \in Nat : z = q + w
      <4>1. z - q \in Nat /\ z = q + (z - q)
        BY <2>1
      <4> QED
        BY <4>1
    <3>2. ByteBits * z = ByteBits * q + ByteBits * w /\ ByteBits * w \in Nat
      BY <1>1, <3>1
    <3> QED
      BY <1>1, <1>7, <3>2
  <2> QED
    BY <2>1
<1>9. ByteBits * z + ByteBits <= ByteBits * q
  <2>1. PICK w \in Nat : q = z + 1 + w
    <3>1. q - 1 - z \in Nat /\ q = z + 1 + (q - 1 - z)
      BY <1>8
    <3> QED
      BY <3>1
  <2>2. ByteBits * q = ByteBits * z + ByteBits + ByteBits * w /\ ByteBits * w \in Nat
    BY <1>1, <2>1
  <2> QED
    BY <1>1, <2>2
<1> QED
  BY <1>2, <1>3, <1>4, <1>7, <1>9

LEMMA WinTimes ==
  ASSUME NEW x \in Letters
  PROVE  FpWinReduce(x) = Times(x, ByteBits * (NWINDOW - 1))
<1>1. PICK a \in Nat : a = NWINDOW - 1
  BY Sizes
<1>2. PICK k \in Nat, r \in Nat :
           /\ k = (ByteBits * a) \div Word /\ r = (ByteBits * a) % Word
           /\ ByteBits * a = r + k * Word
           /\ r + ByteBits <= Word
  BY Remainder
<1>3. Shl(x, r) = Times(x, r)
  <2>1. \A e \in x : e + r < Word /\ e + r \in 0..Word - 1
    BY <1>2, Sizes
  <2>2. x \in Words
    BY LettersInWord
  <2>3. Times(x, r) = {e + r : e \in x}
    BY <2>1, <2>2, TimesShift
  <2>4. {e + r : e \in x} \cap 0..Word - 1 = {e + r : e \in x}
    BY <2>1
  <2> QED
    BY <2>3, <2>4 DEF Shl
<1>4. PICK g : g = CHOOSE f0 : WinBy(f0, x, k, r)
  OBVIOUS
<1>5. FpWinReduce(x) = g[k]
  BY <1>1, <1>2, <1>4 DEF FpWinReduce, WinBy
<1>6. x \in Words
  BY LettersInWord
<1>7. g[k] = Times(x, r + k * Word)
  BY <1>3, <1>4, <1>6, WinTurns
<1> QED
  BY <1>1, <1>2, <1>5, <1>7

-----------------------------------------------------------------------------
\* Remainders: the sum of the powers of t that a set has.
Exponents == 0..ByteBits * NWINDOW
Remainders(S) == {e \in 0..Word - 1 : Cardinality({n \in S : e \in Power[n]}) % 2 = 1}

LEMMA ExponentsFinite ==
  /\ ByteBits * NWINDOW \in Nat /\ Exponents \subseteq Nat
  /\ \A S \in SUBSET Exponents : IsFiniteSet(S)
<1>1. ByteBits * NWINDOW \in Nat
  BY Sizes
<1>2. IsFiniteSet(Exponents)
  BY <1>1, FS_Interval DEF Exponents
<1>3. Exponents \subseteq Nat
  BY <1>1 DEF Exponents
<1>4. ASSUME NEW S \in SUBSET Exponents PROVE IsFiniteSet(S)
  BY <1>2, FS_Subset
<1> QED
  BY <1>1, <1>3, <1>4

LEMMA PowerWord ==
  ASSUME NEW n \in Exponents
  PROVE  Power[n] = Times({0}, n) /\ Power[n] \in Words /\ {0} \in Words
<1>1. {0} \in Words
  BY Sizes DEF Words
<1>2. n \in Nat
  BY ExponentsFinite
<1> QED
  BY <1>1, <1>2, TimesWord DEF Power, Exponents

LEMMA Parity ==
  ASSUME NEW a \in Nat, NEW b \in Nat
  PROVE  (a + b) % 2 = 1 <=> ~(a % 2 = 1 <=> b % 2 = 1)
OBVIOUS

\* Sets without an exponent in common have the sum of the remainders.
LEMMA RemaindersUnion ==
  ASSUME NEW S \in SUBSET Exponents, NEW R \in SUBSET Exponents, S \cap R = {}
  PROVE  Remainders(S \cup R) = Xor(Remainders(S), Remainders(R))
<1>1. ASSUME NEW e \in 0..Word - 1
      PROVE  e \in Remainders(S \cup R) <=> ~(e \in Remainders(S) <=> e \in Remainders(R))
  <2>1. PICK A, B : A = {n \in S : e \in Power[n]} /\ B = {n \in R : e \in Power[n]}
    OBVIOUS
  <2>2. IsFiniteSet(A) /\ IsFiniteSet(B) /\ A \cap B = {}
    <3>1. A \in SUBSET Exponents /\ B \in SUBSET Exponents /\ A \cap B = {}
      BY <2>1
    <3> QED
      BY <3>1, ExponentsFinite
  <2>3. {n \in S \cup R : e \in Power[n]} = A \cup B
    BY <2>1
  <2>4. PICK a \in Nat, b \in Nat : /\ a = Cardinality(A) /\ b = Cardinality(B)
                                    /\ Cardinality(A \cup B) = a + b
    <3>1. Cardinality(A) \in Nat /\ Cardinality(B) \in Nat
      BY <2>2, FS_CardinalityType
    <3>2. Cardinality(A \cup B) = Cardinality(A) + Cardinality(B) - Cardinality({})
      BY <2>2, FS_Union
    <3> QED
      BY <3>1, <3>2, FS_EmptySet
  <2>5. (a + b) % 2 = 1 <=> ~(a % 2 = 1 <=> b % 2 = 1)
    BY Parity
  <2>6. /\ e \in Remainders(S) <=> a % 2 = 1
        /\ e \in Remainders(R) <=> b % 2 = 1
        /\ e \in Remainders(S \cup R) <=> (a + b) % 2 = 1
    BY <2>1, <2>3, <2>4 DEF Remainders
  <2> QED
    BY <2>5, <2>6
<1>2. \A d : d \in Xor(Remainders(S), Remainders(R)) <=>
               ~(d \in Remainders(S) <=> d \in Remainders(R))
  BY DEF Xor
<1>3. \A Q : Remainders(Q) \subseteq 0..Word - 1
  BY DEF Remainders
<1>4. Xor(Remainders(S), Remainders(R)) \subseteq 0..Word - 1
  BY <1>3 DEF Xor
<1> QED
  BY <1>1, <1>2, <1>3, <1>4

LEMMA RemainderOne ==
  ASSUME NEW n \in Exponents
  PROVE  Remainders({n}) = Power[n]
<1>1. ASSUME NEW e \in 0..Word - 1 PROVE e \in Remainders({n}) <=> e \in Power[n]
  <2>1. CASE e \in Power[n]
    <3>1. {m \in {n} : e \in Power[m]} = {n}
      BY <2>1
    <3>2. Cardinality({n}) = 1
      BY FS_Singleton
    <3>3. 1 % 2 = 1
      OBVIOUS
    <3> QED
      BY <2>1, <3>1, <3>2, <3>3 DEF Remainders
  <2>2. CASE e \notin Power[n]
    <3>1. {m \in {n} : e \in Power[m]} = {}
      BY <2>2
    <3>2. Cardinality({}) = 0
      BY FS_EmptySet
    <3>3. 0 % 2 # 1
      OBVIOUS
    <3> QED
      BY <2>2, <3>1, <3>2, <3>3 DEF Remainders
  <2> QED
    BY <2>1, <2>2
<1>2. Power[n] \subseteq 0..Word - 1 /\ Remainders({n}) \subseteq 0..Word - 1
  BY PowerWord DEF Words, Remainders
<1> QED
  BY <1>1, <1>2

\* Of exponents below the word the remainder is the set itself.
LEMMA RemaindersWord ==
  ASSUME NEW x \in Words, x \subseteq Exponents
  PROVE  Remainders(x) = x
<1>1. ASSUME NEW n \in x PROVE Power[n] = {n}
  <2>1. n \in Exponents /\ n \in Nat /\ n < Word
    BY ExponentsFinite, Sizes DEF Words
  <2>2. {0} \in Words /\ Power[n] = Times({0}, n)
    BY <2>1, PowerWord
  <2>3. \A e \in {0} : e + n < Word
    BY <2>1
  <2>4. Times({0}, n) = {e + n : e \in {0}}
    BY <2>1, <2>2, <2>3, TimesShift
  <2>5. {e + n : e \in {0}} = {n}
    BY <2>1
  <2> QED
    BY <2>2, <2>4, <2>5
<1>2. ASSUME NEW e \in 0..Word - 1 PROVE e \in Remainders(x) <=> e \in x
  <2>1. {n \in x : e \in Power[n]} = IF e \in x THEN {e} ELSE {}
    BY <1>1
  <2>2. Cardinality({e}) = 1 /\ Cardinality({}) = 0
    BY FS_Singleton, FS_EmptySet
  <2>3. 1 % 2 = 1 /\ 0 % 2 # 1
    OBVIOUS
  <2> QED
    BY <2>1, <2>2, <2>3 DEF Remainders
<1>3. x \subseteq 0..Word - 1 /\ Remainders(x) \subseteq 0..Word - 1
  BY DEF Words, Remainders
<1> QED
  BY <1>2, <1>3

\* Exponents that are all larger by d: the product with t^d.
Raised(S, d) == {n + d : n \in S}

LEMMA RemaindersRaised ==
  ASSUME NEW d \in Nat, NEW S0 \in SUBSET Exponents, Raised(S0, d) \subseteq Exponents
  PROVE  Remainders(Raised(S0, d)) = Times(Remainders(S0), d)
<1> DEFINE Right(S) == Remainders(Raised(S, d)) = Times(Remainders(S), d)
           Fit(S) == S \in SUBSET Exponents /\ Raised(S, d) \subseteq Exponents
<1> HIDE DEF Right, Fit
<1>1. PICK m \in Nat : m = Cardinality(S0)
  BY ExponentsFinite, FS_CardinalityType
<1>2. PICK T : T = {k \in 0..m : \A S : Fit(S) /\ Cardinality(S) = k => Right(S)}
  OBVIOUS
<1>3. \A S : Fit(S) => IsFiniteSet(S)
  BY ExponentsFinite DEF Fit
<1>4. Remainders({}) = {} /\ {} \in Words
  <2>1. {} \in Words /\ {} \subseteq Exponents
    BY DEF Words
  <2> QED
    BY <2>1, RemaindersWord
<1>5. Right({})
  <2>1. Times({}, d) = {}
    <3>1. \A e \in {} : e + d < Word
      OBVIOUS
    <3>2. Times({}, d) = {e + d : e \in {}}
      BY <1>4, <3>1, TimesShift
    <3> QED
      BY <3>2
  <2>2. Raised({}, d) = {}
    BY DEF Raised
  <2> QED
    BY <1>4, <2>1, <2>2 DEF Right
<1>6. 0 \in T
  <2>1. \A S : Fit(S) /\ Cardinality(S) = 0 => S = {}
    BY <1>3, FS_EmptySet
  <2> QED
    BY <1>2, <1>5, <2>1
<1>7. ASSUME NEW k \in 1..m, k - 1 \in T PROVE k \in T
  <2>1. ASSUME NEW S, Fit(S), Cardinality(S) = k PROVE Right(S)
    <3>1. IsFiniteSet(S) /\ S # {}
      BY <1>3, <2>1, FS_EmptySet
    <3>2. PICK n : n \in S
      BY <3>1
    <3>3. PICK R : R = S \ {n}
      OBVIOUS
    <3>4. Cardinality(R) = k - 1
      BY <2>1, <3>1, <3>2, <3>3, FS_RemoveElement
    <3>5. /\ R \in SUBSET Exponents /\ n \in Exponents /\ n + d \in Exponents
          /\ Raised(R, d) \in SUBSET Exponents
      BY <2>1, <3>2, <3>3 DEF Fit, Raised
    <3>6. Right(R)
      BY <1>2, <1>7, <3>4, <3>5 DEF Fit
    <3>7. n \in Nat /\ \A l \in S : l \in Nat
      BY <2>1, <3>2, ExponentsFinite DEF Fit
    <3>8. S = R \cup {n} /\ R \cap {n} = {}
      BY <3>2, <3>3
    <3>9. Raised(S, d) = Raised(R, d) \cup {n + d} /\ Raised(R, d) \cap {n + d} = {}
      <4>1. ASSUME NEW l \in R PROVE l + d # n + d
        <5>1. l \in Nat /\ n \in Nat /\ l # n
          BY <3>3, <3>7
        <5> QED
          BY <5>1
      <4> QED
        BY <3>8, <4>1 DEF Raised
    <3>10. Remainders(S) = Xor(Remainders(R), Power[n])
      <4>1. {n} \in SUBSET Exponents /\ Remainders({n}) = Power[n]
        BY <3>5, RemainderOne
      <4>2. Remainders(R \cup {n}) = Xor(Remainders(R), Remainders({n}))
        BY <3>5, <3>8, <4>1, RemaindersUnion
      <4> QED
        BY <3>8, <4>1, <4>2, Zenon
    <3>11. Remainders(Raised(S, d)) = Xor(Remainders(Raised(R, d)), Power[n + d])
      <4>1. {n + d} \in SUBSET Exponents /\ Remainders({n + d}) = Power[n + d]
        BY <3>5, RemainderOne
      <4>2. PICK Q : Q = Raised(R, d)
        OBVIOUS
      <4>3. Remainders(Q \cup {n + d}) = Xor(Remainders(Q), Remainders({n + d}))
        BY <3>5, <3>9, <4>1, <4>2, RemaindersUnion
      <4> QED
        BY <3>9, <4>1, <4>2, <4>3
    <3>12. Power[n + d] = Times(Power[n], d)
      <4>1. Power[n + d] = Times({0}, n + d) /\ Power[n] = Times({0}, n) /\ {0} \in Words
        BY <3>5, PowerWord
      <4>2. Times(Times({0}, n), d) = Times({0}, n + d)
        BY <3>7, <4>1, TimesPlus
      <4> QED
        BY <4>1, <4>2
    <3>13. Power[n] \in Words /\ Remainders(R) \in Words
      BY <3>5, PowerWord DEF Remainders, Words
    <3>14. Times(Xor(Remainders(R), Power[n]), d)
             = Xor(Times(Remainders(R), d), Times(Power[n], d))
      BY <3>13, TimesXor
    <3> QED
      BY <3>6, <3>10, <3>11, <3>12, <3>14 DEF Right
  <2> QED
    BY <1>2, <2>1
<1>8. \A k \in 0..m : k \in T
  BY <1>6, <1>7, AllTurns
<1>9. Fit(S0)
  BY DEF Fit
<1>10. Right(S0)
  BY <1>1, <1>2, <1>8, <1>9
<1> QED
  BY <1>10 DEF Right

-----------------------------------------------------------------------------
\* Prints of windows.
LEMMA TermsOf ==
  ASSUME NEW w \in Seq(Letters)
  PROVE  /\ Len(w) \in Nat /\ DOMAIN w = 1..Len(w)
         /\ \A j \in 1..Len(w) : w[j] \in Letters
         /\ \A n : n \in Terms(w) <=>
              \E j \in 1..Len(w) : \E x \in w[j] : n = ByteBits * (Len(w) - j) + x
<1>1. Len(w) \in Nat /\ DOMAIN w = 1..Len(w) /\ \A j \in 1..Len(w) : w[j] \in Letters
  BY LenProperties, ElementOfSeq
<1> QED
  BY <1>1 DEF Terms

LEMMA LettersBefore ==
  ASSUME NEW a \in Nat, NEW b \in Nat, a < b
  PROVE  ByteBits * a + ByteBits <= ByteBits * b /\ ByteBits * a \in Nat
<1>1. PICK w \in Nat : b = a + 1 + w
  <2>1. b - 1 - a \in Nat /\ b = a + 1 + (b - 1 - a)
    OBVIOUS
  <2> QED
    BY <2>1
<1>2. ByteBits * b = ByteBits * a + ByteBits + ByteBits * w /\ ByteBits * w \in Nat
  BY <1>1, Sizes
<1> QED
  BY <1>2, Sizes

LEMMA TermsBelow ==
  ASSUME NEW w \in Seq(Letters)
  PROVE  \A n \in Terms(w) : n \in Nat /\ n < ByteBits * Len(w)
<1> SUFFICES ASSUME NEW n \in Terms(w) PROVE n \in Nat /\ n < ByteBits * Len(w)
  OBVIOUS
<1>0. PICK j \in 1..Len(w) : \E x \in w[j] : n = ByteBits * (Len(w) - j) + x
  BY TermsOf
<1>1. PICK x \in w[j] : n = ByteBits * (Len(w) - j) + x
  BY <1>0
<1>2. x \in Nat /\ x < ByteBits
  BY <1>1, TermsOf, Sizes
<1>3. PICK a \in Nat : a = Len(w) - j /\ a < Len(w)
  <2>1. Len(w) \in Nat
    BY TermsOf
  <2>2. Len(w) - j \in Nat /\ Len(w) - j < Len(w)
    BY <2>1
  <2> QED
    BY <2>2
<1>4. ByteBits * a + ByteBits <= ByteBits * Len(w) /\ ByteBits * a \in Nat
  BY <1>3, TermsOf, LettersBefore
<1>5. n = ByteBits * a + x
  BY <1>1, <1>3
<1> QED
  BY <1>2, <1>4, <1>5, TermsOf, Sizes

\* In a window all exponents are those of powers.
LEMMA TermsExponents ==
  ASSUME NEW w \in Seq(Letters), Len(w) <= NWINDOW
  PROVE  Terms(w) \in SUBSET Exponents
<1>1. ByteBits * Len(w) <= ByteBits * NWINDOW
  <2>1. CASE Len(w) = NWINDOW
    BY <2>1, ExponentsFinite
  <2>2. CASE Len(w) # NWINDOW
    <3>1. Len(w) < NWINDOW
      BY <2>2, TermsOf, Sizes
    <3>2. ByteBits * Len(w) + ByteBits <= ByteBits * NWINDOW /\ ByteBits * Len(w) \in Nat
      BY <3>1, TermsOf, Sizes, LettersBefore
    <3> QED
      BY <3>2, Sizes
  <2> QED
    BY <2>1, <2>2
<1>2. ByteBits * Len(w) \in Nat
  BY TermsOf, Sizes
<1> QED
  BY <1>1, <1>2, TermsBelow, ExponentsFinite DEF Exponents

\* A letter behind or before others: its terms and theirs.
LEMMA TermsAppend ==
  ASSUME NEW w \in Seq(Letters), NEW x \in Letters
  PROVE  /\ Append(w, x) \in Seq(Letters)
         /\ Terms(Append(w, x)) = Raised(Terms(w), ByteBits) \cup x
         /\ Raised(Terms(w), ByteBits) \cap x = {}
<1>1. PICK v \in Seq(Letters) : v = Append(w, x)
  BY AppendProperties
<1>2. PICK k \in Nat : k = Len(w)
  BY TermsOf
<1>3. Len(v) = k + 1 /\ v[k + 1] = x /\ \A j \in 1..k : v[j] = w[j]
  BY <1>1, <1>2, AppendProperties
<1>4. \A n : n \in Terms(v) <=> \E j \in 1..k + 1 : \E y \in v[j] : n = ByteBits * (k + 1 - j) + y
  <2>1. Len(v) = k + 1
    BY <1>3
  <2>2. v \in Seq(Letters)
    OBVIOUS
  <2>3. \A n : n \in Terms(v) <=>
          \E j \in 1..Len(v) : \E y \in v[j] : n = ByteBits * (Len(v) - j) + y
    BY <2>2, TermsOf
  <2> QED
    BY <2>1, <2>3
<1>5. \A n : n \in Terms(w) <=> \E j \in 1..k : \E y \in w[j] : n = ByteBits * (k - j) + y
  BY <1>2, TermsOf
<1>6. \A y \in x : y \in Nat /\ y < ByteBits
  BY Sizes
<1>7. ASSUME NEW j \in 1..k
      PROVE  ByteBits * (k + 1 - j) = ByteBits * (k - j) + ByteBits
  <2>1. PICK a \in Nat : a = k - j /\ k + 1 - j = a + 1
    <3>1. k - j \in Nat /\ k + 1 - j = (k - j) + 1
      OBVIOUS
    <3> QED
      BY <3>1
  <2>2. ByteBits * (a + 1) = ByteBits * a + ByteBits
    BY Sizes
  <2> QED
    BY <2>1, <2>2
<1>8. \A n \in Terms(w) : n \in Nat
  BY TermsBelow
<1>9. ASSUME NEW j \in 1..k, NEW y \in w[j], NEW n, n = ByteBits * (k + 1 - j) + y
      PROVE  n \in Raised(Terms(w), ByteBits)
  <2>1. PICK c \in Terms(w) : c = ByteBits * (k - j) + y
    BY <1>5
  <2>2. w[j] \in Letters
    BY <1>2, TermsOf
  <2>3. y \in Nat
    BY <2>2, Sizes
  <2>4. PICK b \in Nat : b = ByteBits * (k - j)
    <3>1. k - j \in Nat
      OBVIOUS
    <3> QED
      BY <3>1, Sizes
  <2>5. n = c + ByteBits
    BY <1>7, <1>9, <2>1, <2>3, <2>4, Sizes
  <2> QED
    BY <2>5 DEF Raised
<1>10. ASSUME NEW c \in Terms(w) PROVE c + ByteBits \in Terms(v)
  <2>1. PICK j \in 1..k : \E y \in w[j] : c = ByteBits * (k - j) + y
    BY <1>5
  <2>2. PICK y \in w[j] : c = ByteBits * (k - j) + y
    BY <2>1
  <2>3. w[j] \in Letters
    BY <1>2, TermsOf
  <2>4. y \in Nat
    BY <2>3, Sizes
  <2>5. PICK b \in Nat : b = ByteBits * (k - j)
    <3>1. k - j \in Nat
      OBVIOUS
    <3> QED
      BY <3>1, Sizes
  <2>6. c + ByteBits = ByteBits * (k + 1 - j) + y
    BY <1>7, <2>2, <2>4, <2>5, Sizes
  <2>7. j \in 1..k + 1 /\ y \in v[j]
    BY <1>3
  <2> QED
    BY <1>4, <2>6, <2>7
<1>11. ASSUME NEW y \in x PROVE y \in Terms(v)
  <2>1. y = ByteBits * (k + 1 - (k + 1)) + y
    <3>1. k + 1 - (k + 1) = 0 /\ ByteBits * 0 = 0 /\ y = 0 + y
      BY <1>6, Sizes
    <3> QED
      BY <3>1
  <2>2. y \in v[k + 1] /\ k + 1 \in 1..k + 1
    BY <1>3
  <2> QED
    BY <1>4, <2>1, <2>2
<1>12. ASSUME NEW n \in Terms(v) PROVE n \in Raised(Terms(w), ByteBits) \cup x
  <2>1. PICK j \in 1..k + 1 : \E y \in v[j] : n = ByteBits * (k + 1 - j) + y
    BY <1>4
  <2>2. CASE j \in 1..k
    BY <1>3, <1>9, <2>1, <2>2
  <2>3. CASE j = k + 1
    <3>1. PICK y \in x : n = ByteBits * (k + 1 - (k + 1)) + y
      BY <1>3, <2>1, <2>3
    <3>2. k + 1 - (k + 1) = 0 /\ ByteBits * 0 = 0 /\ 0 + y = y
      BY <1>6, Sizes
    <3> QED
      BY <3>1, <3>2
  <2> QED
    BY <2>2, <2>3
<1>13. \A n \in Raised(Terms(w), ByteBits) : n \notin x
  BY <1>6, <1>8, Sizes DEF Raised
<1>14. Terms(v) = Raised(Terms(w), ByteBits) \cup x
  BY <1>10, <1>11, <1>12 DEF Raised
<1> QED
  BY <1>1, <1>13, <1>14

LEMMA TermsPrepend ==
  ASSUME NEW w \in Seq(Letters), NEW x \in Letters
  PROVE  /\ <<x>> \o w \in Seq(Letters) /\ Len(<<x>> \o w) = Len(w) + 1
         /\ Terms(<<x>> \o w) = Raised(x, ByteBits * Len(w)) \cup Terms(w)
         /\ Raised(x, ByteBits * Len(w)) \cap Terms(w) = {}
<1>0. PICK u \in Seq(Letters) : u = <<x>> /\ Len(u) = 1 /\ u[1] = x
  <2>1. <<x>> \in Seq(Letters)
    OBVIOUS
  <2>2. Len(<<x>>) = 1 /\ <<x>>[1] = x
    OBVIOUS
  <2> QED
    BY <2>1, <2>2, Zenon
<1>1. PICK v \in Seq(Letters) : v = u \o w
  BY ConcatProperties
<1>2. PICK k \in Nat : k = Len(w)
  BY TermsOf
<1>3. Len(v) = k + 1 /\ v[1] = x /\ \A j \in 1..k : v[j + 1] = w[j]
  <2>1. Len(v) = 1 + k /\ \A j \in 1..1 + k : v[j] = IF j <= 1 THEN u[j] ELSE w[j - 1]
    BY <1>0, <1>1, <1>2, ConcatProperties
  <2>2. ASSUME NEW j \in 1..k PROVE v[j + 1] = w[j]
    <3>1. j + 1 \in 1..1 + k /\ ~(j + 1 <= 1) /\ j + 1 - 1 = j
      OBVIOUS
    <3> QED
      BY <2>1, <3>1
  <2> QED
    BY <1>0, <2>1, <2>2
<1>4. \A n : n \in Terms(v) <=> \E j \in 1..k + 1 : \E y \in v[j] : n = ByteBits * (k + 1 - j) + y
  <2>1. Len(v) = k + 1
    BY <1>3
  <2>2. v \in Seq(Letters)
    OBVIOUS
  <2>3. \A n : n \in Terms(v) <=>
          \E j \in 1..Len(v) : \E y \in v[j] : n = ByteBits * (Len(v) - j) + y
    BY <2>2, TermsOf
  <2> QED
    BY <2>1, <2>3
<1>5. \A n : n \in Terms(w) <=> \E j \in 1..k : \E y \in w[j] : n = ByteBits * (k - j) + y
  BY <1>2, TermsOf
<1>6. \A y \in x : y \in Nat
  BY Sizes
<1>7. PICK b \in Nat : b = ByteBits * k
  BY Sizes
<1>8. ASSUME NEW y \in x PROVE y + b \in Terms(v)
  <2>1. k + 1 - 1 = k /\ 1 \in 1..k + 1 /\ y + b = b + y
    BY <1>6
  <2>2. y + b = ByteBits * (k + 1 - 1) + y
    BY <1>7, <2>1
  <2> QED
    BY <1>3, <1>4, <2>1, <2>2
<1>9. ASSUME NEW n \in Terms(w) PROVE n \in Terms(v)
  <2>1. PICK j \in 1..k : \E y \in w[j] : n = ByteBits * (k - j) + y
    BY <1>5
  <2>2. k + 1 - (j + 1) = k - j /\ j + 1 \in 1..k + 1
    OBVIOUS
  <2> QED
    BY <1>3, <1>4, <2>1, <2>2
<1>10. ASSUME NEW n \in Terms(v) PROVE n \in Raised(x, b) \cup Terms(w)
  <2>1. PICK j \in 1..k + 1 : \E y \in v[j] : n = ByteBits * (k + 1 - j) + y
    BY <1>4
  <2>2. CASE j = 1
    <3>1. PICK y \in x : n = ByteBits * (k + 1 - 1) + y
      BY <1>3, <2>1, <2>2
    <3>2. k + 1 - 1 = k
      OBVIOUS
    <3>3. n = b + y
      BY <1>7, <3>1, <3>2
    <3>4. n = y + b
      BY <1>6, <3>3
    <3> QED
      BY <3>4 DEF Raised
  <2>3. CASE j # 1
    <3>1. PICK d \in 1..k : j = d + 1
      <4>1. j - 1 \in 1..k /\ j = (j - 1) + 1
        BY <2>3
      <4> QED
        BY <4>1
    <3>2. PICK y \in w[d] : n = ByteBits * (k + 1 - (d + 1)) + y
      BY <1>3, <2>1, <3>1
    <3>3. k + 1 - (d + 1) = k - d
      OBVIOUS
    <3> QED
      BY <1>5, <3>2, <3>3
  <2> QED
    BY <2>2, <2>3
<1>11. \A n \in Terms(w) : n \in Nat /\ n < b
  BY <1>2, <1>7, TermsBelow
<1>12. Raised(x, b) \cap Terms(w) = {}
  BY <1>6, <1>11 DEF Raised
<1>13. Terms(v) = Raised(x, b) \cup Terms(w)
  BY <1>8, <1>9, <1>10 DEF Raised
<1> QED
  BY <1>0, <1>1, <1>2, <1>3, <1>7, <1>12, <1>13

LEMMA PrintRemainders == ASSUME NEW w PROVE PrintOf(w) = Remainders(Terms(w))
BY DEF PrintOf, Remainders

LEMMA PrintWord == ASSUME NEW w PROVE PrintOf(w) \in Words
BY DEF PrintOf, Words

LEMMA LetterExponents ==
  ASSUME NEW x \in Letters
  PROVE  x \in SUBSET Exponents /\ x \in Words
<1>1. ByteBits * 1 <= ByteBits * NWINDOW
  BY LettersBefore, Sizes
<1> QED
  BY <1>1, LettersInWord, Sizes, ExponentsFinite DEF Exponents

LEMMA PrintNone == PrintOf(<<>>) = {}
<1>1. Terms(<<>>) = {}
  BY DEF Terms
<1>2. ASSUME NEW e \in 0..Word - 1 PROVE e \notin PrintOf(<<>>)
  <2>1. {n \in Terms(<<>>) : e \in Power[n]} = {}
    BY <1>1
  <2>2. ~ (Cardinality({}) % 2 = 1)
    BY FS_EmptySet
  <2> QED
    BY <2>1, <2>2 DEF PrintOf
<1> QED
  BY <1>2 DEF PrintOf

\* A letter behind the others: one step of buildInitialPrint.
LEMMA PrintAppend ==
  ASSUME NEW w \in Seq(Letters), NEW x \in Letters, Len(w) < NWINDOW
  PROVE  PrintOf(Append(w, x)) = Xor(Times(PrintOf(w), ByteBits), x)
<1>1. PICK v \in Seq(Letters) : v = Append(w, x)
  BY AppendProperties
<1>2. Len(v) <= NWINDOW
  BY <1>1, AppendProperties, TermsOf, Sizes
<1>3. PICK S, R : S = Terms(w) /\ R = Raised(S, ByteBits)
  OBVIOUS
<1>4. Terms(v) = R \cup x /\ R \cap x = {}
  BY <1>1, <1>3, TermsAppend
<1>5. Terms(v) \in SUBSET Exponents
  BY <1>2, TermsExponents
<1>6. S \in SUBSET Exponents
  BY <1>3, TermsExponents, TermsOf, Sizes
<1>7. R \in SUBSET Exponents /\ x \in SUBSET Exponents /\ x \in Words
  BY <1>4, <1>5, LetterExponents
<1>8. Remainders(R \cup x) = Xor(Remainders(R), Remainders(x))
  BY <1>4, <1>7, RemaindersUnion
<1>9. Remainders(x) = x
  BY <1>7, RemaindersWord
<1>10. Remainders(R) = Times(Remainders(S), ByteBits)
  BY <1>3, <1>6, <1>7, Sizes, RemaindersRaised
<1>11. PrintOf(v) = Remainders(R \cup x) /\ PrintOf(w) = Remainders(S)
  BY <1>3, <1>4, PrintRemainders
<1> QED
  BY <1>1, <1>8, <1>9, <1>10, <1>11

\* A letter before the others: the letter that leaves the window.
LEMMA PrintPrepend ==
  ASSUME NEW w \in Seq(Letters), NEW x \in Letters, Len(w) < NWINDOW
  PROVE  PrintOf(<<x>> \o w) = Xor(Times(x, ByteBits * Len(w)), PrintOf(w))
<1>1. PICK v \in Seq(Letters) : v = <<x>> \o w /\ Len(v) = Len(w) + 1
  BY TermsPrepend
<1>2. Len(v) <= NWINDOW
  BY <1>1, TermsOf, Sizes
<1>3. PICK b \in Nat : b = ByteBits * Len(w)
  BY TermsOf, Sizes
<1>4. PICK S, R : S = Terms(w) /\ R = Raised(x, b)
  OBVIOUS
<1>5. Terms(v) = R \cup S /\ R \cap S = {}
  BY <1>1, <1>3, <1>4, TermsPrepend
<1>6. Terms(v) \in SUBSET Exponents
  BY <1>2, TermsExponents
<1>7. R \in SUBSET Exponents /\ S \in SUBSET Exponents
  BY <1>5, <1>6
<1>8. x \in SUBSET Exponents /\ x \in Words
  BY LetterExponents
<1>9. Remainders(R \cup S) = Xor(Remainders(R), Remainders(S))
  BY <1>5, <1>7, RemaindersUnion
<1>10. Remainders(R) = Times(Remainders(x), b)
  BY <1>4, <1>7, <1>8, RemaindersRaised
<1>11. Remainders(x) = x
  BY <1>8, RemaindersWord
<1>12. PrintOf(v) = Remainders(R \cup S) /\ PrintOf(w) = Remainders(S)
  BY <1>4, <1>5, PrintRemainders
<1> QED
  BY <1>1, <1>3, <1>9, <1>10, <1>11, <1>12

-----------------------------------------------------------------------------
\* The first window, and the next one.
LEMMA PrefixSteps ==
  ASSUME NEW c \in Seq(Letters), NEW n \in Nat, n < Len(c)
  PROVE  /\ SubSeq(c, 1, n) \in Seq(Letters) /\ Len(SubSeq(c, 1, n)) = n
         /\ SubSeq(c, 1, n + 1) = Append(SubSeq(c, 1, n), c[n + 1])
         /\ c[n + 1] \in Letters
<1>1. \A j \in 1..Len(c) : c[j] \in Letters
  BY ElementOfSeq
<1>2. Len(c) \in Nat
  BY LenProperties
<1>3. PICK v, w : v = SubSeq(c, 1, n) /\ w = SubSeq(c, 1, n + 1)
  OBVIOUS
<1>4. v \in Seq(Letters) /\ Len(v) = n /\ \A j \in 1..n : v[j] = c[j]
  <2>1. \A j \in 1..n : c[j] \in Letters
    BY <1>1, <1>2
  <2>2. /\ v \in Seq(Letters) /\ Len(v) = IF 1 <= n THEN n - 1 + 1 ELSE 0
        /\ \A j \in 1..n - 1 + 1 : v[j] = c[1 + j - 1]
    BY <1>3, <2>1, SubSeqProperties
  <2>3. Len(v) = n
    BY <2>2
  <2>4. ASSUME NEW j \in 1..n PROVE v[j] = c[j]
    <3>1. j \in 1..n - 1 + 1 /\ 1 + j - 1 = j
      OBVIOUS
    <3> QED
      BY <2>2, <3>1
  <2> QED
    BY <2>2, <2>3, <2>4
<1>5. w \in Seq(Letters) /\ Len(w) = n + 1 /\ \A j \in 1..n + 1 : w[j] = c[j]
  <2>1. \A j \in 1..n + 1 : c[j] \in Letters
    BY <1>1, <1>2
  <2>2. /\ w \in Seq(Letters) /\ Len(w) = IF 1 <= n + 1 THEN n + 1 - 1 + 1 ELSE 0
        /\ \A j \in 1..n + 1 - 1 + 1 : w[j] = c[1 + j - 1]
    BY <1>3, <2>1, SubSeqProperties
  <2>3. Len(w) = n + 1
    BY <2>2
  <2>4. ASSUME NEW j \in 1..n + 1 PROVE w[j] = c[j]
    <3>1. j \in 1..n + 1 - 1 + 1 /\ 1 + j - 1 = j
      OBVIOUS
    <3> QED
      BY <2>2, <3>1
  <2> QED
    BY <2>2, <2>3, <2>4
<1>6. c[n + 1] \in Letters
  BY <1>1, <1>2
<1>7. PICK a : a = Append(v, c[n + 1])
  OBVIOUS
<1>8. /\ a \in Seq(Letters) /\ Len(a) = n + 1 /\ a[n + 1] = c[n + 1]
      /\ \A j \in 1..n : a[j] = v[j]
  BY <1>4, <1>6, <1>7, AppendProperties
<1>9. \A j \in 1..n + 1 : w[j] = a[j]
  BY <1>4, <1>5, <1>8
<1>10. w = a
  BY <1>5, <1>8, <1>9, SeqEqual
<1> QED
  BY <1>3, <1>4, <1>6, <1>7, <1>10

RollsBy(g, c, n) == g = [j \in 0..n |-> IF j = 0 THEN {} ELSE Roll(g[j - 1], c[j])]

LEMMA InitialPrintOf ==
  ASSUME NEW c \in Seq(Letters), NEW n \in Nat, n <= Len(c), n <= NWINDOW,
         rabintab = FpMkRedTab
  PROVE  InitialPrint(c, n) = PrintOf(SubSeq(c, 1, n))
<1>1. PICK f : f = [j \in 0..n |-> PrintOf(SubSeq(c, 1, j))]
  OBVIOUS
<1>2. Len(c) \in Nat
  BY LenProperties
<1>3. ASSUME NEW j \in 0..n
      PROVE  f[j] = IF j = 0 THEN {} ELSE Roll(f[j - 1], c[j])
  <2>1. CASE j = 0
    <3>1. SubSeq(c, 1, 0) = <<>>
      BY SubSeqEmpty
    <3>2. f[j] = PrintOf(SubSeq(c, 1, 0))
      BY <1>1, <2>1
    <3> QED
      BY <2>1, <3>1, <3>2, PrintNone
  <2>2. CASE j # 0
    <3>1. PICK d \in 0..n : j = d + 1 /\ j - 1 = d
      <4>1. j - 1 \in 0..n /\ j = (j - 1) + 1
        BY <2>2
      <4> QED
        BY <4>1
    <3>2. d \in Nat /\ d < Len(c) /\ d < NWINDOW
      BY <1>2, <3>1, Sizes
    <3>3. PICK v, x : v = SubSeq(c, 1, d) /\ x = c[d + 1]
      OBVIOUS
    <3>4. v \in Seq(Letters) /\ Len(v) = d /\ SubSeq(c, 1, d + 1) = Append(v, x) /\ x \in Letters
      BY <3>2, <3>3, PrefixSteps
    <3>5. PrintOf(Append(v, x)) = Xor(Times(PrintOf(v), ByteBits), x)
      BY <3>2, <3>4, PrintAppend
    <3>6. Roll(PrintOf(v), x) = Xor(Times(PrintOf(v), ByteBits), x)
      BY <3>4, PrintWord, RollTimes
    <3>7. f[d] = PrintOf(v) /\ f[j] = PrintOf(Append(v, x))
      BY <1>1, <3>1, <3>3, <3>4
    <3> QED
      BY <2>2, <3>1, <3>3, <3>5, <3>6, <3>7
  <2> QED
    BY <2>1, <2>2
<1>4. RollsBy(f, c, n)
  <2>1. f = [j \in 0..n |-> f[j]]
    BY <1>1
  <2>2. [j \in 0..n |-> f[j]] = [j \in 0..n |-> IF j = 0 THEN {} ELSE Roll(f[j - 1], c[j])]
    BY <1>3
  <2> QED
    BY <2>1, <2>2, Zenon DEF RollsBy
<1>5. PICK g : g = CHOOSE f0 : RollsBy(f0, c, n)
  OBVIOUS
<1>6. RollsBy(g, c, n)
  BY <1>4, <1>5, Zenon
<1>7. InitialPrint(c, n) = g[n]
  BY <1>5 DEF InitialPrint, RollsBy
<1>8. \A j \in 0..n : g[j] = IF j = 0 THEN {} ELSE Roll(g[j - 1], c[j])
  BY <1>6, Zenon DEF RollsBy
<1>9. PICK T : T = {j \in 0..n : g[j] = f[j]}
  OBVIOUS
<1>10. 0 \in T
  BY <1>3, <1>8, <1>9
<1>11. ASSUME NEW j \in 1..n, j - 1 \in T PROVE j \in T
  <2>1. j \in 0..n /\ j # 0 /\ g[j - 1] = f[j - 1]
    BY <1>9, <1>11
  <2>2. g[j] = Roll(g[j - 1], c[j]) /\ f[j] = Roll(f[j - 1], c[j])
    BY <1>3, <1>8, <2>1
  <2> QED
    BY <1>9, <2>1, <2>2
<1>12. \A j \in 0..n : j \in T
  BY <1>10, <1>11, AllTurns
<1>13. g[n] = f[n]
  BY <1>9, <1>12
<1> QED
  BY <1>1, <1>7, <1>13

\* A full window.
LEMMA WindowOf ==
  ASSUME NEW c \in Seq(Letters), NEW n \in Nat, NWINDOW <= n, n <= Len(c)
  PROVE  \E a \in Nat :
           /\ n = a + NWINDOW /\ Window(c, n) = SubSeq(c, a + 1, n)
           /\ Window(c, n) \in Seq(Letters) /\ Len(Window(c, n)) = NWINDOW
           /\ \A j \in 1..NWINDOW : Window(c, n)[j] = c[a + j]
<1>1. PICK a \in Nat : n = a + NWINDOW
  <2>1. n - NWINDOW \in Nat /\ n = (n - NWINDOW) + NWINDOW
    BY Sizes
  <2> QED
    BY <2>1
<1>2. Window(c, n) = SubSeq(c, a + 1, n)
  <2>1. (IF n > NWINDOW THEN n - NWINDOW + 1 ELSE 1) = a + 1
    BY <1>1, Sizes
  <2> QED
    BY <2>1 DEF Window
<1>3. PICK w : w = SubSeq(c, a + 1, n)
  OBVIOUS
<1>4. \A j \in a + 1..n : c[j] \in Letters
  BY <1>1, ElementOfSeq, LenProperties
<1>5. /\ w \in Seq(Letters)
      /\ Len(w) = IF a + 1 <= n THEN n - (a + 1) + 1 ELSE 0
      /\ \A j \in 1..n - (a + 1) + 1 : w[j] = c[a + 1 + j - 1]
  BY <1>3, <1>4, SubSeqProperties
<1>6. Len(w) = NWINDOW
  BY <1>1, <1>5, Sizes
<1>7. ASSUME NEW j \in 1..NWINDOW PROVE w[j] = c[a + j]
  <2>1. j \in 1..n - (a + 1) + 1 /\ a + 1 + j - 1 = a + j
    BY <1>1, Sizes
  <2> QED
    BY <1>5, <2>1
<1> QED
  BY <1>1, <1>2, <1>3, <1>5, <1>6, <1>7

\* One letter out of the window and one in.
LEMMA WindowSlides ==
  ASSUME NEW c \in Seq(Letters), NEW n \in Nat, NWINDOW <= n, n < Len(c)
  PROVE  /\ c[n - NWINDOW + 1] \in Letters /\ c[n + 1] \in Letters
         /\ \E w \in Seq(Letters) :
              /\ Len(w) + 1 = NWINDOW
              /\ Window(c, n) = <<c[n - NWINDOW + 1]>> \o w
              /\ Window(c, n + 1) = Append(w, c[n + 1])
<1>1. Len(c) \in Nat /\ \A j \in 1..Len(c) : c[j] \in Letters
  BY LenProperties, ElementOfSeq
<1>2. PICK a \in Nat :
           /\ n = a + NWINDOW
           /\ Window(c, n) \in Seq(Letters) /\ Len(Window(c, n)) = NWINDOW
           /\ \A j \in 1..NWINDOW : Window(c, n)[j] = c[a + j]
  <2>1. NWINDOW <= n /\ n <= Len(c)
    BY <1>1
  <2> QED
    BY <2>1, WindowOf
<1>3. PICK b \in Nat :
           /\ n + 1 = b + NWINDOW
           /\ Window(c, n + 1) \in Seq(Letters) /\ Len(Window(c, n + 1)) = NWINDOW
           /\ \A j \in 1..NWINDOW : Window(c, n + 1)[j] = c[b + j]
  <2>1. n + 1 \in Nat /\ NWINDOW <= n + 1 /\ n + 1 <= Len(c)
    BY <1>1, Sizes
  <2> QED
    BY <2>1, WindowOf
<1>4. b = a + 1 /\ n - NWINDOW + 1 = a + 1
  BY <1>2, <1>3, Sizes
<1>5. PICK y \in Letters, x \in Letters : y = c[a + 1] /\ x = c[n + 1]
  <2>1. a + 1 \in 1..Len(c) /\ n + 1 \in 1..Len(c)
    BY <1>1, <1>2, Sizes
  <2> QED
    BY <1>1, <2>1
<1>6. PICK d \in Nat : d + 1 = NWINDOW
  <2>1. NWINDOW - 1 \in Nat /\ (NWINDOW - 1) + 1 = NWINDOW
    BY Sizes
  <2> QED
    BY <2>1
<1>7. PICK w : w = SubSeq(c, a + 2, n)
  OBVIOUS
<1>8. \A j \in a + 2..n : c[j] \in Letters
  BY <1>1
<1>9. /\ w \in Seq(Letters)
      /\ Len(w) = IF a + 2 <= n THEN n - (a + 2) + 1 ELSE 0
      /\ \A j \in 1..n - (a + 2) + 1 : w[j] = c[a + 2 + j - 1]
  BY <1>7, <1>8, SubSeqProperties
<1>10. Len(w) = d
  BY <1>2, <1>6, <1>9, Sizes
<1>11. ASSUME NEW j \in 1..d PROVE w[j] = c[a + 1 + j]
  <2>1. j \in 1..n - (a + 2) + 1 /\ a + 2 + j - 1 = a + 1 + j
    BY <1>2, <1>6, Sizes
  <2> QED
    BY <1>9, <2>1
<1>12. Window(c, n + 1) = Append(w, x)
  <2>1. PICK v : v = Append(w, x)
    OBVIOUS
  <2>2. PICK z : z = Window(c, n + 1)
    OBVIOUS
  <2>3. v \in Seq(Letters) /\ Len(v) = d + 1 /\ v[d + 1] = x /\ \A j \in 1..d : v[j] = w[j]
    BY <1>9, <1>10, <2>1, AppendProperties
  <2>4. z \in Seq(Letters) /\ Len(z) = d + 1 /\ \A j \in 1..d + 1 : z[j] = c[a + 1 + j]
    BY <1>3, <1>4, <1>6, <2>2
  <2>5. c[a + 1 + (d + 1)] = x
    <3>1. a + 1 + (d + 1) = n + 1
      BY <1>2, <1>6
    <3> QED
      BY <1>5, <3>1
  <2>6. ASSUME NEW j \in 1..d + 1 PROVE z[j] = v[j]
    <3>1. CASE j = d + 1
      BY <2>3, <2>4, <2>5, <3>1
    <3>2. CASE j # d + 1
      <4>1. j \in 1..d
        BY <3>2
      <4> QED
        BY <1>11, <2>3, <2>4, <4>1
    <3> QED
      BY <3>1, <3>2
  <2>7. z = v
    BY <2>3, <2>4, <2>6, SeqEqual
  <2> QED
    BY <2>1, <2>2, <2>7
<1>13. Window(c, n) = <<y>> \o w
  <2>0. PICK u \in Seq(Letters) : u = <<y>> /\ Len(u) = 1 /\ u[1] = y
    <3>1. <<y>> \in Seq(Letters)
      OBVIOUS
    <3>2. Len(<<y>>) = 1 /\ <<y>>[1] = y
      OBVIOUS
    <3> QED
      BY <3>1, <3>2, Zenon
  <2>1. PICK v : v = u \o w
    OBVIOUS
  <2>2. PICK z : z = Window(c, n)
    OBVIOUS
  <2>3. /\ v \in Seq(Letters) /\ Len(v) = 1 + d
        /\ \A j \in 1..1 + d : v[j] = IF j <= 1 THEN u[j] ELSE w[j - 1]
    BY <1>9, <1>10, <2>0, <2>1, ConcatProperties
  <2>4. z \in Seq(Letters) /\ Len(z) = 1 + d /\ \A j \in 1..1 + d : z[j] = c[a + j]
    <3>1. NWINDOW = 1 + d
      BY <1>6
    <3> QED
      BY <1>2, <2>2, <3>1
  <2>5. ASSUME NEW j \in 1..1 + d PROVE z[j] = v[j]
    <3>1. CASE j = 1
      BY <1>5, <2>0, <2>3, <2>4, <3>1
    <3>2. CASE j # 1
      <4>1. PICK l \in 1..d : j = l + 1 /\ j - 1 = l
        <5>1. j - 1 \in 1..d /\ j = (j - 1) + 1
          BY <3>2
        <5> QED
          BY <5>1
      <4>2. ~(j <= 1) /\ a + j = a + 1 + l
        BY <3>2, <4>1
      <4>3. v[j] = w[l] /\ z[j] = c[a + 1 + l]
        BY <2>3, <2>4, <4>1, <4>2
      <4> QED
        BY <1>11, <4>3
    <3> QED
      BY <3>1, <3>2
  <2>6. z = v
    BY <2>3, <2>4, <2>5, SeqEqual
  <2> QED
    BY <2>0, <2>1, <2>2, <2>6
<1>14. c[n - NWINDOW + 1] = y
  BY <1>4, <1>5
<1>15. Len(w) + 1 = NWINDOW
  BY <1>6, <1>10
<1> QED
  BY <1>5, <1>9, <1>12, <1>13, <1>14, <1>15

\* A step of resumePrintBuilding: from the print of a window to that of the next.
LEMMA PrintSlides ==
  ASSUME NEW c \in Seq(Letters), NEW n \in Nat, NWINDOW <= n, n < Len(c),
         rabintab = FpMkRedTab, rabinwintab = FpMkWinRedTab
  PROVE  Roll(Xor(PrintOf(Window(c, n)), rabinwintab[c[n - NWINDOW + 1]]), c[n + 1])
           = PrintOf(Window(c, n + 1))
<1>1. PICK y \in Letters, x \in Letters : y = c[n - NWINDOW + 1] /\ x = c[n + 1]
  BY WindowSlides
<1>2. PICK w \in Seq(Letters) :
           /\ Len(w) + 1 = NWINDOW
           /\ Window(c, n) = <<y>> \o w
           /\ Window(c, n + 1) = Append(w, x)
  BY <1>1, WindowSlides
<1>3. Len(w) = NWINDOW - 1 /\ Len(w) < NWINDOW
  BY <1>2, TermsOf, Sizes
<1>4. PICK t, u : t = Times(y, ByteBits * Len(w)) /\ u = PrintOf(w)
  OBVIOUS
<1>5. PrintOf(Window(c, n)) = Xor(t, u)
  BY <1>2, <1>3, <1>4, PrintPrepend
<1>6. rabinwintab[y] = t
  <2>1. rabinwintab[y] = FpWinReduce(y)
    BY DEF FpMkWinRedTab
  <2> QED
    BY <1>3, <1>4, <2>1, WinTimes
<1>7. Xor(Xor(t, u), t) = u
  <2>1. Xor(Xor(t, u), t) = Xor(Xor(u, t), t)
    BY XorLaws
  <2>2. Xor(Xor(u, t), t) = Xor(u, Xor(t, t))
    BY XorLaws
  <2>3. Xor(u, Xor(t, t)) = u
    BY XorLaws
  <2> QED
    BY <2>1, <2>2, <2>3
<1>8. Roll(u, x) = Xor(Times(u, ByteBits), x)
  BY <1>4, PrintWord, RollTimes
<1>9. PrintOf(Append(w, x)) = Xor(Times(u, ByteBits), x)
  BY <1>3, <1>4, PrintAppend
<1> QED
  BY <1>1, <1>2, <1>5, <1>6, <1>7, <1>8, <1>9

-----------------------------------------------------------------------------
\* The parts of a content.
LEMMA PartOf ==
  ASSUME NEW k \in Contents, NEW a \in Nat, NEW b \in Nat, a <= b, b <= BlockSize
  PROVE  /\ SubSeq(k, a + 1, b) \in Seq(Letters) /\ Len(SubSeq(k, a + 1, b)) = b - a
         /\ \A j \in 1..b - a : SubSeq(k, a + 1, b)[j] = k[a + j]
<1>1. k \in [1..BlockSize -> Letters] /\ BlockSize \in Nat
  BY RabinAssumption
<1>2. PICK w : w = SubSeq(k, a + 1, b)
  OBVIOUS
<1>3. \A j \in a + 1..b : k[j] \in Letters
  BY <1>1
<1>4. /\ w \in Seq(Letters) /\ Len(w) = IF a + 1 <= b THEN b - (a + 1) + 1 ELSE 0
      /\ \A j \in 1..b - (a + 1) + 1 : w[j] = k[a + 1 + j - 1]
  BY <1>2, <1>3, SubSeqProperties
<1>5. Len(w) = b - a
  BY <1>4
<1>6. ASSUME NEW j \in 1..b - a PROVE w[j] = k[a + j]
  <2>1. j \in 1..b - (a + 1) + 1 /\ a + 1 + j - 1 = a + j
    OBVIOUS
  <2> QED
    BY <1>4, <2>1
<1> QED
  BY <1>2, <1>4, <1>5, <1>6

LEMMA PartsOfPart ==
  ASSUME NEW k \in Contents, NEW a \in Nat, NEW b \in Nat, NEW n \in Nat,
         a + n <= b, b <= BlockSize
  PROVE  /\ Kept(SubSeq(k, a + 1, b), n) = SubSeq(k, a + 1, a + n)
         /\ SplitOff(SubSeq(k, a + 1, b), n) = SubSeq(k, a + n + 1, b)
<1>1. BlockSize \in Nat
  BY Sizes
<1>2. PICK w : w = SubSeq(k, a + 1, b)
  OBVIOUS
<1>3. w \in Seq(Letters) /\ Len(w) = b - a /\ \A j \in 1..b - a : w[j] = k[a + j]
  BY <1>2, PartOf
<1>4. \A j \in 1..b - a : w[j] \in Letters
  BY <1>3, ElementOfSeq
<1>5. Kept(w, n) = SubSeq(k, a + 1, a + n)
  <2>1. PICK u, v : u = SubSeq(w, 1, n) /\ v = SubSeq(k, a + 1, a + n)
    OBVIOUS
  <2>2. PICK c \in Nat : c = a + n
    OBVIOUS
  <2>3. v \in Seq(Letters) /\ Len(v) = c - a /\ \A j \in 1..c - a : v[j] = k[a + j]
    <3>1. a <= c /\ c <= BlockSize
      BY <1>1, <2>2
    <3>2. v = SubSeq(k, a + 1, c)
      BY <2>1, <2>2
    <3> QED
      BY <3>1, <3>2, PartOf
  <2>4. c - a = n
    BY <2>2
  <2>5. \A j \in 1..n : w[j] \in Letters
    BY <1>4
  <2>6. /\ u \in Seq(Letters) /\ Len(u) = IF 1 <= n THEN n - 1 + 1 ELSE 0
        /\ \A j \in 1..n - 1 + 1 : u[j] = w[1 + j - 1]
    BY <2>1, <2>5, SubSeqProperties
  <2>7. Len(u) = n
    BY <2>6
  <2>8. ASSUME NEW j \in 1..n PROVE u[j] = v[j]
    <3>1. j \in 1..n - 1 + 1 /\ 1 + j - 1 = j /\ j \in 1..b - a
      OBVIOUS
    <3> QED
      BY <1>3, <2>3, <2>4, <2>6, <3>1
  <2>9. u = v
    BY <2>3, <2>4, <2>6, <2>7, <2>8, SeqEqual
  <2> QED
    BY <2>1, <2>9 DEF Kept
<1>6. SplitOff(w, n) = SubSeq(k, a + n + 1, b)
  <2>1. PICK u, v : u = SubSeq(w, n + 1, b - a) /\ v = SubSeq(k, a + n + 1, b)
    OBVIOUS
  <2>2. PICK c \in Nat : c = a + n
    OBVIOUS
  <2>3. v \in Seq(Letters) /\ Len(v) = b - c /\ \A j \in 1..b - c : v[j] = k[c + j]
    <3>1. c <= b /\ v = SubSeq(k, c + 1, b)
      BY <2>1, <2>2
    <3> QED
      BY <3>1, PartOf
  <2>4. \A j \in n + 1..b - a : w[j] \in Letters
    BY <1>4
  <2>5. /\ u \in Seq(Letters)
        /\ Len(u) = IF n + 1 <= b - a THEN b - a - (n + 1) + 1 ELSE 0
        /\ \A j \in 1..b - a - (n + 1) + 1 : u[j] = w[n + 1 + j - 1]
    <3>1. PICK q \in Int, l \in Int : q = n + 1 /\ l = b - a
      OBVIOUS
    <3>2. u = SubSeq(w, q, l) /\ \A j \in q..l : w[j] \in Letters
      BY <2>1, <2>4, <3>1
    <3>3. /\ u \in Seq(Letters) /\ Len(u) = IF q <= l THEN l - q + 1 ELSE 0
          /\ \A j \in 1..l - q + 1 : u[j] = w[q + j - 1]
      BY <3>2, SubSeqProperties
    <3> QED
      BY <3>1, <3>3
  <2>6. Len(u) = b - c
    BY <2>2, <2>5
  <2>7. ASSUME NEW j \in 1..b - c PROVE u[j] = v[j]
    <3>1. /\ j \in 1..b - a - (n + 1) + 1 /\ n + 1 + j - 1 = n + j
          /\ n + j \in 1..b - a /\ a + (n + j) = c + j
      BY <2>2
    <3>2. u[j] = w[n + j] /\ w[n + j] = k[a + (n + j)]
      BY <1>3, <2>5, <3>1
    <3> QED
      BY <2>3, <3>1, <3>2
  <2>8. u = v
    BY <2>3, <2>5, <2>6, <2>7, SeqEqual
  <2> QED
    BY <1>3, <2>1, <2>8 DEF SplitOff
<1> QED
  BY <1>2, <1>5, <1>6

\* A full window at the end of a part is a window of the content.
LEMMA PartWindow ==
  ASSUME NEW k \in Contents, NEW a \in Nat, NEW n \in Nat,
         NWINDOW <= n, a + n <= BlockSize
  PROVE  Window(SubSeq(k, a + 1, BlockSize), n) = Window(k, a + n)
<1>1. BlockSize \in Nat /\ a <= BlockSize
  BY Sizes
<1>2. PICK c : c = SubSeq(k, a + 1, BlockSize)
  OBVIOUS
<1>3. /\ c \in Seq(Letters) /\ Len(c) = BlockSize - a
      /\ \A j \in 1..BlockSize - a : c[j] = k[a + j]
  <2>1. BlockSize <= BlockSize
    BY <1>1
  <2> QED
    BY <1>1, <1>2, <2>1, PartOf
<1>4. k \in Seq(Letters) /\ Len(k) = BlockSize
  <2>1. k \in [1..BlockSize -> Letters]
    BY RabinAssumption
  <2> QED
    BY <1>1, <2>1
<1>5. PICK d \in Nat :
           /\ n = d + NWINDOW
           /\ Window(c, n) \in Seq(Letters) /\ Len(Window(c, n)) = NWINDOW
           /\ \A j \in 1..NWINDOW : Window(c, n)[j] = c[d + j]
  <2>1. n <= Len(c)
    BY <1>1, <1>3
  <2> QED
    BY <1>3, <2>1, WindowOf
<1>6. PICK e \in Nat :
           /\ a + n = e + NWINDOW
           /\ Window(k, a + n) \in Seq(Letters) /\ Len(Window(k, a + n)) = NWINDOW
           /\ \A j \in 1..NWINDOW : Window(k, a + n)[j] = k[e + j]
  <2>1. a + n \in Nat /\ NWINDOW <= a + n /\ a + n <= Len(k)
    BY <1>4, Sizes
  <2> QED
    BY <1>4, <2>1, WindowOf
<1>7. PICK u, v : u = Window(c, n) /\ v = Window(k, a + n)
  OBVIOUS
<1>8. ASSUME NEW j \in 1..NWINDOW PROVE u[j] = v[j]
  <2>1. d + j \in 1..BlockSize - a /\ a + (d + j) = e + j
    <3>1. NWINDOW \in Nat /\ n = d + NWINDOW /\ a + n = e + NWINDOW
      BY <1>5, <1>6, Sizes
    <3> QED
      BY <1>1, <3>1
  <2>2. u[j] = c[d + j] /\ c[d + j] = k[a + (d + j)] /\ v[j] = k[e + j]
    BY <1>3, <1>5, <1>6, <1>7, <2>1
  <2> QED
    BY <2>1, <2>2
<1>9. u = v
  BY <1>5, <1>6, <1>7, <1>8, SeqEqual
<1> QED
  BY <1>2, <1>7, <1>9

-----------------------------------------------------------------------------
\* Where a content is cut.
EndsAt(k, s, e) == IsBoundary(e - s, PrintOf(Window(k, e)))
Ends(k, s) == {e \in s + NWINDOW + 1..BlockSize : EndsAt(k, s, e)}

LEMMA EndFromBy ==
  ASSUME NEW k, NEW s \in Nat
  PROVE  /\ Ends(k, s) = {} => EndFrom(k, s) = BlockSize
         /\ Ends(k, s) # {} =>
              EndFrom(k, s) \in Ends(k, s) /\ \A d \in Ends(k, s) : EndFrom(k, s) <= d
         /\ Ends(k, s) \in SUBSET Nat
<1>1. PICK E : E = Ends(k, s)
  OBVIOUS
<1>2. EndFrom(k, s) = IF E = {} THEN BlockSize ELSE CHOOSE e \in E : \A d \in E : e <= d
  BY <1>1 DEF EndFrom, Ends, EndsAt
<1>3. E \in SUBSET Nat
  BY <1>1, Sizes DEF Ends
<1>4. ASSUME E # {}
      PROVE  EndFrom(k, s) \in E /\ \A d \in E : EndFrom(k, s) <= d
  <2>1. \E e \in E : \A d \in E : e <= d
    BY <1>3, <1>4, SmallestOne
  <2>2. PICK e0 : e0 = CHOOSE e \in E : \A d \in E : e <= d
    OBVIOUS
  <2>3. e0 \in E /\ \A d \in E : e0 <= d
    BY <2>1, <2>2, Zenon
  <2> QED
    BY <1>2, <1>4, <2>2, <2>3
<1> QED
  BY <1>1, <1>2, <1>3, <1>4

LEMMA EndFromWithin ==
  ASSUME NEW k, NEW s \in 0..BlockSize - 1
  PROVE  EndFrom(k, s) \in s + 1..BlockSize
<1>1. s \in Nat /\ BlockSize \in Nat
  BY Sizes
<1>2. CASE Ends(k, s) = {}
  BY <1>1, <1>2, EndFromBy
<1>3. CASE Ends(k, s) # {}
  <2>1. EndFrom(k, s) \in Ends(k, s)
    BY <1>1, <1>3, EndFromBy
  <2>2. EndFrom(k, s) \in s + NWINDOW + 1..BlockSize
    BY <2>1 DEF Ends
  <2> QED
    BY <1>1, <2>2, Sizes
<1> QED
  BY <1>2, <1>3

\* The first boundary behind a window, or the end without one.
LEMMA EndFromFirst ==
  ASSUME NEW k, NEW s \in 0..BlockSize - 1, NEW n \in Nat, s + n <= BlockSize,
         \A e \in s + NWINDOW + 1..s + n - 1 : ~EndsAt(k, s, e),
         \/ NWINDOW < n /\ EndsAt(k, s, s + n)
         \/ s + n = BlockSize
  PROVE  EndFrom(k, s) = s + n
<1>1. s \in Nat /\ BlockSize \in Nat /\ NWINDOW \in Nat
  BY Sizes
<1>2. ASSUME NEW d \in Ends(k, s) PROVE s + n <= d
  <2>1. d \in s + NWINDOW + 1..BlockSize /\ EndsAt(k, s, d)
    BY DEF Ends
  <2>2. ~(d \in s + NWINDOW + 1..s + n - 1)
    BY <2>1
  <2> QED
    BY <1>1, <2>1, <2>2
<1>3. PICK e : e = EndFrom(k, s)
  OBVIOUS
<1>4. CASE Ends(k, s) = {}
  <2>1. e = BlockSize
    BY <1>1, <1>3, <1>4, EndFromBy
  <2>2. CASE s + n = BlockSize
    BY <1>3, <2>1, <2>2
  <2>3. CASE NWINDOW < n /\ EndsAt(k, s, s + n)
    <3>1. s + n \in s + NWINDOW + 1..BlockSize
      BY <1>1, <2>3
    <3>2. s + n \in Ends(k, s)
      BY <2>3, <3>1 DEF Ends
    <3> QED
      BY <1>4, <3>2
  <2> QED
    BY <2>2, <2>3
<1>5. CASE Ends(k, s) # {}
  <2>1. e \in Ends(k, s) /\ \A d \in Ends(k, s) : e <= d
    BY <1>1, <1>3, <1>5, EndFromBy
  <2>2. s + n <= e /\ e \in Nat /\ e <= BlockSize
    <3>1. e \in s + NWINDOW + 1..BlockSize
      BY <2>1 DEF Ends
    <3> QED
      BY <1>1, <1>2, <2>1, <3>1
  <2>3. CASE s + n = BlockSize
    BY <1>1, <1>3, <2>2, <2>3
  <2>4. CASE NWINDOW < n /\ EndsAt(k, s, s + n)
    <3>1. s + n \in s + NWINDOW + 1..BlockSize
      BY <1>1, <2>4
    <3>2. s + n \in Ends(k, s)
      BY <2>4, <3>1 DEF Ends
    <3>3. e <= s + n
      BY <2>1, <3>2
    <3> QED
      BY <1>1, <1>3, <2>2, <3>3
  <2> QED
    BY <2>3, <2>4
<1> QED
  BY <1>4, <1>5

PieceType == [offset : 0..BlockSize - 1, key : Seq(Letters)]
PieceAt(k, s) == [offset |-> s, key |-> SubSeq(k, s + 1, EndFrom(k, s))]

LEMMA PieceAtFacts ==
  ASSUME NEW k \in Contents, NEW s \in 0..BlockSize - 1
  PROVE  /\ PieceAt(k, s) \in PieceType
         /\ PieceAt(k, s).offset = s
         /\ PieceAt(k, s).key = SubSeq(k, s + 1, EndFrom(k, s))
         /\ Len(PieceAt(k, s).key) = EndFrom(k, s) - s
         /\ EndFrom(k, s) \in s + 1..BlockSize
<1>1. PICK e \in Nat : e = EndFrom(k, s) /\ e \in s + 1..BlockSize
  BY EndFromWithin, Sizes
<1>2. PICK w : w = SubSeq(k, s + 1, e)
  OBVIOUS
<1>3. s \in Nat /\ s <= e /\ e <= BlockSize
  BY <1>1, Sizes
<1>4. w \in Seq(Letters) /\ Len(w) = e - s
  BY <1>2, <1>3, PartOf
<1>5. PieceAt(k, s) = [offset |-> s, key |-> w]
  BY <1>1, <1>2 DEF PieceAt
<1>6. PieceAt(k, s) \in PieceType
  BY <1>4, <1>5 DEF PieceType
<1>7. PieceAt(k, s).offset = s /\ PieceAt(k, s).key = w
  BY <1>5
<1> QED
  BY <1>1, <1>2, <1>4, <1>6, <1>7

\* The equations of CutFrom from a letter on.
CutsAt(g, k, s) ==
  g[s] = IF s = BlockSize THEN <<>> ELSE <<PieceAt(k, s)>> \o g[EndFrom(k, s)]
Solves(g, k, a) == \A s \in a..BlockSize : CutsAt(g, k, s)

LEMMA CutSolved ==
  ASSUME NEW k
  PROVE  \E g : Solves(g, k, 0)
<1>1. BlockSize \in Nat
  BY Sizes
<1>2. PICK T : T = {n \in 0..BlockSize : \E g : Solves(g, k, BlockSize - n)}
  OBVIOUS
<1>3. 0 \in T
  <2>1. PICK g : g = [s \in {BlockSize} |-> <<>>]
    OBVIOUS
  <2>2. ASSUME NEW s \in BlockSize - 0..BlockSize PROVE CutsAt(g, k, s)
    <3>1. s = BlockSize
      BY <1>1
    <3> QED
      BY <2>1, <3>1 DEF CutsAt
  <2>3. Solves(g, k, BlockSize - 0)
    BY <2>2 DEF Solves
  <2> QED
    BY <1>1, <1>2, <2>3
<1>4. ASSUME NEW n \in 1..BlockSize, n - 1 \in T PROVE n \in T
  <2>1. PICK a \in 0..BlockSize - 1 : a = BlockSize - n /\ BlockSize - (n - 1) = a + 1
    <3>1. BlockSize - n \in 0..BlockSize - 1 /\ BlockSize - (n - 1) = (BlockSize - n) + 1
      BY <1>1
    <3> QED
      BY <3>1
  <2>2. PICK g : Solves(g, k, a + 1)
    BY <1>2, <1>4, <2>1
  <2>3. PICK f : f = [s \in a..BlockSize |->
                        IF s = a THEN <<PieceAt(k, a)>> \o g[EndFrom(k, a)] ELSE g[s]]
    OBVIOUS
  <2>4. ASSUME NEW s \in a + 1..BlockSize PROVE f[s] = g[s]
    <3>1. s \in a..BlockSize /\ s # a
      OBVIOUS
    <3> QED
      BY <2>3, <3>1
  <2>5. ASSUME NEW s \in a..BlockSize, s # BlockSize
        PROVE  f[EndFrom(k, s)] = g[EndFrom(k, s)]
    <3>1. s \in 0..BlockSize - 1
      BY <1>1, <2>5
    <3>2. EndFrom(k, s) \in s + 1..BlockSize
      BY <3>1, EndFromWithin
    <3>3. EndFrom(k, s) \in a + 1..BlockSize
      BY <3>2
    <3> QED
      BY <2>4, <3>3
  <2>6. ASSUME NEW s \in a..BlockSize PROVE CutsAt(f, k, s)
    <3>1. CASE s = a
      <4>1. s # BlockSize
        BY <1>1, <3>1
      <4>2. f[s] = <<PieceAt(k, s)>> \o g[EndFrom(k, s)]
        BY <2>3, <3>1
      <4> QED
        BY <2>5, <4>1, <4>2 DEF CutsAt
    <3>2. CASE s # a
      <4>1. s \in a + 1..BlockSize
        BY <3>2
      <4>2. CutsAt(g, k, s)
        BY <2>2, <4>1 DEF Solves
      <4>3. f[s] = g[s]
        BY <2>4, <4>1
      <4>4. CASE s = BlockSize
        BY <4>2, <4>3, <4>4 DEF CutsAt
      <4>5. CASE s # BlockSize
        BY <2>5, <4>2, <4>3, <4>5 DEF CutsAt
      <4> QED
        BY <4>4, <4>5
    <3> QED
      BY <3>1, <3>2
  <2>7. Solves(f, k, BlockSize - n)
    BY <2>1, <2>6 DEF Solves
  <2> QED
    BY <1>2, <2>7
<1>5. \A n \in 0..BlockSize : n \in T
  BY <1>1, <1>3, <1>4, AllTurns
<1>6. BlockSize \in T /\ BlockSize - BlockSize = 0
  BY <1>1, <1>5
<1> QED
  BY <1>2, <1>6

CutsBy(g, k) ==
  g = [s \in 0..BlockSize |->
         IF s = BlockSize THEN <<>>
         ELSE <<[offset |-> s, key |-> SubSeq(k, s + 1, EndFrom(k, s))]>> \o g[EndFrom(k, s)]]

LEMMA CutTurns ==
  ASSUME NEW k
  PROVE  Solves(CutFrom(k), k, 0)
<1>1. PICK g : Solves(g, k, 0)
  BY CutSolved
<1>2. PICK f : f = [s \in 0..BlockSize |-> g[s]]
  OBVIOUS
<1>3. BlockSize \in Nat
  BY Sizes
<1>4. ASSUME NEW s \in 0..BlockSize
      PROVE  f[s] = IF s = BlockSize THEN <<>>
                    ELSE <<[offset |-> s, key |-> SubSeq(k, s + 1, EndFrom(k, s))]>>
                           \o f[EndFrom(k, s)]
  <2>1. CutsAt(g, k, s) /\ f[s] = g[s]
    BY <1>1, <1>2 DEF Solves
  <2>2. CASE s = BlockSize
    BY <2>1, <2>2 DEF CutsAt
  <2>3. CASE s # BlockSize
    <3>1. s \in 0..BlockSize - 1
      BY <1>3, <2>3
    <3>2. EndFrom(k, s) \in s + 1..BlockSize
      BY <3>1, EndFromWithin
    <3>3. EndFrom(k, s) \in 0..BlockSize
      BY <3>1, <3>2
    <3>4. f[EndFrom(k, s)] = g[EndFrom(k, s)]
      BY <1>2, <3>3
    <3> QED
      BY <2>1, <2>3, <3>4 DEF CutsAt, PieceAt
  <2> QED
    BY <2>2, <2>3
<1>5. CutsBy(f, k)
  <2>1. f = [s \in 0..BlockSize |-> f[s]]
    BY <1>2
  <2>2. [s \in 0..BlockSize |-> f[s]]
          = [s \in 0..BlockSize |->
               IF s = BlockSize THEN <<>>
               ELSE <<[offset |-> s, key |-> SubSeq(k, s + 1, EndFrom(k, s))]>>
                      \o f[EndFrom(k, s)]]
    BY <1>4
  <2> QED
    BY <2>1, <2>2, Zenon DEF CutsBy
<1>6. PICK c : c = CHOOSE f0 : CutsBy(f0, k)
  OBVIOUS
<1>7. CutsBy(c, k)
  BY <1>5, <1>6, Zenon
<1>8. CutFrom(k) = c
  BY <1>6 DEF CutFrom, CutsBy
<1>9. \A s \in 0..BlockSize :
        c[s] = IF s = BlockSize THEN <<>>
               ELSE <<[offset |-> s, key |-> SubSeq(k, s + 1, EndFrom(k, s))]>>
                      \o c[EndFrom(k, s)]
  BY <1>7, Zenon DEF CutsBy
<1> QED
  BY <1>8, <1>9, Zenon DEF Solves, CutsAt, PieceAt

\* The chunks from a letter on tile the content from there to its end.
TilesFrom(cs, k, s) ==
  /\ cs \in Seq(PieceType)
  /\ cs = <<>> <=> s = BlockSize
  /\ cs # <<>> => /\ cs[1].offset = s
                 /\ cs[Len(cs)].offset + Len(cs[Len(cs)].key) = BlockSize
  /\ \A j \in 1..Len(cs) :
       /\ Len(cs[j].key) > 0
       /\ cs[j].key = SubSeq(k, cs[j].offset + 1, cs[j].offset + Len(cs[j].key))
       /\ j # 1 => cs[j].offset = cs[j - 1].offset + Len(cs[j - 1].key)

LEMMA CutTilesFrom ==
  ASSUME NEW k \in Contents, NEW s \in 0..BlockSize
  PROVE  TilesFrom(CutFrom(k)[s], k, s)
<1>1. BlockSize \in Nat
  BY Sizes
<1>2. PICK c : c = CutFrom(k)
  OBVIOUS
<1>3. PICK T : T = {n \in 0..BlockSize : \A a \in BlockSize - n..BlockSize : TilesFrom(c[a], k, a)}
  OBVIOUS
<1>4. \A a \in 0..BlockSize : CutsAt(c, k, a)
  BY <1>2, CutTurns DEF Solves
<1>5. 0 \in T
  <2>1. ASSUME NEW a \in BlockSize - 0..BlockSize PROVE TilesFrom(c[a], k, a)
    <3>1. a = BlockSize
      BY <1>1
    <3>2. c[a] = <<>>
      <4>1. a \in 0..BlockSize
        BY <1>1, <3>1
      <4>2. CutsAt(c, k, a)
        BY <1>4, <4>1
      <4> QED
        BY <3>1, <4>2 DEF CutsAt
    <3>3. <<>> \in Seq(PieceType) /\ Len(<<>>) = 0
      BY EmptySeq
    <3> QED
      BY <3>1, <3>2, <3>3 DEF TilesFrom
  <2> QED
    BY <1>1, <1>3, <2>1
<1>6. ASSUME NEW n \in 1..BlockSize, n - 1 \in T PROVE n \in T
  <2>1. PICK a \in 0..BlockSize - 1 : a = BlockSize - n /\ BlockSize - (n - 1) = a + 1
    <3>1. BlockSize - n \in 0..BlockSize - 1 /\ BlockSize - (n - 1) = (BlockSize - n) + 1
      BY <1>1
    <3> QED
      BY <3>1
  <2>2. \A b \in a + 1..BlockSize : TilesFrom(c[b], k, b)
    BY <1>3, <1>6, <2>1
  <2>3. PICK e \in a + 1..BlockSize : e = EndFrom(k, a)
    BY EndFromWithin
  <2>4. PICK q : q = c[e]
    OBVIOUS
  <2>5. TilesFrom(q, k, e)
    BY <2>2, <2>4
  <2>6. PICK r \in PieceType : r = PieceAt(k, a)
    BY PieceAtFacts
  <2>7. /\ r.offset = a /\ Len(r.key) = e - a /\ r.key = SubSeq(k, a + 1, e)
        /\ a + (e - a) = e /\ e - a > 0 /\ e \in Nat /\ a # BlockSize /\ a \in Nat
    <3>1. r.offset = a /\ Len(r.key) = e - a /\ r.key = SubSeq(k, a + 1, e)
      BY <2>3, <2>6, PieceAtFacts
    <3>2. a + (e - a) = e /\ e - a > 0 /\ e \in Nat /\ a # BlockSize /\ a \in Nat
      BY <1>1, <2>3
    <3> QED
      BY <3>1, <3>2
  <2>8. PICK cs : cs = c[a]
    OBVIOUS
  <2>9. cs = <<r>> \o q
    <3>1. a \in 0..BlockSize
      BY <1>1
    <3>2. CutsAt(c, k, a)
      BY <1>4, <3>1
    <3>3. c[a] = <<PieceAt(k, a)>> \o c[EndFrom(k, a)]
      BY <2>7, <3>2 DEF CutsAt
    <3> QED
      BY <2>3, <2>4, <2>6, <2>8, <3>3
  <2>10. PICK u \in Seq(PieceType) : u = <<r>> /\ Len(u) = 1 /\ u[1] = r
    <3>1. <<r>> \in Seq(PieceType)
      OBVIOUS
    <3>2. Len(<<r>>) = 1 /\ <<r>>[1] = r
      OBVIOUS
    <3> QED
      BY <3>1, <3>2, Zenon
  <2>11. q \in Seq(PieceType)
    BY <2>5 DEF TilesFrom
  <2>12. PICK m \in Nat : m = Len(q)
    BY <2>11, LenProperties
  <2>13. /\ cs \in Seq(PieceType) /\ Len(cs) = 1 + m
         /\ \A j \in 1..1 + m : cs[j] = IF j <= 1 THEN u[j] ELSE q[j - 1]
    BY <2>9, <2>10, <2>11, <2>12, ConcatProperties
  <2>14. cs[1] = r
    BY <2>10, <2>12, <2>13
  <2>15. ASSUME NEW j \in 1..m PROVE cs[j + 1] = q[j]
    <3>1. j + 1 \in 1..1 + m /\ ~(j + 1 <= 1) /\ j + 1 - 1 = j
      OBVIOUS
    <3> QED
      BY <2>13, <3>1
  <2>16. m = 0 <=> e = BlockSize
    <3>1. q = <<>> <=> e = BlockSize
      BY <2>5 DEF TilesFrom
    <3>2. m = 0 <=> q = <<>>
      BY <2>11, <2>12, EmptySeq
    <3> QED
      BY <3>1, <3>2
  <2>17. /\ \A j \in 1..m : /\ Len(q[j].key) > 0
                            /\ q[j].key = SubSeq(k, q[j].offset + 1, q[j].offset + Len(q[j].key))
                            /\ j # 1 => q[j].offset = q[j - 1].offset + Len(q[j - 1].key)
         /\ m # 0 => q[1].offset = e /\ q[m].offset + Len(q[m].key) = BlockSize
    <3>1. m # 0 => q # <<>>
      BY <2>11, <2>12, EmptySeq
    <3> QED
      BY <2>5, <2>12, <3>1 DEF TilesFrom
  <2>18. cs[1 + m].offset + Len(cs[1 + m].key) = BlockSize
    <3>1. CASE m = 0
      <4>1. 1 + m = 1 /\ cs[1 + m] = r
        BY <2>14, <3>1
      <4> QED
        BY <2>7, <2>16, <3>1, <4>1
    <3>2. CASE m # 0
      <4>1. m \in 1..m /\ 1 + m = m + 1
        BY <2>12, <3>2
      <4>2. cs[1 + m] = q[m]
        BY <2>15, <4>1
      <4> QED
        BY <2>17, <3>2, <4>2
    <3> QED
      BY <3>1, <3>2
  <2>19. ASSUME NEW j \in 1..1 + m
         PROVE  /\ Len(cs[j].key) > 0
                /\ cs[j].key = SubSeq(k, cs[j].offset + 1, cs[j].offset + Len(cs[j].key))
                /\ j # 1 => cs[j].offset = cs[j - 1].offset + Len(cs[j - 1].key)
    <3>1. CASE j = 1
      BY <2>7, <2>14, <3>1
    <3>2. CASE j # 1
      <4>1. PICK l \in 1..m : j = l + 1 /\ j - 1 = l
        <5>1. j - 1 \in 1..m /\ j = (j - 1) + 1
          BY <2>12, <3>2
        <5> QED
          BY <5>1
      <4>2. cs[j] = q[l]
        BY <2>15, <4>1
      <4>3. cs[j].offset = cs[j - 1].offset + Len(cs[j - 1].key)
        <5>1. CASE l = 1
          <6>1. m # 0 /\ cs[j - 1] = r
            BY <2>12, <2>14, <4>1, <5>1
          <6> QED
            BY <2>7, <2>17, <4>2, <5>1, <6>1
        <5>2. CASE l # 1
          <6>1. PICK d \in 1..m : l = d + 1 /\ l - 1 = d
            <7>1. l - 1 \in 1..m /\ l = (l - 1) + 1
              BY <2>12, <5>2
            <7> QED
              BY <7>1
          <6>2. cs[j - 1] = q[d]
            BY <2>15, <4>1, <6>1
          <6>3. q[l].offset = q[d].offset + Len(q[d].key)
            BY <2>17, <5>2, <6>1
          <6> QED
            BY <4>2, <6>2, <6>3
        <5> QED
          BY <5>1, <5>2
      <4> QED
        BY <2>17, <4>2, <4>3
    <3> QED
      BY <3>1, <3>2
  <2>20. cs # <<>>
    BY <2>12, <2>13, EmptySeq
  <2>21. TilesFrom(cs, k, a)
    BY <2>7, <2>13, <2>14, <2>18, <2>19, <2>20 DEF TilesFrom
  <2>22. ASSUME NEW b \in BlockSize - n..BlockSize PROVE TilesFrom(c[b], k, b)
    <3>1. CASE b = a
      BY <2>8, <2>21, <3>1
    <3>2. CASE b # a
      <4>1. b \in a + 1..BlockSize
        BY <1>1, <2>1, <3>2
      <4> QED
        BY <2>2, <4>1
    <3> QED
      BY <3>1, <3>2
  <2> QED
    BY <1>3, <2>22
<1>7. \A n \in 0..BlockSize : n \in T
  BY <1>1, <1>5, <1>6, AllTurns
<1>8. BlockSize \in T /\ BlockSize - BlockSize = 0
  BY <1>1, <1>7
<1>9. \A a \in 0..BlockSize : TilesFrom(c[a], k, a)
  BY <1>3, <1>8
<1> QED
  BY <1>2, <1>9

-----------------------------------------------------------------------------
\* The chunks handed on so far: they end at letter s, and the cut of the
\* content is them and the cut from there.
Cut(cs, k, s) ==
  /\ cs \in Seq(PieceType) /\ s \in 0..BlockSize
  /\ End(cs, Len(cs)) = s
  /\ Tiling(cs, k)
  /\ CutOf(k) = cs \o CutFrom(k)[s]

LEMMA NoneCut == ASSUME NEW k \in Contents PROVE Cut(<<>>, k, 0)
<1>1. BlockSize \in Nat /\ 0 \in 0..BlockSize
  BY Sizes
<1>2. <<>> \in Seq(PieceType) /\ Len(<<>>) = 0
  BY EmptySeq
<1>3. End(<<>>, Len(<<>>)) = 0
  BY <1>2 DEF End
<1>4. Tiling(<<>>, k)
  BY DEF Tiling
<1>5. PICK c \in Seq(PieceType) : c = CutFrom(k)[0]
  BY <1>1, CutTilesFrom DEF TilesFrom
<1>6. CutOf(k) = <<>> \o c
  BY <1>5, ConcatEmptySeq DEF CutOf
<1> QED
  BY <1>1, <1>2, <1>3, <1>4, <1>5, <1>6 DEF Cut

Regroups(cs, q, r) == (cs \o q) \o r = cs \o (q \o r)

LEMMA Regrouped ==
  ASSUME NEW S, NEW cs \in Seq(S), NEW q \in Seq(S), NEW r \in Seq(S)
  PROVE  Regroups(cs, q, r)
BY ConcatAssociative DEF Regroups

\* processChunk of what is cut next.
LEMMA NextCut ==
  ASSUME NEW k \in Contents, NEW cs, NEW s \in 0..BlockSize - 1, Cut(cs, k, s),
         NEW r, r = PieceAt(k, s)
  PROVE  Cut(Append(cs, r), k, EndFrom(k, s))
<1>1. /\ r \in PieceType /\ r.offset = s /\ EndFrom(k, s) \in s + 1..BlockSize
      /\ r.key = SubSeq(k, s + 1, EndFrom(k, s)) /\ Len(r.key) = EndFrom(k, s) - s
  BY PieceAtFacts
<1>2. PICK e \in Nat : e = EndFrom(k, s) /\ e \in s + 1..BlockSize
  BY <1>1, Sizes
<1>3. s \in Nat /\ s + (e - s) = e /\ e - s > 0 /\ e \in 0..BlockSize /\ s # BlockSize
  BY <1>2, Sizes
<1>4. cs \in Seq(PieceType) /\ End(cs, Len(cs)) = s /\ Tiling(cs, k) /\ CutOf(k) = cs \o CutFrom(k)[s]
  BY DEF Cut
<1>5. PICK m \in Nat : m = Len(cs) /\ DOMAIN cs = 1..m
  BY <1>4, LenProperties
<1>6. PICK q : q = Append(cs, r)
  OBVIOUS
<1>7. /\ q \in Seq(PieceType) /\ Len(q) = m + 1 /\ q[m + 1] = r
      /\ \A j \in 1..m : q[j] = cs[j]
  BY <1>1, <1>4, <1>5, <1>6, AppendProperties
<1>8. DOMAIN q = 1..m + 1
  BY <1>7, LenProperties
<1>9. ASSUME NEW j \in 0..m PROVE End(q, j) = End(cs, j)
  BY <1>7 DEF End
<1>10. End(q, m + 1) = e
  <2>1. m + 1 # 0
    OBVIOUS
  <2> QED
    BY <1>1, <1>2, <1>3, <1>7, <2>1 DEF End
<1>11. ASSUME NEW j \in 1..m + 1
       PROVE  /\ q[j].offset = End(q, j - 1)
              /\ Len(q[j].key) > 0
              /\ q[j].key = SubSeq(k, End(q, j - 1) + 1, End(q, j))
  <2>1. CASE j = m + 1
    <3>1. j - 1 = m /\ m \in 0..m
      BY <2>1
    <3>2. End(q, j - 1) = s
      BY <1>4, <1>5, <1>9, <3>1
    <3> QED
      BY <1>1, <1>2, <1>3, <1>7, <1>10, <2>1, <3>2
  <2>2. CASE j # m + 1
    <3>1. j \in 1..m /\ j \in 0..m /\ j - 1 \in 0..m
      BY <2>2
    <3>2. End(q, j) = End(cs, j) /\ End(q, j - 1) = End(cs, j - 1) /\ q[j] = cs[j]
      BY <1>7, <1>9, <3>1
    <3>3. /\ cs[j].offset = End(cs, j - 1)
          /\ Len(cs[j].key) > 0
          /\ cs[j].key = SubSeq(k, End(cs, j - 1) + 1, End(cs, j))
      BY <1>4, <1>5, <3>1 DEF Tiling
    <3> QED
      BY <3>2, <3>3
  <2> QED
    BY <2>1, <2>2
<1>12. Tiling(q, k)
  BY <1>8, <1>11 DEF Tiling
<1>13. CutOf(k) = q \o CutFrom(k)[e]
  <2>1. PICK c \in Seq(PieceType) : c = CutFrom(k)[e]
    BY <1>3, CutTilesFrom DEF TilesFrom
  <2>2. PICK u \in Seq(PieceType) : u = <<r>>
    <3>1. <<r>> \in Seq(PieceType)
      BY <1>1
    <3> QED
      BY <3>1
  <2>3. CutFrom(k)[s] = u \o c
    <3>1. s \in 0..BlockSize
      BY Sizes
    <3>2. CutsAt(CutFrom(k), k, s)
      BY <3>1, CutTurns DEF Solves
    <3>3. CutFrom(k)[s] = <<PieceAt(k, s)>> \o CutFrom(k)[EndFrom(k, s)]
      BY <1>3, <3>2 DEF CutsAt
    <3> QED
      BY <1>2, <2>1, <2>2, <3>3
  <2>4. q = cs \o u
    BY <1>1, <1>4, <1>6, <2>2, AppendIsConcat
  <2>5. (cs \o u) \o c = cs \o (u \o c)
    <3>1. cs \in Seq(PieceType)
      BY <1>4
    <3>2. Regroups(cs, u, c)
      BY <3>1, Regrouped
    <3> QED
      BY <3>2, Zenon DEF Regroups
  <2> QED
    BY <1>4, <2>1, <2>3, <2>4, <2>5
<1>14. End(q, Len(q)) = e
  BY <1>7, <1>10
<1> QED
  BY <1>2, <1>3, <1>6, <1>7, <1>12, <1>13, <1>14 DEF Cut

-----------------------------------------------------------------------------
\* The inductive invariant, stage by stage.
Here == End(pieces, Len(pieces))

Resting == chunk = <<>> /\ leftover = <<>> /\ lastOffset = BlockSize - 1
Merging == block \in Contents /\ pieces = <<>>
\* The static offset is that of the chunk to come.
Looping ==
  /\ block \in Contents
  /\ Cut(pieces, block, Here)
  /\ Here \in 0..BlockSize - 1
  /\ IncOffset(lastOffset) = Here
Uncut == leftover = <<>> /\ chunk = SubSeq(block, Here + 1, BlockSize)
Resuming ==
  /\ i \in NWINDOW..BlockSize - Here
  /\ h = PrintOf(Window(chunk, i))
  /\ \A e \in Here + NWINDOW + 1..Here + i : ~EndsAt(block, Here, e)
Found ==
  /\ i \in 0..BlockSize - Here
  /\ h = PrintOf(Window(chunk, i))
  /\ foundclen \in 1..BlockSize - Here + 1
  /\ EndFrom(block, Here) = IF foundclen <= BlockSize - Here THEN Here + foundclen ELSE BlockSize
Split ==
  /\ foundclen \in 1..BlockSize - Here - 1
  /\ EndFrom(block, Here) = Here + foundclen
  /\ chunk = SubSeq(block, Here + 1, Here + foundclen)
  /\ leftover = SubSeq(block, Here + foundclen + 1, BlockSize)
Done == block \in Contents /\ Cut(pieces, block, BlockSize) /\ Resting
TablesSet == rabintab = FpMkRedTab /\ rabinwintab = FpMkWinRedTab

CutInv ==
  /\ stage \in {"start", "idle", "merge", "print", "resume", "found", "split", "done"}
  /\ stage # "start" => TablesSet
  /\ stage \in {"start", "idle", "merge"} => Resting
  /\ stage = "merge" => Merging
  /\ stage \in {"print", "resume", "found", "split"} => Looping
  /\ stage \in {"print", "resume", "found"} => Uncut
  /\ stage = "resume" => Resuming
  /\ stage = "found" => Found
  /\ stage = "split" => Split
  /\ stage = "done" => Done

LEMMA UncutFacts ==
  ASSUME CutInv, stage \in {"print", "resume", "found"}
  PROVE  /\ TablesSet /\ Looping /\ Uncut
         /\ block \in Contents /\ Here \in 0..BlockSize - 1 /\ leftover = <<>>
         /\ chunk = SubSeq(block, Here + 1, BlockSize)
         /\ chunk \in Seq(Letters) /\ Len(chunk) = BlockSize - Here
         /\ Here \in Nat /\ BlockSize \in Nat /\ BlockSize - Here \in Nat
<1>1. TablesSet /\ Looping /\ Uncut
  BY DEF CutInv
<1>2. /\ block \in Contents /\ Here \in 0..BlockSize - 1 /\ leftover = <<>>
      /\ chunk = SubSeq(block, Here + 1, BlockSize)
  BY <1>1 DEF Looping, Uncut
<1>3. PICK s : s = Here
  OBVIOUS
<1>4. s \in Nat /\ BlockSize \in Nat /\ s <= BlockSize /\ BlockSize <= BlockSize /\ BlockSize - s \in Nat
  BY <1>2, <1>3, Sizes
<1>5. SubSeq(block, s + 1, BlockSize) \in Seq(Letters)
      /\ Len(SubSeq(block, s + 1, BlockSize)) = BlockSize - s
  BY <1>2, <1>4, PartOf
<1> QED
  BY <1>1, <1>2, <1>3, <1>4, <1>5

LEMMA LoopingOn ==
  ASSUME UNCHANGED <<block, pieces, lastOffset>>
  PROVE  /\ Here' = Here
         /\ Looping => Looping'
         /\ Uncut /\ UNCHANGED <<chunk, leftover>> => Uncut'
<1>1. Here' = Here
  BY DEF Here
<1>2. Looping => Looping'
  BY <1>1 DEF Looping, IncOffset
<1>3. Uncut /\ UNCHANGED <<chunk, leftover>> => Uncut'
  BY <1>1 DEF Uncut
<1> QED
  BY <1>1, <1>2, <1>3

-----------------------------------------------------------------------------
LEMMA CutInit == ChunkingInit => CutInv
BY DEF ChunkingInit, CutInv, Resting

LEMMA CutStutter == CutInv /\ UNCHANGED chunkingVars => CutInv'
<1> SUFFICES ASSUME CutInv, UNCHANGED chunkingVars PROVE CutInv'
  OBVIOUS
<1>1. /\ UNCHANGED <<rabintab, rabinwintab, stage, block, chunk>>
      /\ UNCHANGED <<leftover, i, h, foundclen, pieces, lastOffset>>
  BY DEF chunkingVars, loopVars
<1>2. Here' = Here
  BY <1>1, LoopingOn
<1>3. (TablesSet => TablesSet') /\ (Resting => Resting') /\ (Merging => Merging')
  BY <1>1 DEF TablesSet, Resting, Merging
<1>4. (Looping => Looping') /\ (Uncut => Uncut')
  BY <1>1, LoopingOn
<1>5. (Resuming => Resuming') /\ (Found => Found') /\ (Split => Split')
  BY <1>1, <1>2 DEF Resuming, Found, Split
<1>6. Done => Done'
  BY <1>1, <1>3 DEF Done
<1> QED
  BY <1>1, <1>3, <1>4, <1>5, <1>6 DEF CutInv

LEMMA CutInitRabin == CutInv /\ InitRabin => CutInv'
<1> SUFFICES ASSUME CutInv, InitRabin PROVE CutInv'
  OBVIOUS
<1>1. stage = "start" /\ stage' = "idle" /\ UNCHANGED <<chunk, leftover, lastOffset>>
  BY DEF InitRabin
<1>2. TablesSet'
  BY DEF InitRabin, TablesSet, FpMkRedTab, FpMkWinRedTab
<1>3. Resting /\ (Resting => Resting')
  BY <1>1 DEF CutInv, Resting
<1> QED
  BY <1>1, <1>2, <1>3 DEF CutInv

LEMMA CutResumeDynChunking ==
  ASSUME CutInv, NEW k \in Contents, ResumeDynChunking(k)
  PROVE  CutInv'
<1>1. /\ stage = "idle" /\ stage' = "merge"
      /\ UNCHANGED <<rabintab, rabinwintab, chunk, leftover, lastOffset>>
  BY DEF ResumeDynChunking
<1>2. Merging'
  BY DEF ResumeDynChunking, Merging
<1>3. TablesSet /\ Resting /\ (TablesSet => TablesSet') /\ (Resting => Resting')
  BY <1>1 DEF CutInv, TablesSet, Resting
<1> QED
  BY <1>1, <1>2, <1>3 DEF CutInv

LEMMA CutCreateInitialChunkBuf == CutInv /\ CreateInitialChunkBuf => CutInv'
<1> SUFFICES ASSUME CutInv, CreateInitialChunkBuf PROVE CutInv'
  OBVIOUS
<1>1. /\ stage = "merge" /\ stage' = "print" /\ chunk' = leftover \o block /\ leftover' = <<>>
      /\ UNCHANGED <<rabintab, rabinwintab, block, pieces, lastOffset>>
  BY DEF CreateInitialChunkBuf
<1>2. TablesSet /\ (TablesSet => TablesSet')
  BY <1>1 DEF CutInv, TablesSet
<1>3. block \in Contents /\ pieces = <<>> /\ leftover = <<>> /\ lastOffset = BlockSize - 1
  BY <1>1 DEF CutInv, Merging, Resting
<1>4. block \in [1..BlockSize -> Letters] /\ BlockSize \in Nat \ {0}
  BY <1>3, RabinAssumption
<1>5. block \in Seq(Letters) /\ Len(block) = BlockSize
  BY <1>4
<1>6. Len(<<>>) = 0 /\ End(<<>>, 0) = 0
  BY EmptySeq DEF End
<1>7. Here = 0 /\ Here' = Here
  BY <1>1, <1>3, <1>6, LoopingOn DEF Here
<1>8. chunk' = SubSeq(block, 0 + 1, BlockSize)
  <2>1. chunk' = block
    BY <1>1, <1>3, <1>5, ConcatEmptySeq
  <2>2. SubSeq(block, 1, Len(block)) = block
    BY <1>5, SubSeqFull
  <2> QED
    BY <1>5, <2>1, <2>2
<1>9. Uncut'
  BY <1>1, <1>7, <1>8 DEF Uncut
<1>10. IncOffset(lastOffset) = 0
  <2>1. BlockSize - 1 + 1 = BlockSize /\ BlockSize % BlockSize = 0
    BY <1>4
  <2> QED
    BY <1>3, <2>1 DEF IncOffset
<1>11. Cut(pieces, block, Here)
  BY <1>3, <1>7, NoneCut
<1>12. Looping
  BY <1>3, <1>4, <1>7, <1>10, <1>11 DEF Looping
<1>13. Looping'
  BY <1>1, <1>12, LoopingOn
<1> QED
  BY <1>1, <1>2, <1>9, <1>13 DEF CutInv

\* A window that is not full begins with the buffer.
LEMMA FirstWindow ==
  ASSUME NEW c, NEW n \in Nat, n <= NWINDOW
  PROVE  Window(c, n) = SubSeq(c, 1, n)
<1>1. (IF n > NWINDOW THEN n - NWINDOW + 1 ELSE 1) = 1
  BY Sizes
<1> QED
  BY <1>1 DEF Window

LEMMA CutGetFreshRabinOffset == CutInv /\ GetFreshRabinOffset => CutInv'
<1> SUFFICES ASSUME CutInv, GetFreshRabinOffset PROVE CutInv'
  OBVIOUS
<1>1. /\ stage = "print" /\ UNCHANGED <<block, pieces, lastOffset>>
      /\ UNCHANGED <<chunk, leftover>> /\ UNCHANGED <<rabintab, rabinwintab>>
  BY DEF GetFreshRabinOffset
<1>2. PICK s \in Nat, B \in Nat : s = Here /\ B = BlockSize
  BY <1>1, UncutFacts
<1>3. /\ TablesSet /\ Looping /\ Uncut /\ block \in Contents /\ s \in 0..B - 1
      /\ chunk = SubSeq(block, s + 1, B) /\ chunk \in Seq(Letters) /\ Len(chunk) = B - s
  BY <1>1, <1>2, UncutFacts
<1>4. TablesSet' /\ Looping' /\ Uncut' /\ Here' = s
  BY <1>1, <1>2, <1>3, LoopingOn DEF TablesSet
<1>5. PICK m \in Nat : m = i' /\ m <= Len(chunk) /\ m <= NWINDOW /\ h' = InitialPrint(chunk, m)
  <2>1. i' = (IF Len(chunk) < NWINDOW THEN Len(chunk) ELSE NWINDOW) /\ h' = InitialPrint(chunk, i')
    BY DEF GetFreshRabinOffset
  <2>2. Len(chunk) \in Nat /\ NWINDOW \in Nat
    BY <1>3, LenProperties, Sizes
  <2> QED
    BY <2>1, <2>2
<1>6. h' = PrintOf(Window(chunk, m))
  <2>1. InitialPrint(chunk, m) = PrintOf(SubSeq(chunk, 1, m))
    BY <1>3, <1>5, InitialPrintOf DEF TablesSet
  <2> QED
    BY <1>5, <2>1, FirstWindow
<1>7. h' = PrintOf(Window(chunk', i'))
  BY <1>1, <1>5, <1>6
<1>8. CASE Len(chunk) < NWINDOW
  <2>1. stage' = "found" /\ foundclen' = Len(chunk) + 1 /\ i' = Len(chunk)
    BY <1>8 DEF GetFreshRabinOffset
  <2>2. PICK n \in Nat : n = B - s /\ s + n = B /\ n < NWINDOW
    <3>1. B - s \in Nat /\ s + (B - s) = B /\ B - s < NWINDOW
      BY <1>3, <1>8
    <3> QED
      BY <3>1
  <2>3. EndFrom(block, s) = B
    <3>1. s \in 0..BlockSize - 1 /\ s + n <= BlockSize /\ s + n = BlockSize
      BY <1>2, <1>3, <2>2
    <3>2. \A e \in s + NWINDOW + 1..s + n - 1 : ~EndsAt(block, s, e)
      BY <2>2, Sizes
    <3>3. EndFrom(block, s) = s + n
      BY <3>1, <3>2, EndFromFirst
    <3> QED
      BY <2>2, <3>3
  <2>4. i' = n /\ foundclen' = n + 1
    BY <1>3, <2>1, <2>2
  <2>5. i' \in 0..B - s /\ foundclen' \in 1..B - s + 1 /\ ~(foundclen' <= B - s)
    BY <2>2, <2>4
  <2>6. Found'
    BY <1>1, <1>2, <1>4, <1>7, <2>3, <2>5 DEF Found
  <2> QED
    BY <1>4, <2>1, <2>6 DEF CutInv
<1>9. CASE ~(Len(chunk) < NWINDOW)
  <2>1. stage' = "resume" /\ i' = NWINDOW
    BY <1>9 DEF GetFreshRabinOffset
  <2>2. NWINDOW \in NWINDOW..B - s
    BY <1>3, <1>9, Sizes
  <2>3. \A e \in s + NWINDOW + 1..s + NWINDOW : ~EndsAt(block, s, e)
    BY Sizes
  <2>4. Resuming'
    BY <1>1, <1>2, <1>4, <1>7, <2>1, <2>2, <2>3 DEF Resuming
  <2> QED
    BY <1>4, <2>1, <2>4 DEF CutInv
<1> QED
  BY <1>8, <1>9

LEMMA CutResumePrint == CutInv /\ ResumePrint => CutInv'
<1> SUFFICES ASSUME CutInv, ResumePrint PROVE CutInv'
  OBVIOUS
<1>1. /\ stage = "resume" /\ UNCHANGED <<block, pieces, lastOffset>>
      /\ UNCHANGED <<chunk, leftover>> /\ UNCHANGED <<rabintab, rabinwintab>>
      /\ i < Len(chunk) /\ h' = Slide /\ i' = i + 1
  BY DEF ResumePrint
<1>2. PICK s \in Nat, B \in Nat : s = Here /\ B = BlockSize
  BY <1>1, UncutFacts
<1>3. /\ TablesSet /\ Looping /\ Uncut /\ block \in Contents /\ s \in 0..B - 1
      /\ chunk = SubSeq(block, s + 1, B) /\ chunk \in Seq(Letters) /\ Len(chunk) = B - s
  BY <1>1, <1>2, UncutFacts
<1>4. TablesSet' /\ Looping' /\ Uncut' /\ Here' = s
  BY <1>1, <1>2, <1>3, LoopingOn DEF TablesSet
<1>5. Resuming
  BY <1>1 DEF CutInv
<1>6. PICK n \in Nat : n = i /\ NWINDOW <= n /\ n < B - s
  <2>1. i \in NWINDOW..B - s /\ i < B - s
    BY <1>1, <1>2, <1>3, <1>5 DEF Resuming
  <2> QED
    BY <2>1, Sizes
<1>7. /\ h = PrintOf(Window(chunk, n))
      /\ \A e \in s + NWINDOW + 1..s + n : ~EndsAt(block, s, e)
  BY <1>2, <1>5, <1>6 DEF Resuming
<1>8. h' = PrintOf(Window(chunk, n + 1))
  <2>1. Slide = Roll(Xor(PrintOf(Window(chunk, n)), rabinwintab[chunk[n - NWINDOW + 1]]),
                     chunk[n + 1])
    <3>1. n >= NWINDOW
      BY <1>6, Sizes
    <3> QED
      BY <1>6, <1>7, <3>1 DEF Slide
  <2>2. Slide = PrintOf(Window(chunk, n + 1))
    BY <1>3, <1>6, <2>1, PrintSlides DEF TablesSet
  <2> QED
    BY <1>1, <2>2
<1>9. PICK m \in Nat : m = n + 1 /\ m = i' /\ NWINDOW < m /\ s + m <= B /\ m \in NWINDOW..B - s
                       /\ m \in 0..B - s
  <2>1. n + 1 \in Nat /\ NWINDOW < n + 1 /\ s + (n + 1) <= B /\ n + 1 \in NWINDOW..B - s
        /\ n + 1 \in 0..B - s
    BY <1>3, <1>6, Sizes
  <2> QED
    BY <1>1, <1>6, <2>1
<1>10. h' = PrintOf(Window(chunk', i')) /\ h' = PrintOf(Window(chunk, m))
  BY <1>1, <1>8, <1>9
<1>11. IsBoundary(m, h') <=> EndsAt(block, s, s + m)
  <2>1. Window(SubSeq(block, s + 1, BlockSize), m) = Window(block, s + m)
    BY <1>2, <1>3, <1>9, PartWindow, Sizes
  <2>2. h' = PrintOf(Window(block, s + m))
    BY <1>2, <1>3, <1>10, <2>1
  <2>3. s + m - s = m
    OBVIOUS
  <2> QED
    BY <2>2, <2>3 DEF EndsAt
<1>12. CASE IsBoundary(i', h')
  <2>1. stage' = "found" /\ foundclen' = i'
    BY <1>12 DEF ResumePrint
  <2>2. EndFrom(block, s) = s + m
    <3>1. s \in 0..BlockSize - 1 /\ s + m <= BlockSize
      BY <1>2, <1>3, <1>9
    <3>2. \A e \in s + NWINDOW + 1..s + m - 1 : ~EndsAt(block, s, e)
      <4>1. s + m - 1 = s + n
        BY <1>9
      <4> QED
        BY <1>7, <4>1
    <3>3. NWINDOW < m /\ EndsAt(block, s, s + m)
      BY <1>9, <1>11, <1>12
    <3> QED
      BY <3>1, <3>2, <3>3, EndFromFirst
  <2>3. i' \in 0..B - s /\ foundclen' \in 1..B - s + 1 /\ foundclen' <= B - s /\ foundclen' = m
    <3>1. m \in 1..B - s + 1 /\ m <= B - s
      BY <1>9, Sizes
    <3> QED
      BY <1>9, <2>1, <3>1
  <2>4. Found'
    BY <1>1, <1>2, <1>4, <1>10, <2>2, <2>3 DEF Found
  <2> QED
    BY <1>4, <2>1, <2>4 DEF CutInv
<1>13. CASE ~IsBoundary(i', h')
  <2>1. stage' = "resume"
    BY <1>1, <1>13 DEF ResumePrint
  <2>2. ASSUME NEW e \in s + NWINDOW + 1..s + m PROVE ~EndsAt(block, s, e)
    <3>1. CASE e = s + m
      BY <1>9, <1>11, <1>13, <3>1
    <3>2. CASE e # s + m
      <4>1. e \in s + NWINDOW + 1..s + n
        BY <1>9, <3>2, Sizes
      <4> QED
        BY <1>7, <4>1
    <3> QED
      BY <3>1, <3>2
  <2>3. Resuming'
    BY <1>1, <1>2, <1>4, <1>9, <1>10, <2>2 DEF Resuming
  <2> QED
    BY <1>4, <2>1, <2>3 DEF CutInv
<1> QED
  BY <1>12, <1>13

LEMMA CutEndPrint == CutInv /\ EndPrint => CutInv'
<1> SUFFICES ASSUME CutInv, EndPrint PROVE CutInv'
  OBVIOUS
<1>1. /\ stage = "resume" /\ stage' = "found" /\ UNCHANGED <<block, pieces, lastOffset>>
      /\ UNCHANGED <<chunk, leftover>> /\ UNCHANGED <<rabintab, rabinwintab>>
      /\ i = Len(chunk) /\ foundclen' = Len(chunk) + 1 /\ UNCHANGED <<i, h>>
  BY DEF EndPrint
<1>2. PICK s \in Nat, B \in Nat : s = Here /\ B = BlockSize
  BY <1>1, UncutFacts
<1>3. /\ TablesSet /\ Looping /\ Uncut /\ block \in Contents /\ s \in 0..B - 1
      /\ Len(chunk) = B - s
  BY <1>1, <1>2, UncutFacts
<1>4. TablesSet' /\ Looping' /\ Uncut' /\ Here' = s
  BY <1>1, <1>2, <1>3, LoopingOn DEF TablesSet
<1>5. Resuming
  BY <1>1 DEF CutInv
<1>6. PICK n \in Nat : n = i /\ n = B - s /\ s + n = B
  <2>1. B - s \in Nat /\ s + (B - s) = B
    BY <1>3
  <2> QED
    BY <1>1, <1>3, <2>1
<1>7. EndFrom(block, s) = B
  <2>1. s \in 0..BlockSize - 1 /\ s + n <= BlockSize /\ s + n = BlockSize
    BY <1>2, <1>3, <1>6
  <2>2. \A e \in s + NWINDOW + 1..s + n : ~EndsAt(block, s, e)
    BY <1>2, <1>5, <1>6 DEF Resuming
  <2>3. \A e \in s + NWINDOW + 1..s + n - 1 : e \in s + NWINDOW + 1..s + n
    BY Sizes
  <2>4. EndFrom(block, s) = s + n
    BY <2>1, <2>2, <2>3, EndFromFirst
  <2> QED
    BY <1>6, <2>4
<1>8. h' = PrintOf(Window(chunk', i'))
  BY <1>1, <1>5 DEF Resuming
<1>9. i' \in 0..B - s /\ foundclen' \in 1..B - s + 1 /\ ~(foundclen' <= B - s)
  <2>1. i' = n /\ foundclen' = n + 1
    BY <1>1, <1>3, <1>6
  <2> QED
    BY <1>6, <2>1
<1>10. Found'
  BY <1>1, <1>2, <1>4, <1>7, <1>8, <1>9 DEF Found
<1> QED
  BY <1>1, <1>4, <1>10 DEF CutInv

LEMMA CutSplitChunkBuffer == CutInv /\ SplitChunkBuffer => CutInv'
<1> SUFFICES ASSUME CutInv, SplitChunkBuffer PROVE CutInv'
  OBVIOUS
<1>1. /\ stage = "found" /\ stage' = "split" /\ foundclen < Len(chunk)
      /\ chunk' = Kept(chunk, foundclen) /\ leftover' = SplitOff(chunk, foundclen)
      /\ UNCHANGED <<block, pieces, lastOffset>> /\ UNCHANGED <<rabintab, rabinwintab, foundclen>>
  BY DEF SplitChunkBuffer
<1>2. PICK s \in Nat, B \in Nat : s = Here /\ B = BlockSize
  BY <1>1, UncutFacts
<1>3. /\ TablesSet /\ Looping /\ block \in Contents /\ s \in 0..B - 1
      /\ chunk = SubSeq(block, s + 1, B) /\ Len(chunk) = B - s
  BY <1>1, <1>2, UncutFacts
<1>4. TablesSet' /\ Looping' /\ Here' = s
  BY <1>1, <1>2, <1>3, LoopingOn DEF TablesSet
<1>5. Found
  BY <1>1 DEF CutInv
<1>6. PICK f \in Nat : f = foundclen /\ f \in 1..B - s - 1 /\ f <= B - s /\ s + f <= B
  <2>1. foundclen \in 1..B - s + 1 /\ foundclen < B - s
    BY <1>1, <1>2, <1>3, <1>5 DEF Found
  <2> QED
    BY <1>3, <2>1
<1>7. EndFrom(block, s) = s + f
  BY <1>2, <1>5, <1>6 DEF Found
<1>8. chunk' = SubSeq(block, s + 1, s + f) /\ leftover' = SubSeq(block, s + f + 1, B)
  <2>1. /\ Kept(SubSeq(block, s + 1, B), f) = SubSeq(block, s + 1, s + f)
        /\ SplitOff(SubSeq(block, s + 1, B), f) = SubSeq(block, s + f + 1, B)
    BY <1>2, <1>3, <1>6, PartsOfPart
  <2> QED
    BY <1>1, <1>3, <1>6, <2>1
<1>9. Split'
  BY <1>1, <1>2, <1>4, <1>6, <1>7, <1>8 DEF Split
<1> QED
  BY <1>1, <1>4, <1>9 DEF CutInv

\* What processChunk notes is the chunk that is cut next.
LEMMA Processed ==
  ASSUME Looping, NEW left, ProcessChunk(chunk, left),
         chunk = SubSeq(block, Here + 1, EndFrom(block, Here))
  PROVE  /\ Cut(pieces', block, EndFrom(block, Here))
         /\ lastOffset' = (BlockSize - left - 1) % BlockSize
<1>1. /\ block \in Contents /\ Cut(pieces, block, Here) /\ Here \in 0..BlockSize - 1
      /\ IncOffset(lastOffset) = Here
  BY DEF Looping
<1>2. PICK r : r = PieceAt(block, Here)
  OBVIOUS
<1>3. pieces' = Append(pieces, r)
  BY <1>1, <1>2 DEF ProcessChunk, PieceAt
<1>4. Cut(Append(pieces, r), block, EndFrom(block, Here))
  BY <1>1, <1>2, NextCut
<1>5. lastOffset' = (BlockSize - left - 1) % BlockSize
  BY DEF ProcessChunk, DecOffset
<1> QED
  BY <1>3, <1>4, <1>5

LEMMA CutNextChunk == CutInv /\ NextChunk => CutInv'
<1> SUFFICES ASSUME CutInv, NextChunk PROVE CutInv'
  OBVIOUS
<1>1. /\ stage = "split" /\ stage' = "print" /\ ProcessChunk(chunk, Len(leftover))
      /\ chunk' = leftover /\ leftover' = <<>> /\ UNCHANGED <<rabintab, rabinwintab, block>>
  BY DEF NextChunk
<1>2. Looping /\ Split /\ TablesSet /\ (TablesSet => TablesSet')
  BY <1>1 DEF CutInv, TablesSet
<1>3. block \in Contents /\ Here \in 0..BlockSize - 1 /\ BlockSize \in Nat \ {0}
  BY <1>2, Sizes DEF Looping
<1>4. PICK s \in Nat, B \in Nat : s = Here /\ B = BlockSize /\ s \in 0..B - 1
  BY <1>3
<1>5. PICK e \in Nat : e = EndFrom(block, s) /\ e = s + foundclen /\ e \in 1..B - 1
  <2>1. foundclen \in 1..B - s - 1 /\ EndFrom(block, s) = s + foundclen
    BY <1>2, <1>4 DEF Split
  <2>2. s + foundclen \in Nat /\ s + foundclen \in 1..B - 1
    BY <1>4, <2>1
  <2> QED
    BY <2>1, <2>2
<1>6. chunk = SubSeq(block, s + 1, e) /\ leftover = SubSeq(block, e + 1, B)
  BY <1>2, <1>4, <1>5 DEF Split
<1>7. Len(leftover) = B - e
  <2>1. e <= B /\ B <= BlockSize
    BY <1>3, <1>4, <1>5
  <2> QED
    BY <1>3, <1>6, <2>1, PartOf
<1>8. PICK left : left = Len(leftover)
  OBVIOUS
<1>9. Cut(pieces', block, e) /\ lastOffset' = (B - left - 1) % B
  <2>1. chunk = SubSeq(block, Here + 1, EndFrom(block, Here))
    BY <1>4, <1>5, <1>6
  <2>2. ProcessChunk(chunk, left)
    BY <1>1, <1>8
  <2>3. Cut(pieces', block, EndFrom(block, Here)) /\ lastOffset' = (BlockSize - left - 1) % BlockSize
    BY <1>2, <2>1, <2>2, Processed
  <2> QED
    BY <1>4, <1>5, <2>3
<1>10. Here' = e
  BY <1>9 DEF Cut, Here
<1>11. IncOffset(lastOffset)' = e
  <2>1. B - left - 1 = e - 1 /\ e - 1 \in 0..B - 1
    BY <1>4, <1>5, <1>7, <1>8
  <2>2. (B - left - 1) % B = e - 1
    <3>1. PICK d \in 0..B - 1 : d = e - 1 /\ d = B - left - 1
      BY <2>1
    <3>2. d % B = d
      BY <1>4
    <3> QED
      BY <3>1, <3>2
  <2>3. e - 1 + 1 = e /\ e % B = e
    BY <1>5
  <2> QED
    BY <1>4, <1>9, <2>2, <2>3 DEF IncOffset
<1>12. Looping'
  <2>1. e \in 0..B - 1
    BY <1>5
  <2> QED
    BY <1>1, <1>3, <1>4, <1>9, <1>10, <1>11, <2>1 DEF Looping
<1>13. Uncut'
  BY <1>1, <1>4, <1>6, <1>10 DEF Uncut
<1> QED
  BY <1>1, <1>2, <1>12, <1>13 DEF CutInv

LEMMA CutEnd ==
  ASSUME CutInv, stage = "found", EndFrom(block, Here) = BlockSize,
         ProcessChunk(chunk, 0), chunk' = <<>>, leftover' = <<>>, stage' = "done",
         UNCHANGED <<rabintab, rabinwintab, block>>
  PROVE  CutInv'
<1>1. /\ TablesSet /\ Looping /\ block \in Contents
      /\ chunk = SubSeq(block, Here + 1, BlockSize) /\ BlockSize \in Nat \ {0}
  BY UncutFacts, Sizes
<1>2. TablesSet'
  BY <1>1 DEF TablesSet
<1>3. Cut(pieces', block, BlockSize) /\ lastOffset' = (BlockSize - 0 - 1) % BlockSize
  <2>1. chunk = SubSeq(block, Here + 1, EndFrom(block, Here))
    BY <1>1
  <2>2. Cut(pieces', block, EndFrom(block, Here)) /\ lastOffset' = (BlockSize - 0 - 1) % BlockSize
    BY <1>1, <2>1, Processed
  <2> QED
    BY <2>2
<1>4. lastOffset' = BlockSize - 1
  <2>1. PICK d \in 0..BlockSize - 1 : d = BlockSize - 1 /\ d = BlockSize - 0 - 1
    BY <1>1
  <2>2. d % BlockSize = d
    BY <1>1
  <2> QED
    BY <1>3, <2>1, <2>2
<1>5. Done'
  BY <1>1, <1>3, <1>4 DEF Done, Resting
<1> QED
  BY <1>2, <1>5 DEF CutInv

LEMMA CutEndWithoutBoundary == CutInv /\ EndWithoutBoundary => CutInv'
<1> SUFFICES ASSUME CutInv, EndWithoutBoundary PROVE CutInv'
  OBVIOUS
<1>1. /\ stage = "found" /\ stage' = "done" /\ foundclen > Len(chunk) /\ ProcessChunk(chunk, 0)
      /\ chunk' = <<>> /\ leftover' = <<>> /\ UNCHANGED <<rabintab, rabinwintab, block>>
  BY DEF EndWithoutBoundary
<1>2. Found /\ Len(chunk) = BlockSize - Here /\ BlockSize - Here \in Nat
  BY <1>1, UncutFacts DEF CutInv
<1>3. ~(foundclen <= BlockSize - Here)
  BY <1>1, <1>2 DEF Found
<1>4. EndFrom(block, Here) = BlockSize
  BY <1>2, <1>3 DEF Found
<1> QED
  BY <1>1, <1>4, CutEnd

LEMMA CutEndOnBoundary == CutInv /\ EndOnBoundary => CutInv'
<1> SUFFICES ASSUME CutInv, EndOnBoundary PROVE CutInv'
  OBVIOUS
<1>1. /\ stage = "found" /\ stage' = "done" /\ foundclen = Len(chunk) /\ ProcessChunk(chunk, 0)
      /\ chunk' = <<>> /\ leftover' = <<>> /\ UNCHANGED <<rabintab, rabinwintab, block>>
  BY DEF EndOnBoundary
<1>2. /\ Found /\ Len(chunk) = BlockSize - Here /\ BlockSize - Here \in Nat
      /\ Here \in Nat /\ BlockSize \in Nat
  BY <1>1, UncutFacts DEF CutInv
<1>3. foundclen <= BlockSize - Here /\ Here + foundclen = BlockSize
  BY <1>1, <1>2
<1>4. EndFrom(block, Here) = BlockSize
  BY <1>2, <1>3 DEF Found
<1> QED
  BY <1>1, <1>4, CutEnd

LEMMA CutUpdateBlock == CutInv /\ UpdateBlock => CutInv'
<1> SUFFICES ASSUME CutInv, UpdateBlock PROVE CutInv'
  OBVIOUS
<1>1. /\ stage = "done" /\ stage' = "idle"
      /\ UNCHANGED <<rabintab, rabinwintab, chunk, leftover, lastOffset>>
  BY DEF UpdateBlock
<1>2. TablesSet /\ Resting
  BY <1>1 DEF CutInv, Done
<1>3. TablesSet' /\ Resting'
  BY <1>1, <1>2 DEF TablesSet, Resting
<1> QED
  BY <1>1, <1>3 DEF CutInv

\* The tables are those of the window, the static offset that of the chunk to
\* come, and what is cut is a first part of what the content says.
THEOREM CutInvariant == ChunkingSpec => []CutInv
<1>1. ChunkingInit => CutInv
  BY CutInit
<1>2. CutInv /\ [ChunkingNext]_chunkingVars => CutInv'
  <2> SUFFICES ASSUME CutInv, [ChunkingNext]_chunkingVars PROVE CutInv'
    OBVIOUS
  <2>1. CASE UNCHANGED chunkingVars
    BY <2>1, CutStutter
  <2>2. CASE InitRabin
    BY <2>2, CutInitRabin
  <2>3. CASE \E k \in Contents : ResumeDynChunking(k)
    BY <2>3, CutResumeDynChunking
  <2>4. CASE CutStep
    <3>1. CASE CreateInitialChunkBuf
      BY <3>1, CutCreateInitialChunkBuf
    <3>2. CASE GetFreshRabinOffset
      BY <3>2, CutGetFreshRabinOffset
    <3>3. CASE ResumePrint
      BY <3>3, CutResumePrint
    <3>4. CASE EndPrint
      BY <3>4, CutEndPrint
    <3>5. CASE SplitChunkBuffer
      BY <3>5, CutSplitChunkBuffer
    <3>6. CASE NextChunk
      BY <3>6, CutNextChunk
    <3>7. CASE EndWithoutBoundary
      BY <3>7, CutEndWithoutBoundary
    <3>8. CASE EndOnBoundary
      BY <3>8, CutEndOnBoundary
    <3>9. CASE UpdateBlock
      BY <3>9, CutUpdateBlock
    <3> QED
      BY <2>4, <3>1, <3>2, <3>3, <3>4, <3>5, <3>6, <3>7, <3>8, <3>9 DEF CutStep
  <2> QED
    BY <2>1, <2>2, <2>3, <2>4 DEF ChunkingNext
<1> QED
  BY <1>1, <1>2, PTL DEF ChunkingSpec

\* At every letter the print slid along with the two tables is the remainder of
\* the polynomial of the window (rabin.c:221-233), whatever the modulus, the
\* window and the lengths of a word and of a letter.
THEOREM RollingTheorem == ChunkingSpec => []RollingPrint
<1>1. CutInv => RollingPrint
  BY DEF CutInv, Resuming, Found, RollingPrint
<1> QED
  BY <1>1, CutInvariant, PTL

\* The chunks handed on and the rest tile the block, and at its end the block is
\* cut where its content alone says (chunking.c:430-476 and processChunk).
THEOREM CutTheorem == ChunkingSpec => []ChunksAsCut
<1>1. CutInv => ChunksAsCut
  <2> SUFFICES ASSUME CutInv PROVE ChunksAsCut
    OBVIOUS
  <2>1. CASE stage \in {"start", "idle", "merge"}
    BY <2>1 DEF ChunksAsCut
  <2>2. CASE stage \in {"print", "resume", "found"}
    <3>1. Looping /\ leftover = <<>> /\ chunk \in Seq(Letters)
          /\ chunk = SubSeq(block, Here + 1, BlockSize)
      BY <2>2, UncutFacts
    <3>2. chunk \o leftover = SubSeq(block, Here + 1, BlockSize)
      BY <3>1, ConcatEmptySeq
    <3>3. Tiling(pieces, block)
      BY <3>1 DEF Looping, Cut
    <3> QED
      BY <2>2, <3>2, <3>3 DEF ChunksAsCut, Here
  <2>3. CASE stage = "split"
    <3>1. Looping /\ Split
      BY <2>3 DEF CutInv
    <3>2. PICK s \in Nat, B \in Nat : s = Here /\ B = BlockSize /\ block \in Contents /\ s \in 0..B - 1
      BY <3>1, Sizes DEF Looping
    <3>3. PICK e \in Nat : e = s + foundclen /\ s <= e /\ e <= B
      <4>1. foundclen \in 1..B - s - 1
        BY <3>1, <3>2 DEF Split
      <4>2. s + foundclen \in Nat /\ s <= s + foundclen /\ s + foundclen <= B
        BY <3>2, <4>1
      <4> QED
        BY <4>2
    <3>4. chunk = SubSeq(block, s + 1, e) /\ leftover = SubSeq(block, e + 1, B)
      BY <3>1, <3>2, <3>3 DEF Split
    <3>5. block \in Seq(Letters) /\ Len(block) = B
      <4>1. block \in [1..B -> Letters]
        BY <3>2, RabinAssumption
      <4> QED
        BY <4>1
    <3>6. PICK q \in 1..Len(block) + 1 : q = s + 1
      BY <3>2, <3>5
    <3>7. e \in q - 1..Len(block) /\ B \in e..Len(block)
      BY <3>2, <3>3, <3>5, <3>6
    <3>8. SubSeq(block, q, e) \o SubSeq(block, e + 1, B) = SubSeq(block, q, B)
      BY <3>5, <3>7, ConcatAdjacentSubSeq
    <3>9. chunk \o leftover = SubSeq(block, Here + 1, BlockSize)
      BY <3>2, <3>4, <3>6, <3>8
    <3>10. Tiling(pieces, block)
      BY <3>1 DEF Looping, Cut
    <3> QED
      BY <2>3, <3>9, <3>10 DEF ChunksAsCut, Here
  <2>4. CASE stage = "done"
    <3>1. /\ block \in Contents /\ chunk = <<>> /\ leftover = <<>>
          /\ pieces \in Seq(PieceType) /\ End(pieces, Len(pieces)) = BlockSize
          /\ Tiling(pieces, block) /\ CutOf(block) = pieces \o CutFrom(block)[BlockSize]
      BY <2>4 DEF CutInv, Done, Resting, Cut
    <3>2. BlockSize \in Nat /\ BlockSize \in 0..BlockSize
      BY Sizes
    <3>3. CutFrom(block)[BlockSize] = <<>>
      <4>1. CutsAt(CutFrom(block), block, BlockSize)
        BY <3>2, CutTurns DEF Solves
      <4> QED
        BY <4>1 DEF CutsAt
    <3>4. pieces = CutOf(block)
      BY <3>1, <3>3, ConcatEmptySeq
    <3>5. SubSeq(block, BlockSize + 1, BlockSize) = <<>>
      BY <3>2, SubSeqEmpty
    <3>6. <<>> \o <<>> = <<>>
      BY EmptySeq, ConcatEmptySeq
    <3> QED
      BY <2>4, <3>1, <3>4, <3>5, <3>6 DEF ChunksAsCut
  <2> QED
    BY <2>1, <2>2, <2>3, <2>4 DEF CutInv
<1> QED
  BY <1>1, CutInvariant, PTL

\* The cut of a content tiles it: chunks that are not empty follow one another
\* from its first letter to its last, which is all that Provided assumes.
THEOREM CutTiles ==
  ASSUME NEW k \in Contents
  PROVE  /\ CutOf(k) \in Seq(PieceType)
         /\ Tiling(CutOf(k), k)
         /\ End(CutOf(k), Len(CutOf(k))) = BlockSize
<1>1. BlockSize \in Nat \ {0} /\ 0 \in 0..BlockSize
  BY Sizes
<1>2. PICK cs : cs = CutOf(k)
  OBVIOUS
<1>3. TilesFrom(cs, k, 0)
  BY <1>1, <1>2, CutTilesFrom DEF CutOf
<1>4. cs \in Seq(PieceType) /\ cs # <<>>
  BY <1>1, <1>3 DEF TilesFrom
<1>5. PICK m \in Nat : m = Len(cs) /\ DOMAIN cs = 1..m /\ m # 0
  BY <1>4, LenProperties, EmptySeq
<1>6. /\ cs[1].offset = 0 /\ cs[m].offset + Len(cs[m].key) = BlockSize
      /\ \A j \in 1..m : /\ Len(cs[j].key) > 0
                         /\ cs[j].key = SubSeq(k, cs[j].offset + 1, cs[j].offset + Len(cs[j].key))
                         /\ j # 1 => cs[j].offset = cs[j - 1].offset + Len(cs[j - 1].key)
  BY <1>3, <1>4, <1>5 DEF TilesFrom
<1>7. ASSUME NEW j \in 1..m PROVE End(cs, j) = cs[j].offset + Len(cs[j].key)
  BY DEF End
<1>8. ASSUME NEW j \in 1..m PROVE cs[j].offset = End(cs, j - 1)
  <2>1. CASE j = 1
    <3>1. j - 1 = 0
      BY <2>1
    <3> QED
      BY <1>6, <2>1, <3>1 DEF End
  <2>2. CASE j # 1
    <3>1. j - 1 \in 1..m
      BY <2>2
    <3> QED
      BY <1>6, <1>7, <2>2, <3>1
  <2> QED
    BY <2>1, <2>2
<1>9. Tiling(cs, k)
  BY <1>5, <1>6, <1>7, <1>8 DEF Tiling
<1>10. End(cs, Len(cs)) = BlockSize
  BY <1>5, <1>6 DEF End
<1> QED
  BY <1>2, <1>4, <1>9, <1>10
=============================================================================
