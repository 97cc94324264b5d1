------------------------------ MODULE ArcCache ------------------------------
(***************************************************************************)
(* The content cache of I/O deduplication: ARC-cache/arc.c with the object *)
(* operations that content-cache/contentcache.c plugs into it.             *)
(*                                                                         *)
(* Four lists hold objects named by their content hash: mru and mfu are    *)
(* resident, mrug and mfug are their ghosts (the object without its        *)
(* content).  The head of a list is its most recently used end.  All the   *)
(* objects of a run have one size: BLKSIZE, or the length of a hash when   *)
(* the trace carries hashes for contents (contentcache.c:398-438).         *)
(***************************************************************************)
EXTENDS Integers, SequencesExt

CONSTANTS
  Keys,        \* content hashes (dhashkey)
  IoBlocks,    \* I/O block numbers (ioblkID)
  ObjectSize,  \* obj->size in bytes
  Capacity,    \* cache->c in bytes
  IntLimit     \* the first value that does not fit an int (2^31 in the code)

ASSUME ArcAssumption ==
  /\ ObjectSize \in Nat \ {0}
  /\ Capacity \in Nat
  /\ IntLimit \in Nat

VARIABLES
  lists,    \* the four __arc_state lists
  p,        \* cache->p, the target size of mru in bytes
  content,  \* the keys whose object has a content (obj->content # NULL)
  owner     \* obj->ioblkID of each key in the directory

arcVars == <<lists, p, content, owner>>

ListNames == {"mru", "mfu", "mrug", "mfug"}

Elements(s) == {s[i] : i \in DOMAIN s}
Bytes(s) == ObjectSize * Len(s)
AtMost(x, y) == IF x <= y THEN x ELSE y
NonNeg(x) == IF x >= 0 THEN x ELSE 0
AtLeastOne(x) == IF x >= 1 THEN x ELSE 1

ResidentIn(L) == Elements(L.mru) \cup Elements(L.mfu)
GhostsIn(L) == Elements(L.mrug) \cup Elements(L.mfug)
DirectoryOf(L) == ResidentIn(L) \cup GhostsIn(L)

Resident == ResidentIn(lists)
Ghosts == GhostsIn(lists)
Directory == DirectoryOf(lists)

\* __arc_list_remove: s without its element k.
Unlink(s, k) == RemoveAt(s, CHOOSE i \in DOMAIN s : s[i] = k)

\* The lists once k has been taken out of the list it is in.
Detach(L, k) ==
  [n \in ListNames |-> IF k \in Elements(L[n]) THEN Unlink(L[n], k) ELSE L[n]]

Prepend(L, n, k) == [L EXCEPT ![n] = <<k>> \o @]

(***************************************************************************)
(* __arc_balance makes room for one object of ObjectSize bytes.  Sizes are *)
(* multiples of ObjectSize, so the number of iterations each loop takes    *)
(* from each list has a closed form (BalanceByLoops in MCArcCache is the   *)
(* code's pair of loops, and a run compares the two).                      *)
(***************************************************************************)
Slots == Capacity \div ObjectSize
Target(q) == q \div ObjectSize

\* Faulty variant: the head of the list is taken for its tail.
KeepLast(s, n) == SubSeq(s, n + 1, Len(s))

KeepFirst(s, n) == SubSeq(s, 1, Len(s) - n)
LeastRecent(s, n) == SubSeq(s, Len(s) - n + 1, Len(s))

\* Faulty variant: the mfu branch of the loop is missing.
EvictMruOnly(L, q) ==
  LET excess == NonNeg(Len(L.mru) + Len(L.mfu) + 1 - Slots)
      r == AtMost(excess, NonNeg(Len(L.mru) - Target(q)))
  IN  [L EXCEPT !.mru = KeepFirst(@, r), !.mrug = LeastRecent(L.mru, r) \o @]

\* First loop: from mru while it is larger than p, else from mfu.
Evict(L, q) ==
  LET excess == NonNeg(Len(L.mru) + Len(L.mfu) + 1 - Slots)
      r == AtMost(excess, NonNeg(Len(L.mru) - Target(q)))
      f == AtMost(excess - r, Len(L.mfu))
  IN  [mru  |-> KeepFirst(L.mru, r),
       mfu  |-> KeepFirst(L.mfu, f),
       mrug |-> LeastRecent(L.mru, r) \o L.mrug,
       mfug |-> LeastRecent(L.mfu, f) \o L.mfug]

\* Faulty variant: the mrug branch of the loop is missing.
ForgetMfugOnly(L, q) ==
  LET excess == NonNeg(Len(L.mrug) + Len(L.mfug) - Slots)
      f == AtMost(excess, NonNeg(Len(L.mfug) - Target(q)))
  IN  [L EXCEPT !.mfug = KeepFirst(@, f)]

\* Second loop: from mfug while it is larger than p, else from mrug.
Forget(L, q) ==
  LET excess == NonNeg(Len(L.mrug) + Len(L.mfug) - Slots)
      f == AtMost(excess, NonNeg(Len(L.mfug) - Target(q)))
      r == AtMost(excess - f, Len(L.mrug))
  IN  [L EXCEPT !.mrug = KeepFirst(@, r), !.mfug = KeepFirst(@, f)]

Balance(L, q) == Forget(Evict(L, q), q)

(***************************************************************************)
(* The adaptation of p on a ghost hit, with the list sizes before the      *)
(* object leaves its ghost list.                                           *)
(***************************************************************************)

GrowTarget ==
  AtMost(Capacity,
         p + AtLeastOne(Bytes(lists.mfug) \div Bytes(lists.mrug)))

\* The subtraction is made on unsigned longs and the result cast to int, so
\* that a value of IntLimit or more is taken for a negative one.
ShrinkTarget ==
  LET d == p - AtLeastOne(Bytes(lists.mrug) \div Bytes(lists.mfug))
  IN  IF d >= IntLimit THEN 0 ELSE NonNeg(d)

-----------------------------------------------------------------------------
ArcInit ==
  /\ lists = [n \in ListNames |-> <<>>]
  /\ p = Capacity \div 2
  /\ content = {}
  /\ owner = [k \in {} |-> k]

\* Faulty variant: the object is linked again without being unlinked.
MoveToMfuTwice(k) == lists' = Prepend(lists, "mfu", k)

\* A resident object goes to the head of mfu; nothing else changes.
MoveToMfu(k) == lists' = Prepend(Detach(lists, k), "mfu", k)

\* Faulty variants of BringIn: an evicted object keeps its content; the block
\* number is stored in every object.
BringInNoEvict(L, q, n, k, b) ==
  LET M == Balance(L, q)
      known == DirectoryOf(M) \cup {k}
  IN  /\ lists' = Prepend(M, n, k)
      /\ p' = q
      /\ content' = (content \cap known) \cup {k}
      /\ owner' = [x \in known |-> IF x = k THEN b ELSE owner[x]]

BringInAllOwned(L, q, n, k, b) ==
  LET M == Balance(L, q)
      known == DirectoryOf(M) \cup {k}
  IN  /\ lists' = Prepend(M, n, k)
      /\ p' = q
      /\ content' = (content \ GhostsIn(Evict(L, q))) \cup {k}
      /\ owner' = [x \in known |-> b]

\* Room is made at target q, then k, which is in no list of L, is put at the
\* head of list n with its content and its block number (__cop_create or
\* __cop_fetch).  Evicted objects lose their content (__cop_evict), those
\* that leave the ghost lists are freed (__cop_destroy).
BringIn(L, q, n, k, b) ==
  LET M == Balance(L, q)
      known == DirectoryOf(M) \cup {k}
  IN  /\ lists' = Prepend(M, n, k)
      /\ p' = q
      /\ content' = (content \ GhostsIn(Evict(L, q))) \cup {k}
      /\ owner' = [x \in known |-> IF x = k THEN b ELSE owner[x]]

\* __arc_lookup
LookupHit(k) ==
  /\ k \in Resident
  /\ MoveToMfu(k)
  /\ UNCHANGED <<p, content, owner>>

LookupMiss(k) ==
  /\ k \notin Resident
  /\ UNCHANGED arcVars

\* __arc_add: the four places the object may be in, or a new object.
AddResident(k) == LookupHit(k)

AddMruGhost(k, b) ==
  /\ k \in Elements(lists.mrug)
  /\ BringIn(Detach(lists, k), GrowTarget, "mfu", k, b)

AddMfuGhost(k, b) ==
  /\ k \in Elements(lists.mfug)
  /\ BringIn(Detach(lists, k), ShrinkTarget, "mfu", k, b)

AddNew(k, b) ==
  /\ k \notin Directory
  /\ BringIn(lists, p, "mru", k, b)

ArcAdd(k, b) ==
  \/ AddResident(k)
  \/ AddMruGhost(k, b)
  \/ AddMfuGhost(k, b)
  \/ AddNew(k, b)

\* __arc_destroy, by contentcache_exit: the four lists are emptied; c and p
\* stay.
ArcDestroy ==
  /\ lists' = [n \in ListNames |-> <<>>]
  /\ content' = {}
  /\ owner' = [k \in {} |-> k]
  /\ UNCHANGED p

ArcNext ==
  \/ \E k \in Keys : LookupHit(k) \/ LookupMiss(k)
  \/ \E k \in Keys, b \in IoBlocks : ArcAdd(k, b)
  \/ ArcDestroy

ArcSpec == ArcInit /\ [][ArcNext]_arcVars

-----------------------------------------------------------------------------
\* The type invariant, with the range of the target p.
TypeOK ==
  /\ lists \in [ListNames -> Seq(Keys)]
  /\ p \in 0..Capacity
  /\ content \subseteq Keys
  /\ owner \in [Directory -> IoBlocks]

\* An object is linked in exactly one list, once: __arc_move unlinks it from
\* its old list before it balances and links it in the new one.
NoRepeat(s) == \A i, j \in DOMAIN s : s[i] = s[j] => i = j
ListsDisjoint ==
  /\ TypeOK
  /\ \A n \in ListNames : NoRepeat(lists[n])
  /\ \A m, n \in ListNames :
       m # n => Elements(lists[m]) \cap Elements(lists[n]) = {}

\* Only the objects in mru and mfu hold a content: eviction frees it, and a
\* ghost that comes back fetches it (the assertions of __cop_fetch).
ContentIffResident == content = Resident

\* Whatever is added, found again or comes back from the ghost lists, these
\* remember no more than a cache full of objects, and the resident lists
\* exceed the capacity by at most one object.
ListsBounded ==
  /\ Bytes(lists.mrug) + Bytes(lists.mfug) <= Capacity
  /\ Bytes(lists.mru) + Bytes(lists.mfu) <= Capacity + ObjectSize

\* All of it: an object is linked once, has a content just when it is
\* resident (the assertions of __cop_fetch), and the lists are bounded.
ContentBounded == ListsDisjoint /\ ContentIffResident /\ ListsBounded

\* Replacement is by recency within each list: of two objects of mru (or of
\* mfu) the one nearer the tail is never kept while the other is evicted, and
\* no object leaves the resident lists unless a new one comes in.
KeepsRecentOf(s) ==
  \A i, j \in DOMAIN s : (i < j /\ s[j] \in Resident') => s[i] \in Resident'
EvictsLeastRecent ==
  [][ \/ Resident' = {}
      \/ Resident \subseteq Resident'
      \/ /\ KeepsRecentOf(lists.mru)
         /\ KeepsRecentOf(lists.mfu)
         /\ \E k \in Keys : Resident' \ Resident = {k} ]_arcVars

\* To its callers the content cache is a store of block numbers by key: an
\* object keeps the number it came in with for as long as it is resident,
\* which is what contentcache_lookup asserts of it (contentcache.c:346).
Objects == INSTANCE Store WITH
  Names <- Keys, Values <- IoBlocks, Updatable <- FALSE,
  store <- [k \in Resident |-> owner[k]]
ImplementsStore == Objects!StoreSpec

\* The comment on __arc_balance: room is made for the object that comes in.
ResidentFits == Bytes(lists.mru) + Bytes(lists.mfu) <= Capacity
=============================================================================
