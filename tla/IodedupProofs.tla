---------------------------- MODULE IodedupProofs ----------------------------
(***************************************************************************)
(* Theorems about I/O deduplication: the metadata and the program's        *)
(* containers of it, for any sets of blocks and keys; and the replay and   *)
(* its counters, for any replacement policies of the two caches.  Replays  *)
(* are of any length.  That reads are counted by the metadata as by the    *)
(* content cache rests on what is proved of the replay: the two have one   *)
(* leader for each content.                                                *)
(***************************************************************************)
EXTENDS DedupTables, IoReplayStats, HashTabProofs

\* The inductive invariant.  Agreement of blocks and elements is what a trim
\* needs to leave the other elements alone; agreement of the table and the
\* elements is what a new element needs to be the only one of its key; and
\* the account of the identifiers is what makes the next one a fresh one.
MetaInv ==
  /\ MetaTypeOK
  /\ BlocksAndElementsAgree
  /\ TableAgrees
  /\ NoEmptyElement
  /\ IdsAccountedFor

\* What resumeDeduping does where the hit that was noted is the block's: the
\* key is confirmed, joined or added.
Confirmed(b, k, leader) ==
  /\ Clean(b)
  /\ KeyOf(b) = k
  /\ d2pv' = [d2pv EXCEPT ![deduptab[k]].ioblkID = leader]
  /\ UNCHANGED <<p2d, deduptab, reusable, dedupNum>>
Joined(b, k, leader) == ~Clean(b) /\ JoinElement(b, k, leader)
Added(b, k, leader) == ~Clean(b) /\ NewElement(b, k, leader)
Resumed(b, k, leader) ==
  Confirmed(b, k, leader) \/ Joined(b, k, leader) \/ Added(b, k, leader)

LEMMA AsNoted ==
  ASSUME MetaInv, NEW b \in Blocks, NEW k \in Keys, NEW leader \in Blocks,
         ResumeDeduping(b, k, leader, CmapHitID(b))
  PROVE  Resumed(b, k, leader)
<1>1. Clean(b) => /\ p2d[b].iodedupID \in Ids /\ p2d[b].iodedupID # NoHit
                  /\ KeyOf(b) = d2pv[p2d[b].iodedupID].dhashkey
  BY DEF MetaInv, MetaTypeOK, BlocksAndElementsAgree, KeyOf, ElementOf, NoHit, ZeroId
<1>2. CASE Clean(b)
  <2>1. PICK i \in Ids : i = p2d[b].iodedupID /\ i # NoHit /\ KeyOf(b) = d2pv[i].dhashkey
    BY <1>1, <1>2
  <2>2. ConfirmMapping(i, k, leader)
    BY <1>2, <2>1 DEF ResumeDeduping, CmapHitID
  <2>3. KeyOf(b) = k
    BY <2>1, <2>2 DEF MetaInv, TableAgrees, ConfirmMapping
  <2> QED
    BY <1>2, <2>2, <2>3 DEF ConfirmMapping, Confirmed, Resumed
<1>3. CASE ~Clean(b)
  BY <1>3 DEF ResumeDeduping, CmapHitID, Joined, Added, Resumed
<1> QED
  BY <1>2, <1>3

\* The identifier of a new element is fresh and none of the reserved ones.
LEMMA NextIsFresh ==
  ASSUME MetaInv
  PROVE  NextDedupNum \in Nat \ {ZeroId, DummyId} /\ NextDedupNum \notin Ids
<1>1. CASE reusable = <<>>
  BY <1>1 DEF MetaInv, MetaTypeOK, IdsAccountedFor, NextDedupNum, FirstNum,
              ZeroId, DummyId
<1>2. CASE reusable # <<>>
  <2>1. Head(reusable) \in ToSet(reusable)
    BY <1>2, TailSet DEF MetaInv, MetaTypeOK, IdsAccountedFor
  <2> QED
    BY <1>2, <2>1 DEF MetaInv, MetaTypeOK, IdsAccountedFor, NextDedupNum, FirstNum,
                      ZeroId, DummyId
<1> QED
  BY <1>1, <1>2

LEMMA MetaInitially == MetaInit => MetaInv
<1> SUFFICES ASSUME MetaInit PROVE MetaInv
  OBVIOUS
<1>1. ToSet(reusable) = {} /\ IsInjective(reusable) /\ reusable \in Seq(Nat)
  BY DEF MetaInit, ToSet, IsInjective
<1>2. Ids = {} /\ DOMAIN p2d = {} /\ DOMAIN deduptab = {}
  BY DEF MetaInit, Ids
<1>3. MetaTypeOK
  BY <1>1, <1>2 DEF MetaInit, MetaTypeOK, Ids, FirstNum
<1>4. IdsAccountedFor
  BY <1>1, <1>2 DEF MetaInit, IdsAccountedFor, FirstNum
<1> QED
  BY <1>2, <1>3, <1>4
     DEF MetaInv, BlocksAndElementsAgree, TableAgrees, NoEmptyElement,
         Clean, Mapped

-----------------------------------------------------------------------------
\* Every step preserves the inductive invariant: one lemma per action.

LEMMA TrimUnmappedStep ==
  ASSUME MetaInv, NEW b \in Blocks, TrimUnmapped(b)
  PROVE  MetaInv'
<1>1. /\ DOMAIN p2d' = DOMAIN p2d \cup {b}
      /\ p2d'[b] = [iodedupID |-> DummyId, pdirty |-> TRUE]
      /\ \A old \in DOMAIN p2d : p2d'[old] = p2d[old]
      /\ p2d' \in [DOMAIN p2d' -> [iodedupID : Nat, pdirty : BOOLEAN]]
  BY DEF MetaInv, MetaTypeOK, TrimUnmapped, Mapped, With, DummyId
<1>2. UNCHANGED <<d2pv, deduptab, reusable, dedupNum>>
  BY DEF TrimUnmapped
<1>3. ASSUME NEW old \in Blocks
      PROVE  Clean(old)' <=> Clean(old)
  <2>1. CASE old = b
    BY <1>1, <2>1 DEF TrimUnmapped, Clean, Mapped
  <2>2. CASE old # b
    BY <1>1, <2>2 DEF Clean, Mapped
  <2> QED
    BY <2>1, <2>2
<1>4. MetaTypeOK'
  BY <1>1, <1>2 DEF MetaInv, MetaTypeOK, Ids
<1>5. BlocksAndElementsAgree'
  BY <1>1, <1>2, <1>3
     DEF MetaInv, MetaTypeOK, BlocksAndElementsAgree, ElementOf, Ids, Clean, Mapped
<1>6. (TableAgrees /\ NoEmptyElement /\ IdsAccountedFor)'
  BY <1>2 DEF MetaInv, TableAgrees, NoEmptyElement, IdsAccountedFor, Ids
<1> QED
  BY <1>4, <1>5, <1>6 DEF MetaInv

\* A clean block is trimmed.  Its element loses it; if it was the last one
\* the element goes, with its key and no other.
LEMMA TrimCleanStep ==
  ASSUME MetaInv, NEW b \in Blocks, TrimClean(b)
  PROVE  MetaInv'
<1> DEFINE i == p2d[b].iodedupID
<1>1. /\ i \in Ids
      /\ b \in d2pv[i].d2pmaps
      /\ d2pv[i].dhashkey \in DOMAIN deduptab
      /\ i \in Nat
      /\ Clean(b) /\ b \in DOMAIN p2d
  BY DEF MetaInv, MetaTypeOK, TrimClean, BlocksAndElementsAgree, TableAgrees,
         ElementOf, Clean, Mapped
<1>2. /\ DOMAIN p2d' = DOMAIN p2d
      /\ \A old \in DOMAIN p2d : old # b => p2d'[old] = p2d[old]
      /\ p2d'[b].pdirty
      /\ p2d' \in [DOMAIN p2d -> [iodedupID : Nat, pdirty : BOOLEAN]]
  BY <1>1 DEF MetaInv, MetaTypeOK, TrimClean
<1>3. \A old \in Blocks : Clean(old)' <=> Clean(old) /\ old # b
  BY <1>1, <1>2 DEF Clean, Mapped
<1>4. dedupNum' = dedupNum /\ RecycleIodedupID(i, b)
  BY DEF TrimClean
<1> HIDE DEF i
<1>5. CASE d2pv[i].d2pmaps = {b}
  <2>1. /\ Ids' = Ids \ {i}
        /\ \A j \in Ids' : d2pv'[j] = d2pv[j]
        /\ d2pv' \in [Ids' -> [dhashkey : Keys, d2pmaps : SUBSET Blocks,
                               ioblkID : Blocks]]
    BY <1>4, <1>5 DEF MetaInv, MetaTypeOK, RecycleIodedupID, Only, Ids
  <2>2. /\ DOMAIN deduptab' = DOMAIN deduptab \ {d2pv[i].dhashkey}
        /\ \A k \in DOMAIN deduptab' : deduptab'[k] = deduptab[k]
        /\ deduptab' \in [DOMAIN deduptab' -> Nat]
    BY <1>4, <1>5 DEF MetaInv, MetaTypeOK, RecycleIodedupID, Only
  <2>3. reusable' = Append(reusable, i) /\ reusable \in Seq(Nat)
    BY <1>4, <1>5 DEF MetaInv, MetaTypeOK, RecycleIodedupID
  <2>4. MetaTypeOK'
    BY <1>1, <1>2, <1>4, <2>1, <2>2, <2>3, AppendProperties DEF MetaInv, MetaTypeOK
  <2>5. BlocksAndElementsAgree'
    <3>1. ASSUME NEW old \in Blocks, Clean(old)'
          PROVE  p2d'[old].iodedupID \in Ids' /\ old \in ElementOf(old)'.d2pmaps
      <4>1. old # b /\ Clean(old) /\ p2d'[old] = p2d[old]
        BY <3>1, <1>2, <1>3 DEF Clean, Mapped
      <4>2. p2d[old].iodedupID \in Ids /\ old \in d2pv[p2d[old].iodedupID].d2pmaps
        BY <4>1 DEF MetaInv, BlocksAndElementsAgree, ElementOf
      <4> QED
        BY <4>1, <4>2, <1>5, <2>1 DEF ElementOf
    <3>2. ASSUME NEW j \in Ids', NEW old \in d2pv'[j].d2pmaps
          PROVE  Clean(old)' /\ p2d'[old].iodedupID = j
      <4>1. j \in Ids /\ j # i /\ old \in d2pv[j].d2pmaps
        BY <2>1
      <4>2. Clean(old) /\ p2d[old].iodedupID = j /\ old \in Blocks
        BY <4>1 DEF MetaInv, BlocksAndElementsAgree, MetaTypeOK
      <4> QED
        BY <4>1, <4>2, <1>2, <1>3 DEF Clean, Mapped, i
    <3> QED
      BY <3>1, <3>2 DEF BlocksAndElementsAgree
  <2>6. TableAgrees'
    <3>1. ASSUME NEW j \in Ids'
          PROVE  d2pv'[j].dhashkey \in DOMAIN deduptab' /\ deduptab'[d2pv'[j].dhashkey] = j
      <4>1. /\ j \in Ids /\ j # i
            /\ d2pv[j].dhashkey \in DOMAIN deduptab
            /\ deduptab[d2pv[j].dhashkey] = j
            /\ deduptab[d2pv[i].dhashkey] = i
        BY <1>1, <2>1 DEF MetaInv, TableAgrees
      <4> QED
        BY <4>1, <2>1, <2>2
    <3>2. ASSUME NEW k \in DOMAIN deduptab'
          PROVE  deduptab'[k] \in Ids' /\ d2pv'[deduptab'[k]].dhashkey = k
      <4>1. /\ k \in DOMAIN deduptab /\ k # d2pv[i].dhashkey
            /\ deduptab[k] \in Ids
            /\ d2pv[deduptab[k]].dhashkey = k
        BY <2>2 DEF MetaInv, TableAgrees
      <4> QED
        BY <4>1, <2>1, <2>2
    <3> QED
      BY <3>1, <3>2 DEF TableAgrees
  <2>7. NoEmptyElement'
    BY <2>1 DEF MetaInv, NoEmptyElement
  <2>8. IdsAccountedFor'
    <3>1. i \notin ToSet(reusable)
      BY <1>1 DEF MetaInv, IdsAccountedFor
    <3>2. ToSet(reusable') = ToSet(reusable) \cup {i} /\ IsInjective(reusable')
      BY <1>1, <2>3, <3>1, AppendedSet DEF MetaInv, IdsAccountedFor
    <3> QED
      BY <1>1, <1>4, <2>1, <3>1, <3>2 DEF MetaInv, IdsAccountedFor
  <2> QED
    BY <2>4, <2>5, <2>6, <2>7, <2>8 DEF MetaInv
<1>6. CASE d2pv[i].d2pmaps # {b}
  <2>1. /\ Ids' = Ids
        /\ \A j \in Ids : j # i => d2pv'[j] = d2pv[j]
        /\ d2pv'[i].d2pmaps = d2pv[i].d2pmaps \ {b}
        /\ d2pv'[i].dhashkey = d2pv[i].dhashkey
        /\ d2pv' \in [Ids -> [dhashkey : Keys, d2pmaps : SUBSET Blocks,
                              ioblkID : Blocks]]
    <3>1. d2pv' = [d2pv EXCEPT ![i].d2pmaps = @ \ {b}]
      BY <1>4, <1>6 DEF RecycleIodedupID
    <3>2. d2pv \in [Ids -> [dhashkey : Keys, d2pmaps : SUBSET Blocks, ioblkID : Blocks]]
      BY DEF MetaInv, MetaTypeOK
    <3> QED
      BY <1>1, <3>1, <3>2 DEF Ids
  <2>2. UNCHANGED <<deduptab, reusable>>
    BY <1>4, <1>6 DEF RecycleIodedupID
  <2>3. MetaTypeOK'
    BY <1>2, <1>4, <2>1, <2>2 DEF MetaInv, MetaTypeOK
  <2>4. BlocksAndElementsAgree'
    <3>1. ASSUME NEW old \in Blocks, Clean(old)'
          PROVE  p2d'[old].iodedupID \in Ids' /\ old \in ElementOf(old)'.d2pmaps
      <4>1. old # b /\ Clean(old) /\ p2d'[old] = p2d[old]
        BY <3>1, <1>2, <1>3 DEF Clean, Mapped
      <4>2. p2d[old].iodedupID \in Ids /\ old \in d2pv[p2d[old].iodedupID].d2pmaps
        BY <4>1 DEF MetaInv, BlocksAndElementsAgree, ElementOf
      <4> QED
        BY <4>1, <4>2, <2>1 DEF ElementOf
    <3>2. ASSUME NEW j \in Ids', NEW old \in d2pv'[j].d2pmaps
          PROVE  Clean(old)' /\ p2d'[old].iodedupID = j
      <4>1. j \in Ids /\ old \in d2pv[j].d2pmaps /\ (j = i => old # b)
        BY <2>1
      <4>2. Clean(old) /\ p2d[old].iodedupID = j /\ old \in Blocks
        BY <4>1 DEF MetaInv, BlocksAndElementsAgree, MetaTypeOK
      <4> QED
        BY <4>1, <4>2, <1>2, <1>3 DEF Clean, Mapped, i
    <3> QED
      BY <3>1, <3>2 DEF BlocksAndElementsAgree
  <2>5. TableAgrees'
    <3>1. \A j \in Ids : d2pv'[j].dhashkey = d2pv[j].dhashkey
      BY <2>1
    <3> QED
      BY <2>1, <2>2, <3>1 DEF MetaInv, TableAgrees
  <2>6. NoEmptyElement'
    BY <1>1, <1>6, <2>1 DEF MetaInv, NoEmptyElement
  <2>7. IdsAccountedFor'
    BY <1>4, <2>1, <2>2 DEF MetaInv, IdsAccountedFor
  <2> QED
    BY <2>3, <2>4, <2>5, <2>6, <2>7 DEF MetaInv
<1> QED
  BY <1>5, <1>6

\* Nothing but the leader of one element changes.
LEMMA ConfirmMappingStep ==
  ASSUME MetaInv, NEW b \in Blocks, NEW k \in Keys, NEW leader \in Blocks,
         Confirmed(b, k, leader)
  PROVE  MetaInv'
<1>1. p2d[b].iodedupID \in Ids /\ d2pv[p2d[b].iodedupID].dhashkey = k
  BY DEF MetaInv, BlocksAndElementsAgree, Confirmed, KeyOf, ElementOf
<1>2. deduptab[k] = p2d[b].iodedupID
  BY <1>1 DEF MetaInv, TableAgrees
<1>3. d2pv' = [d2pv EXCEPT ![deduptab[k]].ioblkID = leader]
  BY DEF Confirmed
<1>4. d2pv \in [Ids -> [dhashkey : Keys, d2pmaps : SUBSET Blocks, ioblkID : Blocks]]
  BY DEF MetaInv, MetaTypeOK
<1>5. /\ Ids' = Ids
      /\ d2pv' \in [Ids -> [dhashkey : Keys, d2pmaps : SUBSET Blocks, ioblkID : Blocks]]
      /\ \A i \in Ids : /\ d2pv'[i].dhashkey = d2pv[i].dhashkey
                        /\ d2pv'[i].d2pmaps = d2pv[i].d2pmaps
  BY <1>1, <1>2, <1>3, <1>4 DEF Ids
<1>6. UNCHANGED <<p2d, deduptab, reusable, dedupNum>>
  BY DEF Confirmed
<1>7. MetaTypeOK'
  BY <1>5, <1>6 DEF MetaInv, MetaTypeOK
<1>8. BlocksAndElementsAgree'
  BY <1>5, <1>6 DEF MetaInv, BlocksAndElementsAgree, ElementOf, Clean, Mapped
<1>9. TableAgrees' /\ NoEmptyElement' /\ IdsAccountedFor'
  BY <1>5, <1>6 DEF MetaInv, TableAgrees, NoEmptyElement, IdsAccountedFor
<1> QED
  BY <1>7, <1>8, <1>9 DEF MetaInv

\* What JoinElement and NewElement do to the block map.
LEMMA BlockUpdated ==
  ASSUME MetaInv, NEW b \in Blocks, NEW i \in Nat, UpdateBlockio(b, i)
  PROVE  /\ DOMAIN p2d' = DOMAIN p2d \cup {b}
         /\ p2d' \in [DOMAIN p2d' -> [iodedupID : Nat, pdirty : BOOLEAN]]
         /\ \A old \in DOMAIN p2d : old # b => p2d'[old] = p2d[old]
         /\ Clean(b)' /\ p2d'[b].iodedupID = i
         /\ \A old \in Blocks : old # b => (Clean(old)' <=> Clean(old))
<1>1. p2d \in [DOMAIN p2d -> [iodedupID : Nat, pdirty : BOOLEAN]]
  BY DEF MetaInv, MetaTypeOK
<1>2. /\ DOMAIN p2d' = DOMAIN p2d \cup {b}
      /\ p2d' \in [DOMAIN p2d' -> [iodedupID : Nat, pdirty : BOOLEAN]]
      /\ \A old \in DOMAIN p2d : old # b => p2d'[old] = p2d[old]
      /\ p2d'[b] = [iodedupID |-> i, pdirty |-> FALSE]
  BY <1>1 DEF UpdateBlockio, With
<1>3. Clean(b)' /\ p2d'[b].iodedupID = i
  BY <1>2 DEF Clean, Mapped
<1>4. \A old \in Blocks : old # b => (Clean(old)' <=> Clean(old))
  BY <1>2 DEF Clean, Mapped
<1> QED
  BY <1>2, <1>3, <1>4

LEMMA JoinElementStep ==
  ASSUME MetaInv, NEW b \in Blocks, NEW k \in Keys, NEW leader \in Blocks,
         Joined(b, k, leader)
  PROVE  MetaInv'
<1> DEFINE i == deduptab[k]
<1>1. i \in Ids /\ i \in Nat /\ d2pv[i].dhashkey = k
  BY DEF MetaInv, MetaTypeOK, TableAgrees, Joined, JoinElement
<1>2. d2pv' = [d2pv EXCEPT ![i].d2pmaps = @ \cup {b}, ![i].ioblkID = leader]
  BY DEF Joined, JoinElement
<1>3. ~Clean(b) /\ UpdateBlockio(b, i) /\ UNCHANGED <<deduptab, reusable, dedupNum>>
  BY DEF Joined, JoinElement
<1> HIDE DEF i
<1>4. d2pv \in [Ids -> [dhashkey : Keys, d2pmaps : SUBSET Blocks, ioblkID : Blocks]]
  BY DEF MetaInv, MetaTypeOK
<1>5. /\ Ids' = Ids
      /\ d2pv' \in [Ids -> [dhashkey : Keys, d2pmaps : SUBSET Blocks, ioblkID : Blocks]]
      /\ \A j \in Ids : d2pv'[j].dhashkey = d2pv[j].dhashkey
      /\ \A j \in Ids : j # i => d2pv'[j].d2pmaps = d2pv[j].d2pmaps
      /\ d2pv'[i].d2pmaps = d2pv[i].d2pmaps \cup {b}
  BY <1>1, <1>2, <1>4 DEF Ids
<1>6. /\ DOMAIN p2d' = DOMAIN p2d \cup {b}
      /\ p2d' \in [DOMAIN p2d' -> [iodedupID : Nat, pdirty : BOOLEAN]]
      /\ \A old \in DOMAIN p2d : old # b => p2d'[old] = p2d[old]
      /\ Clean(b)' /\ p2d'[b].iodedupID = i
      /\ \A old \in Blocks : old # b => (Clean(old)' <=> Clean(old))
  BY <1>1, <1>3, BlockUpdated
<1>7. MetaTypeOK'
  BY <1>3, <1>5, <1>6 DEF MetaInv, MetaTypeOK
<1>8. BlocksAndElementsAgree'
  <2>1. ASSUME NEW old \in Blocks, Clean(old)'
        PROVE  p2d'[old].iodedupID \in Ids' /\ old \in ElementOf(old)'.d2pmaps
    <3>1. CASE old = b
      BY <3>1, <1>1, <1>5, <1>6 DEF ElementOf
    <3>2. CASE old # b
      <4>1. Clean(old) /\ p2d'[old] = p2d[old]
        BY <2>1, <3>2, <1>6 DEF Clean, Mapped
      <4>2. p2d[old].iodedupID \in Ids /\ old \in d2pv[p2d[old].iodedupID].d2pmaps
        BY <4>1 DEF MetaInv, BlocksAndElementsAgree, ElementOf
      <4> QED
        BY <4>1, <4>2, <1>5 DEF ElementOf
    <3> QED
      BY <3>1, <3>2
  <2>2. ASSUME NEW j \in Ids', NEW old \in d2pv'[j].d2pmaps
        PROVE  Clean(old)' /\ p2d'[old].iodedupID = j
    <3>1. CASE old # b
      <4>1. old \in d2pv[j].d2pmaps
        BY <3>1, <1>5
      <4>2. Clean(old) /\ p2d[old].iodedupID = j /\ old \in Blocks
        BY <4>1, <1>5 DEF MetaInv, BlocksAndElementsAgree, MetaTypeOK
      <4> QED
        BY <3>1, <4>2, <1>6 DEF Clean, Mapped
    <3>2. CASE old = b
      <4>1. j = i
        BY <3>2, <1>3, <1>5 DEF MetaInv, BlocksAndElementsAgree
      <4> QED
        BY <3>2, <4>1, <1>6
    <3> QED
      BY <3>1, <3>2
  <2> QED
    BY <2>1, <2>2 DEF BlocksAndElementsAgree
<1>9. TableAgrees' /\ NoEmptyElement' /\ IdsAccountedFor'
  <2>1. TableAgrees' /\ IdsAccountedFor'
    BY <1>3, <1>5 DEF MetaInv, TableAgrees, IdsAccountedFor
  <2>2. NoEmptyElement'
    BY <1>5 DEF MetaInv, NoEmptyElement
  <2> QED
    BY <2>1, <2>2
<1> QED
  BY <1>7, <1>8, <1>9 DEF MetaInv

\* The account of the identifiers when the next one is handed out.
LEMMA AccountWithNext ==
  ASSUME MetaInv, GetNextDedupNum, Ids' = Ids \cup {NextDedupNum}
  PROVE  IdsAccountedFor' /\ dedupNum' \in Nat /\ reusable' \in Seq(Nat)
<1>1. /\ dedupNum \in Nat /\ reusable \in Seq(Nat)
      /\ FirstNum <= dedupNum
      /\ Ids \cup ToSet(reusable) = (FirstNum + 1)..dedupNum
      /\ Ids \cap ToSet(reusable) = {}
      /\ IsInjective(reusable)
  BY DEF MetaInv, MetaTypeOK, IdsAccountedFor
<1>2. CASE reusable = <<>>
  <2>1. NextDedupNum = dedupNum + 1 /\ dedupNum' = dedupNum + 1 /\ reusable' = <<>>
    BY <1>2 DEF GetNextDedupNum, NextDedupNum
  <2>2. ToSet(reusable) = {} /\ ToSet(reusable') = {}
    BY <1>2, <2>1 DEF ToSet
  <2>3. FirstNum \in Nat
    BY DEF FirstNum
  <2>4. Ids' = (FirstNum + 1)..dedupNum'
    BY <1>1, <2>1, <2>2, <2>3
  <2> QED
    BY <1>1, <1>2, <2>1, <2>2, <2>3, <2>4 DEF IdsAccountedFor
<1>3. CASE reusable # <<>>
  <2>1. NextDedupNum = Head(reusable) /\ dedupNum' = dedupNum /\ reusable' = Tail(reusable)
    BY <1>3 DEF GetNextDedupNum, NextDedupNum
  <2>2. /\ ToSet(reusable') = ToSet(reusable) \ {NextDedupNum}
        /\ NextDedupNum \in ToSet(reusable)
        /\ IsInjective(reusable')
        /\ reusable' \in Seq(Nat)
    BY <1>1, <1>3, <2>1, TailSet, HeadTailProperties
  <2> QED
    BY <1>1, <2>1, <2>2 DEF IdsAccountedFor
<1> QED
  BY <1>2, <1>3

LEMMA NewElementStep ==
  ASSUME MetaInv, NEW b \in Blocks, NEW k \in Keys, NEW leader \in Blocks,
         Added(b, k, leader)
  PROVE  MetaInv'
<1> DEFINE i == NextDedupNum
           e == [dhashkey |-> k, d2pmaps |-> {b}, ioblkID |-> leader]
<1>1. i \in Nat \ {ZeroId, DummyId} /\ i \notin Ids
  BY NextIsFresh
<1>2. /\ ~Clean(b) /\ k \notin DOMAIN deduptab
      /\ d2pv' = With(d2pv, i, e)
      /\ deduptab' = With(deduptab, k, i)
      /\ UpdateBlockio(b, i)
      /\ GetNextDedupNum
  BY DEF Added, NewElement
<1> HIDE DEF i
<1>3. /\ Ids' = Ids \cup {i}
      /\ \A j \in Ids : d2pv'[j] = d2pv[j]
      /\ d2pv'[i] = e
      /\ d2pv' \in [Ids' -> [dhashkey : Keys, d2pmaps : SUBSET Blocks, ioblkID : Blocks]]
  BY <1>1, <1>2 DEF MetaInv, MetaTypeOK, With, Ids
<1>4. /\ DOMAIN deduptab' = DOMAIN deduptab \cup {k}
      /\ \A l \in DOMAIN deduptab : deduptab'[l] = deduptab[l]
      /\ deduptab'[k] = i
      /\ deduptab' \in [DOMAIN deduptab' -> Nat]
  BY <1>1, <1>2 DEF MetaInv, MetaTypeOK, With
<1>5. /\ DOMAIN p2d' = DOMAIN p2d \cup {b}
      /\ p2d' \in [DOMAIN p2d' -> [iodedupID : Nat, pdirty : BOOLEAN]]
      /\ \A old \in DOMAIN p2d : old # b => p2d'[old] = p2d[old]
      /\ Clean(b)' /\ p2d'[b].iodedupID = i
      /\ \A old \in Blocks : old # b => (Clean(old)' <=> Clean(old))
  BY <1>1, <1>2, BlockUpdated
<1>6. IdsAccountedFor' /\ dedupNum' \in Nat /\ reusable' \in Seq(Nat)
  BY <1>2, <1>3, AccountWithNext DEF i
<1>7. MetaTypeOK'
  BY <1>1, <1>3, <1>4, <1>5, <1>6 DEF MetaInv, MetaTypeOK
<1>8. BlocksAndElementsAgree'
  <2>1. ASSUME NEW old \in Blocks, Clean(old)'
        PROVE  p2d'[old].iodedupID \in Ids' /\ old \in ElementOf(old)'.d2pmaps
    <3>1. CASE old = b
      BY <3>1, <1>3, <1>5 DEF ElementOf
    <3>2. CASE old # b
      <4>1. Clean(old) /\ p2d'[old] = p2d[old]
        BY <2>1, <3>2, <1>5 DEF Clean, Mapped
      <4>2. p2d[old].iodedupID \in Ids /\ old \in d2pv[p2d[old].iodedupID].d2pmaps
        BY <4>1 DEF MetaInv, BlocksAndElementsAgree, ElementOf
      <4> QED
        BY <4>1, <4>2, <1>3 DEF ElementOf
    <3> QED
      BY <3>1, <3>2
  <2>2. ASSUME NEW j \in Ids', NEW old \in d2pv'[j].d2pmaps
        PROVE  Clean(old)' /\ p2d'[old].iodedupID = j
    <3>1. CASE j = i
      <4>1. old = b
        BY <3>1, <1>3
      <4> QED
        BY <3>1, <4>1, <1>5
    <3>2. CASE j # i
      <4>1. j \in Ids /\ old \in d2pv[j].d2pmaps
        BY <3>2, <1>3
      <4>2. Clean(old) /\ p2d[old].iodedupID = j /\ old \in Blocks /\ old # b
        BY <4>1, <1>2 DEF MetaInv, BlocksAndElementsAgree, MetaTypeOK
      <4> QED
        BY <4>2, <1>5 DEF Clean, Mapped
    <3> QED
      BY <3>1, <3>2
  <2> QED
    BY <2>1, <2>2 DEF BlocksAndElementsAgree
<1>9. TableAgrees'
  <2>1. ASSUME NEW j \in Ids'
        PROVE  d2pv'[j].dhashkey \in DOMAIN deduptab' /\ deduptab'[d2pv'[j].dhashkey] = j
    <3>1. CASE j = i
      BY <3>1, <1>3, <1>4
    <3>2. CASE j # i
      BY <3>2, <1>3, <1>4 DEF MetaInv, TableAgrees
    <3> QED
      BY <3>1, <3>2
  <2>2. ASSUME NEW l \in DOMAIN deduptab'
        PROVE  deduptab'[l] \in Ids' /\ d2pv'[deduptab'[l]].dhashkey = l
    <3>1. CASE l = k
      BY <3>1, <1>3, <1>4
    <3>2. CASE l # k
      BY <3>2, <1>3, <1>4 DEF MetaInv, TableAgrees
    <3> QED
      BY <3>1, <3>2
  <2> QED
    BY <2>1, <2>2 DEF TableAgrees
<1>10. NoEmptyElement'
  BY <1>3 DEF MetaInv, NoEmptyElement
<1> QED
  BY <1>6, <1>7, <1>8, <1>9, <1>10 DEF MetaInv

LEMMA MetaStep == MetaInv /\ [MetaNext]_metaVars => MetaInv'
<1> SUFFICES ASSUME MetaInv, [MetaNext]_metaVars
             PROVE  MetaInv'
  OBVIOUS
<1>1. CASE UNCHANGED metaVars
  BY <1>1 DEF metaVars, MetaInv, MetaTypeOK, BlocksAndElementsAgree, TableAgrees,
              NoEmptyElement, IdsAccountedFor, Ids, ElementOf, Clean, Mapped
<1>2. ASSUME NEW b \in Blocks, Trim(b)
      PROVE  MetaInv'
  <2>1. CASE TrimUnmapped(b)
    BY <2>1, TrimUnmappedStep
  <2>2. CASE TrimDirty(b)
    BY <2>2, <1>1 DEF TrimDirty
  <2>3. CASE TrimClean(b)
    BY <2>3, TrimCleanStep
  <2> QED
    BY <1>2, <2>1, <2>2, <2>3 DEF Trim
<1>3. ASSUME NEW b \in Blocks, NEW k \in Keys, NEW leader \in Blocks,
             ResumeDeduping(b, k, leader, CmapHitID(b))
      PROVE  MetaInv'
  <2>1. Resumed(b, k, leader)
    BY <1>1, <1>3, AsNoted
  <2> QED
    BY <1>3, <2>1, ConfirmMappingStep, JoinElementStep, NewElementStep DEF Resumed
<1> QED
  BY <1>1, <1>2, <1>3 DEF MetaNext

\* The metadata never contradict themselves, whatever is written and read.
THEOREM MetaInvariant == MetaSpec => []MetaInv
  BY MetaInitially, MetaStep, PTL DEF MetaSpec

\* Type correctness.
THEOREM MetaTypeTheorem == MetaSpec => []MetaTypeOK
<1>1. MetaInv => MetaTypeOK
  BY DEF MetaInv
<1> QED
  BY <1>1, MetaInvariant, PTL

\* No element outlives the blocks that hold its content.
THEOREM NoEmptyTheorem == MetaSpec => []NoEmptyElement
<1>1. MetaInv => NoEmptyElement
  BY DEF MetaInv
<1> QED
  BY <1>1, MetaInvariant, PTL

\* Every block that is mapped and clean has a live element that lists it, and
\* no element lists another block.
THEOREM AgreementTheorem == MetaSpec => []BlocksAndElementsAgree
<1>1. MetaInv => BlocksAndElementsAgree
  BY DEF MetaInv
<1> QED
  BY <1>1, MetaInvariant, PTL

\* The hash table and the elements are inverse to each other.
THEOREM TableTheorem == MetaSpec => []TableAgrees
<1>1. MetaInv => TableAgrees
  BY DEF MetaInv
<1> QED
  BY <1>1, MetaInvariant, PTL

\* An element is found by its key as long as a block holds it, and no longer.
THEOREM ElementsTheorem == MetaSpec => []ElementsReachable
<1>1. MetaInv => ElementsReachable
  BY DEF MetaInv, ElementsReachable
<1> QED
  BY <1>1, MetaInvariant, PTL

\* Blocks, elements and hash table agree with each other after every request.
THEOREM MetadataTheorem == MetaSpec => []MetadataAgrees
<1>1. BlocksAndElementsAgree /\ ElementsReachable => MetadataAgrees
  BY DEF MetadataAgrees
<1> QED
  BY <1>1, AgreementTheorem, ElementsTheorem, PTL

\* No identifier is lost and none is given to two elements.
THEOREM IdsTheorem == MetaSpec => []IdsAccountedFor
<1>1. MetaInv => IdsAccountedFor
  BY DEF MetaInv
<1> QED
  BY <1>1, MetaInvariant, PTL

-----------------------------------------------------------------------------
\* The counter of identifiers advances only when all of those handed out are
\* in use, each by a block of its own that is not the one being updated.
LEMMA IdsFewerThanBlocks ==
  ASSUME MetaInv, NEW b \in Blocks, ~Clean(b)
  PROVE  IsFiniteSet(Ids) /\ Cardinality(Ids) < Cardinality(Blocks)
<1> DEFINE f == [i \in Ids |-> CHOOSE old \in d2pv[i].d2pmaps : TRUE]
<1>1. ASSUME NEW i \in Ids
      PROVE  f[i] \in Blocks \ {b} /\ p2d[f[i]].iodedupID = i
  <2>1. f[i] \in d2pv[i].d2pmaps
    BY DEF MetaInv, NoEmptyElement
  <2> QED
    BY <2>1 DEF MetaInv, MetaTypeOK, BlocksAndElementsAgree
<1>2. f \in [Ids -> Blocks \ {b}]
  BY <1>1
<1>3. f \in Injection(Ids, Blocks \ {b})
  <2>1. ASSUME NEW i \in Ids, NEW j \in Ids, f[i] = f[j] PROVE i = j
    <3>1. p2d[f[i]].iodedupID = i /\ p2d[f[j]].iodedupID = j
      BY <1>1
    <3> QED
      BY <2>1, <3>1
  <2> HIDE DEF f
  <2> QED
    BY <1>2, <2>1 DEF Injection, IsInjective
<1>4. /\ IsFiniteSet(Blocks \ {b})
      /\ Cardinality(Blocks \ {b}) = Cardinality(Blocks) - 1
      /\ Cardinality(Blocks) \in Nat
  BY MetaAssumption, FS_RemoveElement, FS_CardinalityType
<1>5. IsFiniteSet(Ids) /\ Cardinality(Ids) <= Cardinality(Blocks \ {b})
  BY <1>3, <1>4, FS_Injection
<1>6. Cardinality(Ids) \in Nat
  BY <1>5, FS_CardinalityType
<1> QED
  BY <1>4, <1>5, <1>6

LEMMA DedupNumStep ==
  ASSUME MetaInv, DedupNumBounded, [MetaNext]_metaVars
  PROVE  DedupNumBounded'
<1>1. CASE dedupNum' = dedupNum
  BY <1>1 DEF DedupNumBounded
<1>2. ASSUME NEW b \in Blocks, ~Clean(b), GetNextDedupNum
      PROVE  DedupNumBounded'
  <2>1. CASE reusable # <<>>
    BY <1>1, <1>2, <2>1 DEF GetNextDedupNum
  <2>2. CASE reusable = <<>>
    <3>1. Ids = (FirstNum + 1)..dedupNum
      <4>1. ToSet(reusable) = {}
        BY <2>2 DEF ToSet
      <4>2. Ids \cup ToSet(reusable) = (FirstNum + 1)..dedupNum
        BY DEF MetaInv, IdsAccountedFor
      <4> QED
        BY <4>1, <4>2
    <3>2. FirstNum \in Nat /\ dedupNum \in Nat /\ FirstNum <= dedupNum
      BY DEF MetaInv, MetaTypeOK, IdsAccountedFor, FirstNum
    <3>3. Cardinality(Ids) = dedupNum - FirstNum
      <4>1. FirstNum + 1 \in Int /\ dedupNum \in Int
        BY <3>2
      <4>2. Cardinality((FirstNum + 1)..dedupNum)
              = IF FirstNum + 1 > dedupNum THEN 0 ELSE dedupNum - (FirstNum + 1) + 1
        BY <4>1, FS_Interval
      <4> QED
        BY <3>1, <3>2, <4>2
    <3>4. Cardinality(Ids) < Cardinality(Blocks) /\ Cardinality(Blocks) \in Nat
      BY <1>2, IdsFewerThanBlocks, MetaAssumption, FS_CardinalityType
    <3>5. dedupNum' = dedupNum + 1
      BY <1>2, <2>2 DEF GetNextDedupNum
    <3> QED
      BY <3>2, <3>3, <3>4, <3>5 DEF DedupNumBounded
  <2> QED
    BY <2>1, <2>2
<1>3. CASE UNCHANGED metaVars
  BY <1>1, <1>3 DEF metaVars
<1>4. ASSUME NEW b \in Blocks, Trim(b)
      PROVE  DedupNumBounded'
  BY <1>1, <1>4 DEF Trim, TrimUnmapped, TrimDirty, TrimClean, metaVars
<1>5. ASSUME NEW b \in Blocks, NEW k \in Keys, NEW leader \in Blocks,
             ResumeDeduping(b, k, leader, CmapHitID(b))
      PROVE  DedupNumBounded'
  <2>1. Resumed(b, k, leader)
    BY <1>5, AsNoted
  <2> QED
    BY <1>1, <1>2, <2>1 DEF Resumed, Confirmed, Joined, Added, JoinElement, NewElement
<1> QED
  BY <1>3, <1>4, <1>5 DEF MetaNext

\* The counter never exceeds the number of blocks by more than the identifiers
\* that are reserved: it cannot roll over in a replay of any length.
THEOREM DedupNumTheorem == MetaSpec => []DedupNumBounded
<1>1. MetaInit => DedupNumBounded
  <2>1. Cardinality(Blocks) \in Nat
    BY MetaAssumption, FS_CardinalityType
  <2> QED
    BY <2>1 DEF MetaInit, DedupNumBounded, FirstNum
<1>2. MetaInv /\ DedupNumBounded /\ [MetaNext]_metaVars => DedupNumBounded'
  BY DedupNumStep
<1> QED
  BY <1>1, <1>2, MetaInvariant, PTL DEF MetaSpec

-----------------------------------------------------------------------------
\* The refinement of ContentMap.  A step leaves the keys of all clean blocks
\* alone but that of the one block it is about.
CleanBlocks == {b \in DOMAIN p2d : Clean(b)}
KeyMap == [b \in CleanBlocks |-> KeyOf(b)]

LEMMA CleanHasElement ==
  ASSUME MetaInv, NEW b \in CleanBlocks
  PROVE  /\ b \in Blocks
         /\ p2d[b].iodedupID \in Ids
         /\ b \in ElementOf(b).d2pmaps
  BY DEF MetaInv, MetaTypeOK, BlocksAndElementsAgree, CleanBlocks

LEMMA TrimmedKeys ==
  ASSUME MetaInv, NEW b \in Blocks, Trim(b)
  PROVE  BlockKeys!Invalidate(b)
<1>1. CASE TrimUnmapped(b)
  <2>1. /\ DOMAIN p2d' = DOMAIN p2d \cup {b} /\ b \notin DOMAIN p2d
        /\ p2d'[b].pdirty = TRUE
        /\ \A old \in DOMAIN p2d : p2d'[old] = p2d[old]
        /\ d2pv' = d2pv
    BY <1>1 DEF TrimUnmapped, Mapped, With
  <2>2. CleanBlocks' = CleanBlocks /\ b \notin CleanBlocks
    BY <2>1 DEF CleanBlocks, Clean, Mapped
  <2>3. \A old \in CleanBlocks : KeyOf(old)' = KeyOf(old)
    BY <2>1 DEF CleanBlocks, KeyOf, ElementOf
  <2>4. KeyMap' = [old \in DOMAIN KeyMap \ {b} |-> KeyMap[old]]
    BY <2>2, <2>3 DEF KeyMap
  <2> QED
    BY <2>4 DEF BlockKeys!Invalidate, KeyMap, CleanBlocks
<1>2. CASE TrimDirty(b)
  <2>1. b \notin CleanBlocks
    BY <1>2 DEF TrimDirty, CleanBlocks, Clean, Dirty
  <2>2. KeyMap' = KeyMap
    BY <1>2 DEF TrimDirty, metaVars, KeyMap, CleanBlocks, Clean, Mapped, KeyOf, ElementOf
  <2>3. KeyMap' = [old \in DOMAIN KeyMap \ {b} |-> KeyMap[old]]
    BY <2>1, <2>2 DEF KeyMap
  <2> QED
    BY <2>3 DEF BlockKeys!Invalidate, KeyMap, CleanBlocks
<1>3. CASE TrimClean(b)
  <2> DEFINE i == p2d[b].iodedupID
  <2>1. /\ DOMAIN p2d' = DOMAIN p2d /\ b \in DOMAIN p2d
        /\ p2d'[b].pdirty = TRUE
        /\ \A old \in DOMAIN p2d : old # b => p2d'[old] = p2d[old]
        /\ RecycleIodedupID(i, b)
    BY <1>3 DEF TrimClean, Clean, Mapped, MetaInv, MetaTypeOK
  <2>2. CleanBlocks' = CleanBlocks \ {b}
    BY <2>1 DEF CleanBlocks, Clean, Mapped
  <2>3. ASSUME NEW old \in CleanBlocks, old # b
        PROVE  KeyOf(old)' = KeyOf(old)
    <3>1. /\ p2d'[old] = p2d[old]
          /\ p2d[old].iodedupID \in Ids
          /\ old \in d2pv[p2d[old].iodedupID].d2pmaps
      BY <2>1, <2>3, CleanHasElement DEF CleanBlocks, ElementOf
    <3>2. d2pv'[p2d[old].iodedupID].dhashkey = d2pv[p2d[old].iodedupID].dhashkey
      <4>1. CASE d2pv[i].d2pmaps = {b}
        <5>1. p2d[old].iodedupID # i
          BY <2>3, <3>1, <4>1
        <5> QED
          BY <2>1, <3>1, <4>1, <5>1 DEF RecycleIodedupID, Only, Ids
      <4>2. CASE d2pv[i].d2pmaps # {b}
        <5>1. d2pv' = [d2pv EXCEPT ![i].d2pmaps = @ \ {b}]
          BY <2>1, <4>2 DEF RecycleIodedupID
        <5>2. d2pv \in [Ids -> [dhashkey : Keys, d2pmaps : SUBSET Blocks,
                               ioblkID : Blocks]]
          BY DEF MetaInv, MetaTypeOK
        <5> QED
          BY <3>1, <5>1, <5>2 DEF Ids
      <4> QED
        BY <4>1, <4>2
    <3> QED
      BY <3>1, <3>2 DEF KeyOf, ElementOf
  <2>4. KeyMap' = [old \in DOMAIN KeyMap \ {b} |-> KeyMap[old]]
    BY <2>2, <2>3 DEF KeyMap
  <2> QED
    BY <2>4 DEF BlockKeys!Invalidate, KeyMap, CleanBlocks
<1> QED
  BY <1>1, <1>2, <1>3 DEF Trim

\* What the two ways of learning a key have in common.
LEMMA LearntKeys ==
  ASSUME MetaInv, NEW b \in Blocks, NEW k \in Keys, NEW i \in Nat,
         ~Clean(b), UpdateBlockio(b, i),
         d2pv'[i].dhashkey = k,
         \A j \in Ids : d2pv'[j].dhashkey = d2pv[j].dhashkey
  PROVE  BlockKeys!Learn(b, k)
<1>1. /\ DOMAIN p2d' = DOMAIN p2d \cup {b}
      /\ \A old \in DOMAIN p2d : old # b => p2d'[old] = p2d[old]
      /\ Clean(b)' /\ p2d'[b].iodedupID = i
  BY BlockUpdated
<1>2. CleanBlocks' = CleanBlocks \cup {b} /\ b \notin CleanBlocks
  BY <1>1 DEF CleanBlocks, Clean, Mapped
<1>3. KeyOf(b)' = k
  BY <1>1 DEF KeyOf, ElementOf
<1>4. ASSUME NEW old \in CleanBlocks
      PROVE  KeyOf(old)' = KeyOf(old)
  <2>1. old # b /\ p2d'[old] = p2d[old] /\ p2d[old].iodedupID \in Ids
    BY <1>1, <1>2, CleanHasElement DEF CleanBlocks
  <2> QED
    BY <2>1 DEF KeyOf, ElementOf
<1>5. KeyMap' = [old \in DOMAIN KeyMap \cup {b} |-> IF old = b THEN k ELSE KeyMap[old]]
  BY <1>2, <1>3, <1>4 DEF KeyMap
<1>6. b \notin DOMAIN KeyMap
  BY <1>2 DEF KeyMap
<1> QED
  BY <1>5, <1>6 DEF BlockKeys!Learn, KeyMap, CleanBlocks

LEMMA UpdatedKeys ==
  ASSUME MetaInv, NEW b \in Blocks, NEW k \in Keys, NEW leader \in Blocks,
         Resumed(b, k, leader)
  PROVE  BlockKeys!Learn(b, k) \/ BlockKeys!Confirm(b, k)
<1>1. d2pv \in [Ids -> [dhashkey : Keys, d2pmaps : SUBSET Blocks, ioblkID : Blocks]]
  BY DEF MetaInv, MetaTypeOK
<1>2. CASE Confirmed(b, k, leader)
  <2>1. p2d' = p2d /\ Clean(b) /\ KeyOf(b) = k
    BY <1>2 DEF Confirmed
  <2>2. deduptab[k] \in Ids
    BY <2>1 DEF MetaInv, BlocksAndElementsAgree, TableAgrees, KeyOf, ElementOf
  <2>3. d2pv' = [d2pv EXCEPT ![deduptab[k]].ioblkID = leader]
    BY <1>2 DEF Confirmed
  <2>4. \A i \in Ids : d2pv'[i].dhashkey = d2pv[i].dhashkey
    BY <1>1, <2>2, <2>3
  <2>5. CleanBlocks' = CleanBlocks /\ b \in CleanBlocks
    BY <2>1 DEF CleanBlocks, Clean, Mapped
  <2>6. \A old \in CleanBlocks : KeyOf(old)' = KeyOf(old)
    BY <2>1, <2>4, CleanHasElement DEF KeyOf, ElementOf
  <2>7. KeyMap' = KeyMap /\ b \in DOMAIN KeyMap /\ KeyMap[b] = k
    BY <2>1, <2>5, <2>6 DEF KeyMap
  <2> QED
    BY <2>7 DEF BlockKeys!Confirm, KeyMap, CleanBlocks
<1>3. CASE Joined(b, k, leader)
  <2> DEFINE i == deduptab[k]
  <2>1. i \in Ids /\ i \in Nat /\ d2pv[i].dhashkey = k
    BY <1>3 DEF MetaInv, MetaTypeOK, TableAgrees, Joined, JoinElement
  <2>2. /\ d2pv' = [d2pv EXCEPT ![i].d2pmaps = @ \cup {b}, ![i].ioblkID = leader]
        /\ ~Clean(b) /\ UpdateBlockio(b, i)
    BY <1>3 DEF Joined, JoinElement
  <2> HIDE DEF i
  <2>3. \A j \in Ids : d2pv'[j].dhashkey = d2pv[j].dhashkey
    BY <1>1, <2>1, <2>2
  <2> QED
    BY <2>1, <2>2, <2>3, LearntKeys
<1>4. CASE Added(b, k, leader)
  <2> DEFINE i == NextDedupNum
  <2>1. i \in Nat /\ i \notin Ids
    BY NextIsFresh
  <2>2. /\ d2pv' = With(d2pv, i, [dhashkey |-> k, d2pmaps |-> {b}, ioblkID |-> leader])
        /\ ~Clean(b) /\ UpdateBlockio(b, i)
    BY <1>4 DEF Added, NewElement
  <2> HIDE DEF i
  <2>3. d2pv'[i].dhashkey = k /\ \A j \in Ids : d2pv'[j].dhashkey = d2pv[j].dhashkey
    BY <2>1, <2>2 DEF With, Ids
  <2> QED
    BY <2>1, <2>2, <2>3, LearntKeys
<1> QED
  BY <1>2, <1>3, <1>4 DEF Resumed

LEMMA KeyMapInitially == MetaInit => BlockKeys!MapInit
<1> SUFFICES ASSUME MetaInit PROVE BlockKeys!MapInit
  OBVIOUS
<1>1. {old \in DOMAIN p2d : Clean(old)} = {}
  BY DEF MetaInit
<1> QED
  BY <1>1 DEF BlockKeys!MapInit

LEMMA KeyMapStep ==
  ASSUME MetaInv, [MetaNext]_metaVars
  PROVE  [BlockKeys!MapNext]_KeyMap
<1>1. CASE UNCHANGED metaVars
  BY <1>1 DEF metaVars, KeyMap, CleanBlocks, Clean, Mapped, KeyOf, ElementOf
<1>2. ASSUME NEW b \in Blocks, Trim(b)
      PROVE  BlockKeys!MapNext
  BY <1>2, TrimmedKeys DEF BlockKeys!MapNext
<1>3. ASSUME NEW b \in Blocks, NEW k \in Keys, NEW leader \in Blocks,
             ResumeDeduping(b, k, leader, CmapHitID(b))
      PROVE  BlockKeys!MapNext
  <2>1. Resumed(b, k, leader)
    BY <1>3, AsNoted
  <2> QED
    BY <2>1, UpdatedKeys DEF BlockKeys!MapNext
<1> QED
  BY <1>1, <1>2, <1>3 DEF MetaNext

\* The tables of elements, keys, blocks and reusable identifiers together
\* implement a map from blocks to keys: a write makes its own block unknown
\* and no other, an update makes its own block known and no other.
THEOREM ContentMapTheorem == MetaSpec => ImplementsContentMap
<1>1. MetaInit => BlockKeys!MapInit
  BY KeyMapInitially
<1>2. MetaInv /\ [MetaNext]_metaVars =>
        [BlockKeys!MapNext]_[b \in {old \in DOMAIN p2d : Clean(old)} |-> KeyOf(b)]
  BY KeyMapStep DEF KeyMap, CleanBlocks
<1> QED
  BY <1>1, <1>2, MetaInvariant, PTL DEF MetaSpec, ImplementsContentMap, BlockKeys!MapSpec

-----------------------------------------------------------------------------
\* The containers.  A vector holds a map: its entries are those of the map,
\* all of them within its size.
VectorHolds(v, f) ==
  /\ v.size \in Nat
  /\ v = [size |-> v.size, data |-> f]
  /\ f = [i \in DOMAIN f |-> f[i]]
  /\ \A i \in DOMAIN f : i \in Nat /\ i < v.size

\* The nodes of the hash table are the entries of deduptab.
TableHolds == Nodes = {Node(k, deduptab[k]) : k \in DOMAIN deduptab}

\* The inductive invariant of the metadata with their containers.
TablesInv ==
  /\ MetaInv
  /\ DedupNumBounded
  /\ HashInv
  /\ VectorHolds(p2dmaps, p2d)
  /\ VectorHolds(dedupmap, d2pv)
  /\ TableHolds

LEMMA VectorGet ==
  ASSUME NEW v, NEW f, VectorHolds(v, f), NEW i
  PROVE  /\ Holds(v, i) <=> i \in DOMAIN f
         /\ At(v, i) = f[i]
<1>1. v.data = f /\ \A j \in DOMAIN f : j < v.size
  BY DEF VectorHolds
<1> QED
  BY <1>1 DEF Holds, At

\* A vector that has to grow keeps what it holds, as its new size is the size
\* asked for and not what is left of it in a word.
LEMMA VectorGrown ==
  ASSUME NEW v, NEW f, VectorHolds(v, f), NEW i \in Nat, 2 * (i + 1) < WordRange
  PROVE  VectorHolds(Grown(v, i), f) /\ i < Grown(v, i).size
<1>1. CASE i < v.size
  BY <1>1 DEF Grown
<1>2. CASE ~(i < v.size)
  <2>1. WordRange \in Nat
    BY TablesAssumption
  <2>2. PICK n \in Nat : n = 2 * (i + 1) /\ i < n /\ n % WordRange = n
    BY <2>1
  <2>3. v.data = f /\ v.size \in Nat /\ v = [size |-> v.size, data |-> f]
    BY DEF VectorHolds
  <2>4. \A j \in DOMAIN f : j \in Nat /\ j < n
    BY <1>2, <2>2, <2>3 DEF VectorHolds
  <2>5. {j \in DOMAIN f : j < n} = DOMAIN f
    BY <2>4
  <2>6. Only(f, DOMAIN f) = f
    BY <2>3 DEF Only, VectorHolds
  <2>7. Grown(v, i) = [size |-> n, data |-> f]
    BY <1>2, <2>2, <2>3, <2>5, <2>6 DEF Grown
  <2> QED
    BY <2>2, <2>4, <2>7 DEF VectorHolds
<1> QED
  BY <1>1, <1>2

LEMMA VectorSet ==
  ASSUME NEW v, NEW f, VectorHolds(v, f), NEW i \in Nat, 2 * (i + 1) < WordRange, NEW e
  PROVE  VectorHolds(Vector32Set(v, i, e), With(f, i, e))
<1> DEFINE g == Grown(v, i)
<1>1. VectorHolds(g, f) /\ i < g.size
  BY VectorGrown
<1> HIDE DEF g
<1>2. [g EXCEPT !.data = With(@, i, e)] = [size |-> g.size, data |-> With(f, i, e)]
  BY <1>1 DEF VectorHolds
<1>3. /\ DOMAIN With(f, i, e) = DOMAIN f \cup {i}
      /\ With(f, i, e) = [j \in DOMAIN With(f, i, e) |-> With(f, i, e)[j]]
  BY DEF With
<1>4. VectorHolds([size |-> g.size, data |-> With(f, i, e)], With(f, i, e))
  BY <1>1, <1>3 DEF VectorHolds
<1> QED
  BY <1>2, <1>4 DEF Vector32Set, g

LEMMA VectorThrough ==
  ASSUME NEW v, NEW f, VectorHolds(v, f), NEW i \in DOMAIN f, NEW e
  PROVE  VectorHolds(Through(v, i, e), [f EXCEPT ![i] = e])
<1>1. v.size \in Nat /\ v = [size |-> v.size, data |-> f]
  BY DEF VectorHolds
<1> DEFINE h == [f EXCEPT ![i] = e]
<1>2. Through(v, i, e) = [size |-> v.size, data |-> h]
  BY <1>1 DEF Through
<1>3. DOMAIN h = DOMAIN f /\ h = [j \in DOMAIN h |-> h[j]]
  OBVIOUS
<1> HIDE DEF h
<1>4. VectorHolds(Through(v, i, e), h)
  BY <1>1, <1>2, <1>3 DEF VectorHolds
<1> QED
  BY <1>4 DEF h

LEMMA VectorClear ==
  ASSUME NEW v, NEW f, VectorHolds(v, f), NEW i \in DOMAIN f
  PROVE  VectorHolds(Vector32Clear(v, i), Only(f, DOMAIN f \ {i}))
<1>1. v.size \in Nat /\ v = [size |-> v.size, data |-> f] /\ i < v.size
  BY DEF VectorHolds
<1>2. Vector32Clear(v, i) = [size |-> v.size, data |-> Only(f, DOMAIN f \ {i})]
  BY <1>1 DEF Vector32Clear, Grown
<1>3. /\ DOMAIN Only(f, DOMAIN f \ {i}) = DOMAIN f \ {i}
      /\ Only(f, DOMAIN f \ {i}) = [j \in DOMAIN f \ {i} |-> Only(f, DOMAIN f \ {i})[j]]
  BY DEF Only
<1> QED
  BY <1>1, <1>2, <1>3 DEF VectorHolds

\* The hash table finds the keys of deduptab, with their identifiers.
LEMMA KeyFound ==
  ASSUME TablesInv, NEW k \in Keys
  PROVE  /\ Finds(k) <=> k \in DOMAIN deduptab
         /\ k \in DOMAIN deduptab => Search(k) = deduptab[k]
<1>1. k \in TableKeys /\ HashInv /\ TableHolds
  BY TablesAssumption DEF TablesInv
<1>2. /\ Finds(k) <=> \E n \in Nodes : n.key = k
      /\ \A n \in Nodes : n.key = k => Search(k) = n.datum
  BY <1>1, FindsNode
<1>3. \A n : n \in Nodes <=> \E l \in DOMAIN deduptab : n = Node(l, deduptab[l])
  BY <1>1 DEF TableHolds
<1>4. \A l, d : Node(l, d).key = l /\ Node(l, d).datum = d
  BY DEF Node
<1> QED
  BY <1>2, <1>3, <1>4

\* What each map returns, from the container it is kept in.
LEMMA Returned ==
  ASSUME TablesInv
  PROVE  /\ \A b : (Holds(p2dmaps, b) <=> Mapped(b)) /\ At(p2dmaps, b) = p2d[b]
         /\ \A i : (Holds(dedupmap, i) <=> i \in Ids) /\ At(dedupmap, i) = d2pv[i]
         /\ \A k \in Keys : /\ Finds(k) <=> k \in DOMAIN deduptab
                            /\ k \in DOMAIN deduptab => Search(k) = deduptab[k]
BY VectorGet, KeyFound DEF TablesInv, Mapped, Ids

LEMMA Faithful == TablesInv => ContainersFaithful
<1> SUFFICES ASSUME TablesInv PROVE ContainersFaithful
  OBVIOUS
<1>1. ASSUME NEW b \in Blocks, Clean(b)
      PROVE  RemoveIsSafe(KeyOf(b)) /\ Finds(KeyOf(b))
  <2>1. p2d[b].iodedupID \in Ids
    BY <1>1 DEF TablesInv, MetaInv, BlocksAndElementsAgree
  <2>2. KeyOf(b) \in DOMAIN deduptab /\ KeyOf(b) \in Keys
    BY <2>1 DEF TablesInv, MetaInv, MetaTypeOK, TableAgrees, KeyOf, ElementOf
  <2>3. Finds(KeyOf(b))
    BY <2>2, Returned
  <2> QED
    BY <2>3 DEF Finds, Meets, RemoveIsSafe
<1> QED
  BY <1>1, Returned DEF ContainersFaithful, RemovesOnlyPresent

LEMMA TablesInitially == TablesInit => TablesInv
<1> SUFFICES ASSUME TablesInit PROVE TablesInv
  OBVIOUS
<1>1. MetaInv
  BY MetaInitially DEF TablesInit
<1>2. DedupNumBounded
  <2>1. Cardinality(Blocks) \in Nat
    BY MetaAssumption, FS_CardinalityType
  <2> QED
    BY <2>1 DEF TablesInit, MetaInit, DedupNumBounded, FirstNum
<1>3. HashInv /\ HashtabCreate
  BY HashInitInv DEF TablesInit, CreateDedupmapMappingSpace, DeduptabInit
<1>4. VectorHolds(p2dmaps, p2d) /\ VectorHolds(dedupmap, d2pv)
  BY TablesAssumption DEF TablesInit, MetaInit, CreateP2dMappingSpace,
     CreateDedupmapMappingSpace, Vector32, VectorHolds
<1>5. Nodes = {} /\ DOMAIN deduptab = {}
  BY <1>3 DEF HashtabCreate, Nodes, ToSet, TablesInit, MetaInit
<1> QED
  BY <1>1, <1>2, <1>3, <1>4, <1>5 DEF TablesInv, TableHolds

\* A new element's identifier is one that the table and the vector can hold.
LEMMA NextFits ==
  ASSUME MetaInv, DedupNumBounded, DedupNumBounded',
         NEW b \in Blocks, NEW k \in Keys, NEW leader \in Blocks, Added(b, k, leader)
  PROVE  /\ NextDedupNum \in Nat
         /\ 2 * (NextDedupNum + 1) < WordRange
         /\ NextDedupNum \in Data
<1>1. Cardinality(Blocks) \in Nat /\ WordRange \in Nat /\ FirstNum \in Nat
  BY MetaAssumption, FS_CardinalityType, TablesAssumption DEF FirstNum
<1>2. NextDedupNum \in (FirstNum + 1)..(FirstNum + Cardinality(Blocks))
  <2>1. CASE reusable = <<>>
    <3>1. NextDedupNum = dedupNum + 1 /\ dedupNum' = dedupNum + 1
      BY <2>1 DEF Added, NewElement, GetNextDedupNum, NextDedupNum
    <3>2. dedupNum \in Nat /\ FirstNum <= dedupNum
      BY DEF MetaInv, MetaTypeOK, IdsAccountedFor
    <3> QED
      BY <1>1, <3>1, <3>2 DEF DedupNumBounded
  <2>2. CASE reusable # <<>>
    <3>1. Head(reusable) \in ToSet(reusable)
      BY <2>2, TailSet DEF MetaInv, MetaTypeOK, IdsAccountedFor
    <3>2. NextDedupNum \in (FirstNum + 1)..dedupNum /\ dedupNum \in Nat
      BY <2>2, <3>1 DEF MetaInv, MetaTypeOK, IdsAccountedFor, NextDedupNum
    <3> QED
      BY <1>1, <3>2 DEF DedupNumBounded
  <2> QED
    BY <2>1, <2>2
<1> QED
  BY <1>1, <1>2, TablesAssumption

\* A trim.
LEMMA TableTrimStep ==
  ASSUME TablesInv, NEW b \in Blocks, Trim(b), TableTrim(b)
  PROVE  VectorHolds(p2dmaps, p2d)' /\ VectorHolds(dedupmap, d2pv)' /\ HashInv' /\ TableHolds'
<1>0. /\ VectorHolds(p2dmaps, p2d) /\ VectorHolds(dedupmap, d2pv) /\ HashInv /\ TableHolds
      /\ Holds(p2dmaps, b) <=> Mapped(b)
      /\ At(p2dmaps, b) = p2d[b]
  BY Returned DEF TablesInv
<1>1. CASE TrimUnmapped(b)
  <2>1. /\ p2d' = With(p2d, b, [iodedupID |-> DummyId, pdirty |-> TRUE])
        /\ d2pv' = d2pv /\ deduptab' = deduptab /\ ~Mapped(b)
    BY <1>1 DEF TrimUnmapped
  <2>2. /\ p2dmaps' = Vector32Set(p2dmaps, b, [iodedupID |-> DummyId, pdirty |-> TRUE])
        /\ chains' = chains /\ dedupmap' = dedupmap
    BY <1>0, <2>1 DEF TableTrim
  <2>3. b \in Nat /\ 2 * (b + 1) < WordRange
    BY TablesAssumption
  <2>4. VectorHolds(p2dmaps', p2d')
    BY <1>0, <2>1, <2>2, <2>3, VectorSet
  <2> QED
    BY <1>0, <2>1, <2>2, <2>4 DEF HashInv, TableHolds, Nodes
<1>2. CASE TrimDirty(b)
  <2>1. p2d' = p2d /\ d2pv' = d2pv /\ deduptab' = deduptab /\ Mapped(b) /\ p2d[b].pdirty
    BY <1>2 DEF TrimDirty, Dirty, metaVars
  <2>2. p2dmaps' = p2dmaps /\ chains' = chains /\ dedupmap' = dedupmap
    BY <1>0, <2>1 DEF TableTrim
  <2> QED
    BY <1>0, <2>1, <2>2 DEF HashInv, TableHolds, Nodes
<1>3. CASE TrimClean(b)
  <2> DEFINE i == p2d[b].iodedupID
             k == d2pv[i].dhashkey
  <2>1. /\ Mapped(b) /\ ~p2d[b].pdirty /\ i \in Ids
        /\ p2d' = [p2d EXCEPT ![b] = [p2d[b] EXCEPT !.pdirty = TRUE]]
        /\ RecycleIodedupID(i, b)
    BY <1>3 DEF TrimClean, Clean, TablesInv, MetaInv, BlocksAndElementsAgree
  <2>2. /\ p2dmaps' = Through(p2dmaps, b, [p2d[b] EXCEPT !.pdirty = TRUE])
        /\ TableRecycle(i, b)
    BY <1>0, <2>1 DEF TableTrim
  <2>3. VectorHolds(p2dmaps', p2d')
    BY <1>0, <2>1, <2>2, VectorThrough DEF Mapped
  <2>4. k \in Keys /\ k \in DOMAIN deduptab /\ deduptab[k] = i
    BY <2>1 DEF TablesInv, MetaInv, MetaTypeOK, TableAgrees
  <2>5. At(dedupmap, i) = d2pv[i]
    BY Returned
  <2>6. CASE d2pv[i].d2pmaps = {b}
    <3>1. /\ d2pv' = Only(d2pv, Ids \ {i})
          /\ deduptab' = Only(deduptab, DOMAIN deduptab \ {k})
      BY <2>1, <2>6 DEF RecycleIodedupID, Ids
    <3>2. HashtabRemove(k) /\ dedupmap' = Vector32Clear(dedupmap, i)
      BY <2>2, <2>5, <2>6 DEF TableRecycle
    <3>3. VectorHolds(dedupmap', d2pv')
      BY <1>0, <2>1, <3>1, <3>2, VectorClear DEF Ids
    <3>4. HashInv' /\ Nodes' = {n \in Nodes : n.key # k}
      BY <1>0, <2>4, <3>2, RemoveInv, TablesAssumption
    <3> HIDE DEF k
    <3>5. Nodes' = {Node(l, deduptab'[l]) : l \in DOMAIN deduptab'}
      <4>1. \A l \in DOMAIN deduptab : l # k => deduptab'[l] = deduptab[l]
        BY <3>1 DEF Only
      <4>2. DOMAIN deduptab' = DOMAIN deduptab \ {k}
        BY <3>1 DEF Only
      <4>3. \A n : n \in Nodes <=> \E l \in DOMAIN deduptab : n = Node(l, deduptab[l])
        BY <1>0 DEF TableHolds
      <4>4. \A l, d : Node(l, d).key = l
        BY DEF Node
      <4>5. \A n : n \in Nodes' <=> \E l \in DOMAIN deduptab' : n = Node(l, deduptab'[l])
        BY <3>4, <4>1, <4>2, <4>3, <4>4
      <4> QED
        BY <4>5
    <3> QED
      BY <2>3, <3>3, <3>4, <3>5 DEF TableHolds
  <2>7. CASE d2pv[i].d2pmaps # {b}
    <3>1. /\ d2pv' = [d2pv EXCEPT ![i] = DelD2P(d2pv[i], b)]
          /\ deduptab' = deduptab
      BY <2>1, <2>7 DEF RecycleIodedupID, DelD2P
    <3>2. dedupmap' = Through(dedupmap, i, DelD2P(d2pv[i], b)) /\ chains' = chains
      BY <2>2, <2>5, <2>7 DEF TableRecycle
    <3>3. VectorHolds(dedupmap', d2pv')
      BY <1>0, <2>1, <3>1, <3>2, VectorThrough DEF Ids
    <3> QED
      BY <1>0, <2>3, <3>1, <3>2, <3>3 DEF HashInv, TableHolds, Nodes
  <2> QED
    BY <2>6, <2>7
<1> QED
  BY <1>1, <1>2, <1>3 DEF Trim

\* What a read or a write teaches.
LEMMA TableResumeStep ==
  ASSUME TablesInv, DedupNumBounded',
         NEW b \in Blocks, NEW k \in Keys, NEW leader \in Blocks,
         Resumed(b, k, leader), TableResume(b, k, leader)
  PROVE  VectorHolds(p2dmaps, p2d)' /\ VectorHolds(dedupmap, d2pv)' /\ HashInv' /\ TableHolds'
<1>0. /\ VectorHolds(p2dmaps, p2d) /\ VectorHolds(dedupmap, d2pv) /\ HashInv /\ TableHolds
      /\ b \in Nat /\ 2 * (b + 1) < WordRange
  BY TablesAssumption DEF TablesInv
<1>1. /\ CmapHit(b) <=> Clean(b)
      /\ Finds(k) <=> k \in DOMAIN deduptab
      /\ k \in DOMAIN deduptab => Search(k) = deduptab[k]
  BY Returned DEF CmapHit, Clean, Mapped
<1>2. \A i : At(dedupmap, i) = d2pv[i]
  BY Returned
<1>3. \A l \in DOMAIN deduptab : deduptab[l] \in Ids
  BY DEF TablesInv, MetaInv, TableAgrees
<1>4. CASE Confirmed(b, k, leader)
  <2> DEFINE i == deduptab[k]
  <2>1. Clean(b) /\ KeyOf(b) = k /\ p2d' = p2d /\ deduptab' = deduptab
    BY <1>4 DEF Confirmed
  <2>2. k \in DOMAIN deduptab /\ i \in Ids
    <3>1. p2d[b].iodedupID \in Ids
      BY <2>1 DEF TablesInv, MetaInv, BlocksAndElementsAgree
    <3> QED
      BY <1>3, <2>1, <3>1 DEF TablesInv, MetaInv, TableAgrees, KeyOf, ElementOf
  <2>3. d2pv' = [d2pv EXCEPT ![i] = [d2pv[i] EXCEPT !.ioblkID = leader]]
    BY <1>4 DEF Confirmed
  <2>4. /\ dedupmap' = Through(dedupmap, i, [d2pv[i] EXCEPT !.ioblkID = leader])
        /\ chains' = chains /\ p2dmaps' = p2dmaps
    BY <1>1, <1>2, <2>1, <2>2 DEF TableResume, TableConfirm
  <2>5. VectorHolds(dedupmap', d2pv')
    BY <1>0, <2>2, <2>3, <2>4, VectorThrough DEF Ids
  <2> QED
    BY <1>0, <2>1, <2>4, <2>5 DEF HashInv, TableHolds, Nodes
<1>5. CASE Joined(b, k, leader)
  <2> DEFINE i == deduptab[k]
             e == [AddD2P(d2pv[i], b) EXCEPT !.ioblkID = leader]
  <2>1. ~Clean(b) /\ k \in DOMAIN deduptab /\ i \in Ids /\ deduptab' = deduptab
    BY <1>3, <1>5 DEF Joined, JoinElement
  <2>2. p2d' = With(p2d, b, NoteP2dMap(i))
    BY <1>5 DEF Joined, JoinElement, UpdateBlockio, NoteP2dMap
  <2>3. d2pv' = [d2pv EXCEPT ![i] = e]
    <3>1. d2pv' = [d2pv EXCEPT ![i].d2pmaps = @ \cup {b}, ![i].ioblkID = leader]
      BY <1>5 DEF Joined, JoinElement
    <3>2. d2pv \in [Ids -> [dhashkey : Keys, d2pmaps : SUBSET Blocks, ioblkID : Blocks]]
      BY DEF TablesInv, MetaInv, MetaTypeOK
    <3> QED
      BY <2>1, <3>1, <3>2 DEF AddD2P
  <2>4. /\ dedupmap' = Through(dedupmap, i, e)
        /\ p2dmaps' = Vector32Set(p2dmaps, b, NoteP2dMap(i))
        /\ chains' = chains
    BY <1>1, <1>2, <2>1 DEF TableResume, TableJoin, TableUpdateBlockio
  <2> HIDE DEF e
  <2>5. VectorHolds(dedupmap', d2pv')
    BY <1>0, <2>1, <2>3, <2>4, VectorThrough DEF Ids
  <2>6. VectorHolds(p2dmaps', p2d')
    BY <1>0, <2>2, <2>4, VectorSet
  <2> QED
    BY <1>0, <2>1, <2>4, <2>5, <2>6 DEF HashInv, TableHolds, Nodes
<1>6. CASE Added(b, k, leader)
  <2> DEFINE i == NextDedupNum
             e == NoteDedupAttrs(k, b, leader)
  <2>1. ~Clean(b) /\ k \notin DOMAIN deduptab /\ deduptab' = With(deduptab, k, i)
    BY <1>6 DEF Added, NewElement
  <2>2. p2d' = With(p2d, b, NoteP2dMap(i)) /\ d2pv' = With(d2pv, i, e)
    BY <1>6 DEF Added, NewElement, UpdateBlockio, NoteP2dMap, NoteDedupAttrs
  <2>3. /\ dedupmap' = Vector32Set(dedupmap, i, e)
        /\ p2dmaps' = Vector32Set(p2dmaps, b, NoteP2dMap(i))
        /\ HashtabInsert(k, i)
    BY <1>1, <2>1 DEF TableResume, TableNew, TableUpdateBlockio
  <2>4. i \in Nat /\ 2 * (i + 1) < WordRange /\ i \in Data
    BY <1>6, NextFits DEF TablesInv
  <2> HIDE DEF i, e
  <2>5. VectorHolds(dedupmap', d2pv')
    BY <1>0, <2>2, <2>3, <2>4, VectorSet
  <2>6. VectorHolds(p2dmaps', p2d')
    BY <1>0, <2>2, <2>3, VectorSet
  <2>7. HashInv' /\ Nodes' = Nodes \cup {Node(k, i)}
    BY <1>0, <1>1, <2>1, <2>3, <2>4, InsertInv, TablesAssumption
  <2>8. Nodes' = {Node(l, deduptab'[l]) : l \in DOMAIN deduptab'}
    <3>1. /\ DOMAIN deduptab' = DOMAIN deduptab \cup {k} /\ deduptab'[k] = i
          /\ \A l \in DOMAIN deduptab : deduptab'[l] = deduptab[l]
      BY <2>1 DEF With
    <3>2. \A n : n \in Nodes <=> \E l \in DOMAIN deduptab : n = Node(l, deduptab[l])
      BY <1>0 DEF TableHolds
    <3>3. \A n : n \in Nodes' <=> \E l \in DOMAIN deduptab' : n = Node(l, deduptab'[l])
      BY <2>7, <3>1, <3>2
    <3> QED
      BY <3>3
  <2> QED
    BY <2>5, <2>6, <2>7, <2>8 DEF TableHolds
<1> QED
  BY <1>4, <1>5, <1>6 DEF Resumed

LEMMA TablesStep == TablesInv /\ [TablesNext]_tableVars => TablesInv'
<1> SUFFICES ASSUME TablesInv, [TablesNext]_tableVars PROVE TablesInv'
  OBVIOUS
<1>1. [MetaNext]_metaVars
  BY DEF TablesNext, MetaNext, tableVars
<1>2. MetaInv' /\ DedupNumBounded'
  BY <1>1, MetaStep, DedupNumStep DEF TablesInv
<1>3. CASE UNCHANGED tableVars
  <2>1. UNCHANGED <<p2d, d2pv, deduptab, chains, p2dmaps, dedupmap>>
    BY <1>3 DEF tableVars, metaVars
  <2> QED
    BY <1>2, <2>1 DEF TablesInv, HashInv, TableHolds, Nodes
<1>4. ASSUME NEW b \in Blocks, Trim(b), TableTrim(b) PROVE TablesInv'
  BY <1>2, <1>4, TableTrimStep DEF TablesInv
<1>5. ASSUME NEW b \in Blocks, NEW k \in Keys, NEW leader \in Blocks,
             ResumeDeduping(b, k, leader, CmapHitID(b)), TableResume(b, k, leader)
      PROVE  TablesInv'
  <2>1. Resumed(b, k, leader)
    BY <1>5, AsNoted DEF TablesInv
  <2> QED
    BY <1>2, <1>5, <2>1, TableResumeStep DEF TablesInv
<1> QED
  BY <1>3, <1>4, <1>5 DEF TablesNext

\* The vectors and the hash table return what was last put into them: no
\* growth, collision or removal loses or hides an entry (vector32.c,
\* uhashtab.c, deduptab.c).
THEOREM ContainersTheorem == TablesSpec => []ContainersFaithful
<1>1. TablesInit => TablesInv
  BY TablesInitially
<1>2. TablesInv /\ [TablesNext]_tableVars => TablesInv'
  BY TablesStep
<1>3. TablesInv => ContainersFaithful
  BY Faithful
<1> QED
  BY <1>1, <1>2, <1>3, PTL DEF TablesSpec

-----------------------------------------------------------------------------
\* The replay.
USE DEF modeVars

\* What is known of the request in progress at each of its stages: the disk
\* has the content that a read is to be answered with and that an update of
\* the metadata is about, and the mapping of a block is invalid from the trim
\* until the disk is written.
Fetching ==
  \/ stage \in {"find", "lookup", "update", "fill"}
  \/ stage = "content" /\ req.rw = "read"
Storing ==
  \/ stage = "store"
  \/ stage = "content" /\ req.rw = "write"
RequestOnDisk ==
  /\ stage \in {"find", "lookup", "fill"} => req.rw = "read"
  /\ stage \in {"cache", "trim", "store"} => req.rw = "write"
  /\ Fetching => b0 \in DOMAIN disk /\ disk[b0] = k0
  /\ Storing => ~Clean(b0)

\* What the lookup of a read has noted is what a lookup would find still, and
\* a write has noted nothing.
Noted ==
  /\ stage \in {"find", "lookup", "cache", "trim"} => req.cmaphit = NoHit
  /\ stage \in {"content", "store", "update"} => req.cmaphit = CmapHitID(b0)

\* The inductive invariant.
ReplayInv ==
  /\ MetaInv
  /\ ReplayTypeOK
  /\ RequestOnDisk
  /\ SectorCacheFresh
  /\ CleanOnDisk
  /\ LeadersAgree

-----------------------------------------------------------------------------
\* A value put into the sector cache is there, and any other value there was
\* there before.
LEMMA SectorPut ==
  ASSUME sector \in [DOMAIN sector -> Keys], DOMAIN sector \subseteq Blocks,
         NEW b \in Blocks, NEW k \in Keys, Sector!Put(b, k)
  PROVE  /\ DOMAIN sector' \subseteq Blocks
         /\ sector' \in [DOMAIN sector' -> Keys]
         /\ sector'[b] = k
         /\ \A y \in DOMAIN sector' : y # b => y \in DOMAIN sector /\ sector'[y] = sector[y]
<1>1. CASE Sector!Insert(b, k)
  <2>1. PICK kept \in SUBSET DOMAIN sector :
          sector' = [m \in kept \cup {b} |-> IF m = b THEN k ELSE sector[m]]
    BY <1>1 DEF Sector!Insert
  <2> QED
    BY <2>1
<1>2. CASE Sector!Update(b, k)
  BY <1>2 DEF Sector!Update
<1> QED
  BY <1>1, <1>2 DEF Sector!Put, Sector!Touch

\* A key put into the content cache is there with the block number it had, or
\* else with the new one.
LEMMA ContentPut ==
  ASSUME ccache \in [DOMAIN ccache -> Blocks], DOMAIN ccache \subseteq Keys,
         NEW k \in Keys, NEW b \in Blocks, Content!Put(k, b)
  PROVE  /\ DOMAIN ccache' \subseteq Keys
         /\ ccache' \in [DOMAIN ccache' -> Blocks]
         /\ k \in DOMAIN ccache'
         /\ ccache'[k] = IF k \in DOMAIN ccache THEN ccache[k] ELSE b
         /\ \A l \in DOMAIN ccache' : l # k => l \in DOMAIN ccache /\ ccache'[l] = ccache[l]
<1>1. CASE Content!Insert(k, b)
  <2>1. PICK kept \in SUBSET DOMAIN ccache :
          ccache' = [m \in kept \cup {k} |-> IF m = k THEN b ELSE ccache[m]]
    BY <1>1 DEF Content!Insert
  <2>2. k \notin DOMAIN ccache
    BY <1>1 DEF Content!Insert
  <2> QED
    BY <2>1, <2>2
<1>2. CASE Content!Touch(k)
  BY <1>2 DEF Content!Touch
<1> QED
  BY <1>1, <1>2 DEF Content!Put, Content!Update

\* The block and the content of a request in progress.
LEMMA RequestType ==
  ASSUME ReplayTypeOK, stage # "idle"
  PROVE  b0 \in Blocks /\ k0 \in Keys /\ req.rw \in {"read", "write"}
  BY DEF ReplayTypeOK, b0, k0

\* Steps that leave the metadata alone.
LEMMA SameMeta ==
  ASSUME MetaInv, UNCHANGED metaVars
  PROVE  /\ MetaInv'
         /\ \A b : /\ (Clean(b)' <=> Clean(b)) /\ KeyOf(b)' = KeyOf(b)
                   /\ CmapHitID(b)' = CmapHitID(b)
<1>1. MetaInv'
  BY MetaStep
<1>2. \A b : /\ (Clean(b)' <=> Clean(b)) /\ KeyOf(b)' = KeyOf(b)
             /\ CmapHitID(b)' = CmapHitID(b)
  BY DEF metaVars, Clean, Mapped, KeyOf, ElementOf, CmapHitID
<1> QED
  BY <1>1, <1>2

LEMMA ReplayInitially == ReplayInit => ReplayInv
<1> SUFFICES ASSUME ReplayInit PROVE ReplayInv
  OBVIOUS
<1>1. MetaInv
  BY MetaInitially DEF ReplayInit
<1>2. /\ DOMAIN p2d = {} /\ DOMAIN deduptab = {}
      /\ DOMAIN disk = {} /\ disk \in [DOMAIN disk -> Keys]
      /\ DOMAIN sector = {} /\ sector \in [DOMAIN sector -> Keys]
      /\ DOMAIN ccache = {} /\ ccache \in [DOMAIN ccache -> Blocks]
      /\ stage = "idle" /\ had = NotHad
      /\ warmup \in BOOLEAN /\ mapUponWrites \in BOOLEAN
  BY DEF ReplayInit, MetaInit, Sector!StoreInit, Content!StoreInit
<1>3. ReplayTypeOK
  BY <1>1, <1>2 DEF ReplayTypeOK, MetaInv, Stages
<1>4. RequestOnDisk
  BY <1>2 DEF RequestOnDisk, Fetching, Storing
<1>5. SectorCacheFresh /\ CleanOnDisk /\ LeadersAgree
  BY <1>2 DEF SectorCacheFresh, CleanOnDisk, LeadersAgree, Noting, Clean, Mapped
<1> QED
  BY <1>1, <1>3, <1>4, <1>5 DEF ReplayInv

-----------------------------------------------------------------------------
LEMMA StartReadStep ==
  ASSUME ReplayInv, NEW b \in Blocks, NEW k \in Keys, StartRead(b, k)
  PROVE  ReplayInv'
<1>1. /\ stage = "idle" /\ stage' = "find"
      /\ req' = [rw |-> "read", ioblk |-> b, content |-> k, cmaphit |-> NoHit]
      /\ had' = NotHad
      /\ UNCHANGED <<metaVars, sector, ccache, warmup, mapUponWrites>>
  BY DEF StartRead, TakeUp, Request, cacheVars
<1>2. MetaInv' /\ \A y : (Clean(y)' <=> Clean(y)) /\ KeyOf(y)' = KeyOf(y)
  BY <1>1, SameMeta DEF ReplayInv
<1>3. /\ DOMAIN disk' = DOMAIN disk \cup {b}
      /\ disk'[b] = k
      /\ \A y \in DOMAIN disk : disk'[y] = disk[y]
      /\ DOMAIN disk' \subseteq Blocks /\ disk' \in [DOMAIN disk' -> Keys]
  BY DEF ReplayInv, ReplayTypeOK, StartRead, With
<1>4. ReplayTypeOK'
  BY <1>1, <1>2, <1>3 DEF ReplayInv, MetaInv, ReplayTypeOK, Stages, NoHit
<1>5. RequestOnDisk'
  BY <1>1, <1>3 DEF RequestOnDisk, Fetching, Storing, b0, k0
<1>6. SectorCacheFresh'
  BY <1>1, <1>3 DEF ReplayInv, SectorCacheFresh, Writing
<1>7. CleanOnDisk'
  BY <1>2, <1>3 DEF ReplayInv, CleanOnDisk
<1>8. LeadersAgree'
  BY <1>1 DEF ReplayInv, LeadersAgree, Noting, metaVars
<1> QED
  BY <1>2, <1>4, <1>5, <1>6, <1>7, <1>8 DEF ReplayInv

LEMMA StartWriteStep ==
  ASSUME ReplayInv, NEW b \in Blocks, NEW k \in Keys, StartWrite(b, k)
  PROVE  ReplayInv'
<1>1. /\ stage = "idle" /\ stage' = "cache"
      /\ req' = [rw |-> "write", ioblk |-> b, content |-> k, cmaphit |-> NoHit]
      /\ had' = NotHad
      /\ UNCHANGED <<metaVars, disk, sector, ccache, warmup, mapUponWrites>>
  BY DEF StartWrite, TakeUp, Request, cacheVars
<1>2. MetaInv' /\ \A y : (Clean(y)' <=> Clean(y)) /\ KeyOf(y)' = KeyOf(y)
  BY <1>1, SameMeta DEF ReplayInv
<1>4. ReplayTypeOK'
  BY <1>1, <1>2 DEF ReplayInv, MetaInv, ReplayTypeOK, Stages, NoHit
<1>5. RequestOnDisk'
  BY <1>1 DEF RequestOnDisk, Fetching, Storing
<1>6. SectorCacheFresh'
  BY <1>1 DEF ReplayInv, SectorCacheFresh, Writing
<1>7. CleanOnDisk'
  BY <1>1, <1>2 DEF ReplayInv, CleanOnDisk
<1>8. LeadersAgree'
  BY <1>1 DEF ReplayInv, LeadersAgree, Noting, metaVars
<1> QED
  BY <1>2, <1>4, <1>5, <1>6, <1>7, <1>8 DEF ReplayInv

\* The lookups change nothing but the stage and the answer.
LEMMA ReadStepStep ==
  ASSUME ReplayInv, ReadStep
  PROVE  ReplayInv'
<1>1. /\ stage \in {"find", "lookup"}
      /\ stage' \in {"idle", "lookup", "fill"} \/ stage' = "content"
      /\ req' = req \/ NoteHit
      /\ UNCHANGED <<metaVars, disk, sector, ccache, warmup, mapUponWrites, had>>
  BY DEF ReadStep, FindInSector, MissInSector, FindContent, ReadDisk, cacheVars
<1>3. /\ req \in [rw : {"read", "write"}, ioblk : Blocks, content : Keys, cmaphit : Nat]
      /\ req' \in [rw : {"read", "write"}, ioblk : Blocks, content : Keys, cmaphit : Nat]
      /\ req'.rw = req.rw /\ b0' = b0 /\ k0' = k0
  <2>1. req \in [rw : {"read", "write"}, ioblk : Blocks, content : Keys, cmaphit : Nat]
    BY <1>1 DEF ReplayInv, ReplayTypeOK
  <2>2. Clean(b0) => p2d[b0].iodedupID \in Nat
    BY DEF ReplayInv, MetaInv, MetaTypeOK, Clean, Mapped
  <2>3. PICK h \in Nat : req' = req \/ req' = [req EXCEPT !.cmaphit = h]
    BY <1>1, <2>1, <2>2 DEF NoteHit
  <2> QED
    BY <2>1, <2>3 DEF b0, k0
<1>2. MetaInv' /\ \A y : (Clean(y)' <=> Clean(y)) /\ KeyOf(y)' = KeyOf(y)
  BY <1>1, SameMeta DEF ReplayInv
<1>4. ReplayTypeOK'
  BY <1>1, <1>2, <1>3 DEF ReplayInv, MetaInv, ReplayTypeOK, Stages
<1>5. RequestOnDisk'
  BY <1>1, <1>3 DEF ReplayInv, RequestOnDisk, Fetching, Storing
<1>6. SectorCacheFresh'
  <2>1. req.rw = "read"
    BY <1>1 DEF ReplayInv, RequestOnDisk
  <2> QED
    BY <1>1, <1>3, <2>1 DEF ReplayInv, SectorCacheFresh, Writing
<1>7. CleanOnDisk'
  BY <1>1, <1>2 DEF ReplayInv, CleanOnDisk
<1>8. LeadersAgree'
  BY <1>1 DEF ReplayInv, LeadersAgree, Noting, metaVars
<1> QED
  BY <1>2, <1>4, <1>5, <1>6, <1>7, <1>8 DEF ReplayInv

\* The new content is the leader's only if nothing else was resident for it.
LEMMA UpdateContentCacheStep ==
  ASSUME ReplayInv, UpdateContentCache
  PROVE  ReplayInv'
<1>1. /\ stage = "content" /\ PutContent
      /\ stage' = IF req.rw = "read" THEN "update" ELSE "store"
      /\ UNCHANGED <<metaVars, disk, sector, warmup, mapUponWrites, req>>
  BY DEF UpdateContentCache
<1>2. MetaInv' /\ \A y : (Clean(y)' <=> Clean(y)) /\ KeyOf(y)' = KeyOf(y)
  BY <1>1, SameMeta DEF ReplayInv
<1>3. b0 \in Blocks /\ k0 \in Keys /\ req.rw \in {"read", "write"}
  BY <1>1, RequestType DEF ReplayInv
<1>4. b0' = b0 /\ k0' = k0
  BY <1>1 DEF b0, k0
<1>5. RequestOnDisk'
  BY <1>1, <1>2, <1>3, <1>4 DEF ReplayInv, RequestOnDisk, Fetching, Storing
<1>6. SectorCacheFresh'
  BY <1>1, <1>3, <1>4 DEF ReplayInv, SectorCacheFresh, Writing
<1>7. CleanOnDisk'
  BY <1>1, <1>2 DEF ReplayInv, CleanOnDisk
<1>8. CASE warmup \/ WriteSkipsContent
  <2>1. UNCHANGED <<ccache, had>>
    BY <1>1, <1>8 DEF PutContent
  <2>2. ReplayTypeOK'
    BY <1>1, <1>2, <2>1 DEF ReplayInv, MetaInv, ReplayTypeOK, Stages
  <2>3. CASE warmup
    <3>1. DOMAIN ccache' = {}
      BY <2>1, <2>3 DEF ReplayInv, ReplayTypeOK
    <3> QED
      BY <1>2, <1>5, <1>6, <1>7, <2>2, <3>1 DEF ReplayInv, LeadersAgree
  <2>4. CASE WriteSkipsContent
    <3>1. ~Noting /\ ~Noting'
      BY <1>1, <2>4 DEF Noting, WriteSkipsContent
    <3>2. LeadersAgree'
      BY <1>1, <2>1, <3>1 DEF ReplayInv, LeadersAgree, metaVars
    <3> QED
      BY <1>2, <1>5, <1>6, <1>7, <2>2, <3>2 DEF ReplayInv
  <2> QED
    BY <1>8, <2>3, <2>4
<1>9. CASE ~(warmup \/ WriteSkipsContent)
  <2> USE <1>9
  <2>0. Noting' /\ ~Noting
    BY <1>1, <1>3 DEF Noting, WriteSkipsContent, ReplayInv, ReplayTypeOK
  <2>1. /\ Content!Put(k0, b0)
        /\ had' = IF k0 \in DOMAIN ccache THEN Had(ccache[k0]) ELSE NotHad
    BY <1>1 DEF PutContent
  <2>2. /\ DOMAIN ccache' \subseteq Keys
        /\ ccache' \in [DOMAIN ccache' -> Blocks]
        /\ k0 \in DOMAIN ccache'
        /\ ccache'[k0] = IF k0 \in DOMAIN ccache THEN ccache[k0] ELSE b0
        /\ \A l \in DOMAIN ccache' :
             l # k0 => l \in DOMAIN ccache /\ ccache'[l] = ccache[l]
    BY <1>3, <2>1, ContentPut DEF ReplayInv, ReplayTypeOK
  <2>3. had' = NotHad \/ \E b \in Blocks : had' = Had(b)
    BY <2>1 DEF ReplayInv, ReplayTypeOK
  <2>4. ReplayTypeOK'
    BY <1>1, <1>2, <2>2, <2>3 DEF ReplayInv, MetaInv, ReplayTypeOK, Stages
  <2>5. Leader' = ccache'[k0]
    BY <1>4, <2>1, <2>2 DEF Leader, Had, NotHad
  <2>6. ASSUME NEW k \in (DOMAIN ccache \cap DOMAIN deduptab)', k # k0
        PROVE  d2pv'[deduptab'[k]].ioblkID = ccache'[k]
    BY <1>1, <2>0, <2>2, <2>6 DEF ReplayInv, LeadersAgree, metaVars
  <2>7. LeadersAgree'
    BY <1>4, <2>0, <2>5, <2>6 DEF LeadersAgree
  <2> QED
    BY <1>2, <1>5, <1>6, <1>7, <2>4, <2>7 DEF ReplayInv
<1> QED
  BY <1>8, <1>9

\* The sector cache is filled at the end of a read and at the start of a write.
LEMMA SectorStep ==
  ASSUME ReplayInv, FillSector \/ WriteSector
  PROVE  ReplayInv'
<1>1. /\ \/ stage = "fill" /\ stage' = "idle"
         \/ stage = "cache" /\ stage' = "trim"
      /\ PutSector
      /\ UNCHANGED <<metaVars, disk, ccache, warmup, mapUponWrites, req, had>>
  BY DEF FillSector, WriteSector
<1>2. MetaInv' /\ \A y : (Clean(y)' <=> Clean(y)) /\ KeyOf(y)' = KeyOf(y)
  BY <1>1, SameMeta DEF ReplayInv
<1>3. b0 \in Blocks /\ k0 \in Keys /\ b0' = b0 /\ k0' = k0
  BY <1>1, RequestType DEF ReplayInv, b0, k0
<1>4. \/ UNCHANGED sector /\ DOMAIN sector = {}
      \/ /\ ~warmup
         /\ DOMAIN sector' \subseteq Blocks
         /\ sector' \in [DOMAIN sector' -> Keys]
         /\ sector'[b0] = k0
         /\ \A y \in DOMAIN sector' :
              y # b0 => y \in DOMAIN sector /\ sector'[y] = sector[y]
  BY <1>1, <1>3, SectorPut DEF PutSector, ReplayInv, ReplayTypeOK
<1>5. ReplayTypeOK'
  BY <1>1, <1>2, <1>4 DEF ReplayInv, MetaInv, ReplayTypeOK, Stages
<1>6. RequestOnDisk'
  BY <1>1 DEF ReplayInv, RequestOnDisk, Fetching, Storing
<1>7. SectorCacheFresh'
  <2> SUFFICES ASSUME NEW y \in DOMAIN sector'
               PROVE  IF Writing(y)' THEN sector'[y] = k0
                      ELSE y \in DOMAIN disk /\ sector'[y] = disk[y]
    BY <1>1, <1>3 DEF SectorCacheFresh
  <2>1. CASE y = b0
    <3>1. sector'[y] = k0
      BY <1>4, <2>1
    <3>2. CASE stage = "fill"
      <4>1. b0 \in DOMAIN disk /\ disk[b0] = k0 /\ req.rw = "read"
        BY <3>2 DEF ReplayInv, RequestOnDisk, Fetching
      <4> QED
        BY <2>1, <3>1, <4>1
    <3>3. CASE stage = "cache"
      <4>1. Writing(y)'
        BY <1>1, <1>3, <2>1, <3>3 DEF ReplayInv, RequestOnDisk, Writing
      <4> QED
        BY <3>1, <4>1
    <3> QED
      BY <1>1, <3>2, <3>3
  <2>2. CASE y # b0
    <3>1. y \in DOMAIN sector /\ sector'[y] = sector[y]
      BY <1>4, <2>2
    <3>2. ~Writing(y) /\ ~Writing(y)'
      BY <1>1, <1>3, <2>2 DEF Writing
    <3> QED
      BY <3>1, <3>2 DEF ReplayInv, SectorCacheFresh
  <2> QED
    BY <2>1, <2>2
<1>8. CleanOnDisk'
  BY <1>1, <1>2 DEF ReplayInv, CleanOnDisk
<1>9. LeadersAgree'
  BY <1>1 DEF ReplayInv, LeadersAgree, Noting, metaVars
<1> QED
  BY <1>2, <1>5, <1>6, <1>7, <1>8, <1>9 DEF ReplayInv

LEMMA WriteDiskStep ==
  ASSUME ReplayInv, WriteDisk
  PROVE  ReplayInv'
<1>1. /\ stage = "store" /\ stage' = IF mapUponWrites THEN "update" ELSE "idle"
      /\ disk' = With(disk, b0, k0)
      /\ UNCHANGED <<metaVars, sector, ccache, warmup, mapUponWrites, req, had>>
  BY DEF WriteDisk, cacheVars
<1>2. MetaInv' /\ \A y : (Clean(y)' <=> Clean(y)) /\ KeyOf(y)' = KeyOf(y)
  BY <1>1, SameMeta DEF ReplayInv
<1>3. b0 \in Blocks /\ k0 \in Keys /\ b0' = b0 /\ k0' = k0 /\ req.rw = "write"
  BY <1>1, RequestType DEF ReplayInv, b0, k0, RequestOnDisk
<1>4. /\ DOMAIN disk' = DOMAIN disk \cup {b0}
      /\ disk'[b0] = k0
      /\ \A y \in DOMAIN disk : y # b0 => disk'[y] = disk[y]
      /\ disk' \in [DOMAIN disk' -> Keys]
  BY <1>1, <1>3 DEF With, ReplayInv, ReplayTypeOK
<1>5. ReplayTypeOK'
  BY <1>1, <1>2, <1>3, <1>4 DEF ReplayInv, MetaInv, ReplayTypeOK, Stages
<1>6. RequestOnDisk'
  BY <1>1, <1>3, <1>4 DEF ReplayInv, RequestOnDisk, Fetching, Storing
<1>7. SectorCacheFresh'
  BY <1>1, <1>3, <1>4 DEF ReplayInv, SectorCacheFresh, Writing
<1>8. CleanOnDisk'
  <2>1. ~Clean(b0)
    BY <1>1 DEF ReplayInv, RequestOnDisk, Storing
  <2> QED
    BY <1>2, <1>4, <2>1 DEF ReplayInv, CleanOnDisk
<1>9. LeadersAgree'
  BY <1>1, <1>3 DEF ReplayInv, LeadersAgree, Noting, Leader, metaVars
<1> QED
  BY <1>2, <1>5, <1>6, <1>7, <1>8, <1>9 DEF ReplayInv

LEMMA EndWarmupStep ==
  ASSUME ReplayInv, EndWarmup
  PROVE  ReplayInv'
<1>1. /\ stage = "idle" /\ warmup' = FALSE
      /\ UNCHANGED <<metaVars, disk, sector, ccache, mapUponWrites, stage, req, had>>
  BY DEF EndWarmup, cacheVars, requestVars
<1>2. MetaInv' /\ \A y : (Clean(y)' <=> Clean(y)) /\ KeyOf(y)' = KeyOf(y)
  BY <1>1, SameMeta DEF ReplayInv
<1>3. ReplayTypeOK'
  BY <1>1, <1>2 DEF ReplayInv, MetaInv, ReplayTypeOK, Stages
<1>4. RequestOnDisk' /\ SectorCacheFresh'
  BY <1>1 DEF ReplayInv, RequestOnDisk, Fetching, Storing, SectorCacheFresh, Writing
<1>5. CleanOnDisk'
  BY <1>1, <1>2 DEF ReplayInv, CleanOnDisk
<1>6. LeadersAgree'
  BY <1>1 DEF ReplayInv, LeadersAgree, Noting, metaVars
<1> QED
  BY <1>2, <1>3, <1>4, <1>5, <1>6 DEF ReplayInv

-----------------------------------------------------------------------------
\* The two steps that change the metadata.  Elements keep the leader they
\* have, but for the one that is updated.
LEMMA TrimLeaders ==
  ASSUME MetaInv, NEW b \in Blocks, Trim(b)
  PROVE  /\ DOMAIN deduptab' \subseteq DOMAIN deduptab
         /\ \A k \in DOMAIN deduptab' :
              /\ deduptab'[k] = deduptab[k]
              /\ d2pv'[deduptab[k]].ioblkID = d2pv[deduptab[k]].ioblkID
<1>1. CASE UNCHANGED <<d2pv, deduptab>>
  BY <1>1
<1>2. CASE TrimClean(b)
  <2> DEFINE i == p2d[b].iodedupID
  <2>1. RecycleIodedupID(i, b)
    BY <1>2 DEF TrimClean
  <2>2. d2pv \in [Ids -> [dhashkey : Keys, d2pmaps : SUBSET Blocks, ioblkID : Blocks]]
    BY DEF MetaInv, MetaTypeOK
  <2>3. \A k \in DOMAIN deduptab : deduptab[k] \in Ids /\ d2pv[deduptab[k]].dhashkey = k
    BY DEF MetaInv, TableAgrees
  <2> HIDE DEF i
  <2>4. CASE d2pv[i].d2pmaps = {b}
    <3>1. /\ d2pv' = [j \in Ids \ {i} |-> d2pv[j]]
          /\ deduptab' = [k \in DOMAIN deduptab \ {d2pv[i].dhashkey} |-> deduptab[k]]
      BY <2>1, <2>4 DEF RecycleIodedupID, Only, Ids
    <3> QED
      BY <2>3, <3>1
  <2>5. CASE d2pv[i].d2pmaps # {b}
    <3>1. d2pv' = [d2pv EXCEPT ![i].d2pmaps = @ \ {b}] /\ deduptab' = deduptab
      BY <2>1, <2>5 DEF RecycleIodedupID
    <3> QED
      BY <2>2, <2>3, <3>1 DEF Ids
  <2> QED
    BY <2>4, <2>5
<1> QED
  BY <1>1, <1>2 DEF Trim, TrimUnmapped, TrimDirty, metaVars

LEMMA UpdateLeaders ==
  ASSUME MetaInv, NEW b \in Blocks, NEW k \in Keys, NEW leader \in Blocks,
         Resumed(b, k, leader)
  PROVE  /\ DOMAIN deduptab' = DOMAIN deduptab \cup {k}
         /\ d2pv'[deduptab'[k]].ioblkID = leader
         /\ \A l \in DOMAIN deduptab : l # k =>
              /\ deduptab'[l] = deduptab[l]
              /\ d2pv'[deduptab[l]].ioblkID = d2pv[deduptab[l]].ioblkID
<1>1. d2pv \in [Ids -> [dhashkey : Keys, d2pmaps : SUBSET Blocks, ioblkID : Blocks]]
  BY DEF MetaInv, MetaTypeOK
<1>2. \A l \in DOMAIN deduptab : deduptab[l] \in Ids /\ d2pv[deduptab[l]].dhashkey = l
  BY DEF MetaInv, TableAgrees
<1>3. CASE Confirmed(b, k, leader)
  <2>1. k \in DOMAIN deduptab
    BY <1>3 DEF Confirmed, MetaInv, BlocksAndElementsAgree, TableAgrees, KeyOf, ElementOf
  <2>2. deduptab' = deduptab /\ d2pv' = [d2pv EXCEPT ![deduptab[k]].ioblkID = leader]
    BY <1>3 DEF Confirmed
  <2>3. d2pv'[deduptab[k]].ioblkID = leader
    BY <1>1, <1>2, <2>1, <2>2 DEF Ids
  <2>4. \A j \in Ids : j # deduptab[k] => d2pv'[j] = d2pv[j]
    BY <1>1, <2>2 DEF Ids
  <2>5. \A l \in DOMAIN deduptab : l # k => deduptab[l] \in Ids /\ deduptab[l] # deduptab[k]
    BY <1>2, <2>1
  <2> QED
    BY <2>1, <2>2, <2>3, <2>4, <2>5
<1>4. CASE Joined(b, k, leader)
  <2>1. /\ k \in DOMAIN deduptab /\ deduptab' = deduptab
        /\ d2pv' = [d2pv EXCEPT ![deduptab[k]].d2pmaps = @ \cup {b},
                               ![deduptab[k]].ioblkID = leader]
    BY <1>4 DEF Joined, JoinElement
  <2>2. d2pv'[deduptab[k]].ioblkID = leader
    BY <1>1, <1>2, <2>1 DEF Ids
  <2>3. \A j \in Ids : j # deduptab[k] => d2pv'[j] = d2pv[j]
    BY <1>1, <2>1 DEF Ids
  <2>4. \A l \in DOMAIN deduptab : l # k => deduptab[l] \in Ids /\ deduptab[l] # deduptab[k]
    BY <1>2, <2>1
  <2> QED
    BY <2>1, <2>2, <2>3, <2>4
<1>5. CASE Added(b, k, leader)
  <2> DEFINE i == NextDedupNum
             e == [dhashkey |-> k, d2pmaps |-> {b}, ioblkID |-> leader]
  <2>1. i \notin Ids
    BY NextIsFresh
  <2>2. d2pv' = With(d2pv, i, e) /\ deduptab' = With(deduptab, k, i)
    BY <1>5 DEF Added, NewElement
  <2> HIDE DEF i
  <2>3. DOMAIN deduptab' = DOMAIN deduptab \cup {k} /\ deduptab'[k] = i /\ d2pv'[i] = e
    BY <2>2 DEF With
  <2>4. \A l \in DOMAIN deduptab : l # k => deduptab'[l] = deduptab[l]
    BY <2>2 DEF With
  <2>5. \A j \in Ids : d2pv'[j] = d2pv[j]
    BY <2>1, <2>2 DEF With, Ids
  <2> QED
    BY <1>2, <2>3, <2>4, <2>5
<1> QED
  BY <1>3, <1>4, <1>5 DEF Resumed

LEMMA FreshAsMap ==
  CleanOnDisk <=>
    \A b \in Blocks \cap DOMAIN KeyMap : b \in DOMAIN disk /\ KeyMap[b] = disk[b]
<1>1. \A b \in Blocks : Clean(b) <=> b \in DOMAIN KeyMap
  BY DEF KeyMap, CleanBlocks, Clean, Mapped
<1>2. \A b \in DOMAIN KeyMap : KeyMap[b] = KeyOf(b)
  BY DEF KeyMap
<1> QED
  BY <1>1, <1>2 DEF CleanOnDisk

LEMMA TrimMapStep ==
  ASSUME ReplayInv, TrimMap
  PROVE  ReplayInv'
<1>1. /\ stage = "trim" /\ stage' = "content" /\ Trim(b0)
      /\ UNCHANGED <<disk, sector, ccache, warmup, mapUponWrites, req, had>>
  BY DEF TrimMap, cacheVars
<1>2. b0 \in Blocks /\ k0 \in Keys /\ b0' = b0 /\ k0' = k0 /\ req.rw = "write"
  BY <1>1, RequestType DEF ReplayInv, b0, k0, RequestOnDisk
<1>3. MetaInv'
  <2>1. MetaNext
    BY <1>1, <1>2 DEF MetaNext
  <2> QED
    BY <2>1, MetaStep DEF ReplayInv
<1>4. KeyMap' = [y \in DOMAIN KeyMap \ {b0} |-> KeyMap[y]]
  BY <1>1, <1>2, TrimmedKeys DEF ReplayInv, BlockKeys!Invalidate, KeyMap, CleanBlocks
<1>5. ReplayTypeOK'
  BY <1>1, <1>3 DEF ReplayInv, MetaInv, ReplayTypeOK, Stages
<1>6. RequestOnDisk'
  <2>1. ~Clean(b0)'
    <3>1. b0 \notin DOMAIN KeyMap'
      BY <1>4
    <3> QED
      BY <1>2, <3>1 DEF KeyMap, CleanBlocks, Clean, Mapped
  <2> QED
    BY <1>1, <1>2, <2>1 DEF RequestOnDisk, Fetching, Storing, b0, k0
<1>7. SectorCacheFresh'
  BY <1>1, <1>2 DEF ReplayInv, SectorCacheFresh, Writing
<1>8. CleanOnDisk'
  <2>1. \A b \in Blocks \cap DOMAIN KeyMap' : b \in DOMAIN disk' /\ KeyMap'[b] = disk'[b]
    BY <1>1, <1>4, FreshAsMap DEF ReplayInv
  <2>2. (\A b \in Blocks \cap DOMAIN KeyMap : b \in DOMAIN disk /\ KeyMap[b] = disk[b])'
          => CleanOnDisk'
    BY FreshAsMap, PTL
  <2> QED
    BY <2>1, <2>2
<1>9. LeadersAgree'
  BY <1>1, <1>2, TrimLeaders DEF ReplayInv, LeadersAgree, Noting
<1> QED
  BY <1>3, <1>5, <1>6, <1>7, <1>8, <1>9 DEF ReplayInv

LEMMA UpdateMapStep ==
  ASSUME ReplayInv, Noted, UpdateMap
  PROVE  ReplayInv'
<1>1. /\ stage = "update" /\ ResumeDeduping(b0, k0, Leader, CmapHitID(b0))
      /\ stage' = IF req.rw = "read" THEN "fill" ELSE "idle"
      /\ UNCHANGED <<disk, sector, ccache, warmup, mapUponWrites, req, had>>
  BY DEF UpdateMap, Noted, cacheVars
<1>2. b0 \in Blocks /\ k0 \in Keys /\ b0' = b0 /\ k0' = k0
  BY <1>1, RequestType DEF ReplayInv, b0, k0
<1>3. Leader \in Blocks
  BY <1>2 DEF ReplayInv, ReplayTypeOK, Leader, Had, NotHad
<1>4. b0 \in DOMAIN disk /\ disk[b0] = k0
  BY <1>1 DEF ReplayInv, RequestOnDisk, Fetching
<1>5. MetaInv'
  <2>1. MetaNext
    BY <1>1, <1>2, <1>3 DEF MetaNext
  <2> QED
    BY <2>1, MetaStep DEF ReplayInv
<1>12. Resumed(b0, k0, Leader)
  BY <1>1, <1>2, <1>3, AsNoted DEF ReplayInv
<1>6. \/ KeyMap' = [y \in DOMAIN KeyMap \cup {b0} |-> IF y = b0 THEN k0 ELSE KeyMap[y]]
      \/ KeyMap' = KeyMap
  BY <1>2, <1>3, <1>12, UpdatedKeys
     DEF ReplayInv, BlockKeys!Learn, BlockKeys!Confirm, KeyMap, CleanBlocks
<1>7. ReplayTypeOK'
  BY <1>1, <1>5 DEF ReplayInv, MetaInv, ReplayTypeOK, Stages
<1>8. RequestOnDisk'
  BY <1>1, <1>2, <1>4 DEF RequestOnDisk, Fetching, Storing
<1>9. SectorCacheFresh'
  BY <1>1, <1>2 DEF ReplayInv, SectorCacheFresh, Writing
<1>10. CleanOnDisk'
  <2>1. \A b \in Blocks \cap DOMAIN KeyMap' : b \in DOMAIN disk' /\ KeyMap'[b] = disk'[b]
    BY <1>1, <1>4, <1>6, FreshAsMap DEF ReplayInv
  <2>2. (\A b \in Blocks \cap DOMAIN KeyMap : b \in DOMAIN disk /\ KeyMap[b] = disk[b])'
          => CleanOnDisk'
    BY FreshAsMap, PTL
  <2> QED
    BY <2>1, <2>2
<1>11. LeadersAgree'
  <2>1. /\ DOMAIN deduptab' = DOMAIN deduptab \cup {k0}
        /\ d2pv'[deduptab'[k0]].ioblkID = Leader
        /\ \A l \in DOMAIN deduptab : l # k0 =>
             /\ deduptab'[l] = deduptab[l]
             /\ d2pv'[deduptab[l]].ioblkID = d2pv[deduptab[l]].ioblkID
    BY <1>2, <1>3, <1>12, UpdateLeaders DEF ReplayInv
  <2>2. Noting /\ ~Noting'
    BY <1>1 DEF Noting
  <2>3. k0 \in DOMAIN ccache => Leader = ccache[k0]
    BY <2>2 DEF ReplayInv, LeadersAgree
  <2>4. \A l \in DOMAIN ccache \cap DOMAIN deduptab :
          l # k0 => d2pv[deduptab[l]].ioblkID = ccache[l]
    BY DEF ReplayInv, LeadersAgree
  <2> QED
    BY <1>1, <2>1, <2>2, <2>3, <2>4 DEF LeadersAgree
<1> QED
  BY <1>5, <1>7, <1>8, <1>9, <1>10, <1>11 DEF ReplayInv


\* What was noted stands until it is used.
LEMMA NotedStep ==
  ASSUME ReplayInv, ReplayInv', Noted, [ReplayNext]_replayVars
  PROVE  Noted'
<1>1. ASSUME stage' \in {"find", "cache"}, req'.cmaphit = NoHit PROVE Noted'
  BY <1>1 DEF Noted
<1>2. ASSUME stage' \in {"idle", "fill"} PROVE Noted'
  BY <1>2 DEF Noted
<1>3. ASSUME stage \in {"find", "lookup", "cache", "trim"}, req' = req,
             stage' \in {"lookup", "trim"}
      PROVE  Noted'
  BY <1>3 DEF Noted
<1>4. ASSUME stage \in {"content", "store", "update"}, req' = req, p2d' = p2d,
             stage' \in {"store", "update"}
      PROVE  Noted'
  BY <1>4 DEF Noted, b0, CmapHitID, Clean, Mapped
<1>5. CASE UNCHANGED replayVars
  BY <1>5 DEF Noted, b0, CmapHitID, Clean, Mapped, replayVars, metaVars, requestVars
<1>6. ASSUME NEW b \in Blocks, NEW k \in Keys, StartRead(b, k) \/ StartWrite(b, k)
      PROVE  Noted'
  <2>1. req' = Request("read", b, k) \/ req' = Request("write", b, k)
    BY <1>6 DEF StartRead, StartWrite, TakeUp
  <2>2. stage' \in {"find", "cache"}
    BY <1>6 DEF StartRead, StartWrite
  <2>3. req'.cmaphit = NoHit
    BY <2>1 DEF Request
  <2> QED
    BY <1>1, <2>2, <2>3
<1>7. CASE FindInSector \/ MissInSector \/ FindContent
  BY <1>2, <1>3, <1>7 DEF FindInSector, MissInSector, FindContent
<1>8. CASE ReadDisk
  <2>1. stage = "lookup" /\ stage' = "content" /\ NoteHit /\ p2d' = p2d
    BY <1>8 DEF ReadDisk, metaVars
  <2>2. req.cmaphit = NoHit
    BY <2>1 DEF Noted
  <2>3. req \in [rw : {"read", "write"}, ioblk : Blocks, content : Keys, cmaphit : Nat]
    BY <2>1 DEF ReplayInv, ReplayTypeOK
  <2>4. req'.cmaphit = CmapHitID(b0) /\ b0' = b0
    BY <2>1, <2>2, <2>3 DEF NoteHit, CmapHitID, b0
  <2>5. CmapHitID(b0)' = CmapHitID(b0)
    BY <2>1, <2>4 DEF CmapHitID, Clean, Mapped
  <2> QED
    BY <2>1, <2>4, <2>5 DEF Noted
<1>9. CASE UpdateContentCache \/ WriteDisk
  BY <1>2, <1>4, <1>9 DEF UpdateContentCache, WriteDisk, metaVars
<1>10. CASE TrimMap
  <2>1. stage = "trim" /\ stage' = "content" /\ req' = req
    BY <1>10 DEF TrimMap
  <2>2. req.rw = "write" /\ req.cmaphit = NoHit
    BY <2>1 DEF ReplayInv, RequestOnDisk, Noted
  <2>3. ~Clean(b0)'
    BY <2>1, <2>2 DEF ReplayInv, RequestOnDisk, Storing
  <2>4. CmapHitID(b0)' = NoHit
    BY <2>3 DEF CmapHitID
  <2> QED
    BY <2>1, <2>2, <2>4 DEF Noted
<1>11. CASE UpdateMap \/ FillSector \/ WriteSector \/ EndWarmup
  BY <1>2, <1>3, <1>11 DEF UpdateMap, FillSector, WriteSector, EndWarmup, requestVars
<1> QED
  BY <1>5, <1>6, <1>7, <1>8, <1>9, <1>10, <1>11 DEF ReplayNext, ReadStep, WriteStep, EitherStep

-----------------------------------------------------------------------------
LEMMA ReplayStep == ReplayInv /\ Noted /\ [ReplayNext]_replayVars => ReplayInv'
<1> SUFFICES ASSUME ReplayInv, Noted, [ReplayNext]_replayVars
             PROVE  ReplayInv'
  OBVIOUS
<1>1. CASE UNCHANGED replayVars
  <2>1. UNCHANGED <<metaVars, disk, sector, ccache, warmup, mapUponWrites, stage, req, had>>
    BY <1>1 DEF replayVars, cacheVars, requestVars
  <2>2. MetaInv' /\ \A y : (Clean(y)' <=> Clean(y)) /\ KeyOf(y)' = KeyOf(y)
    BY <2>1, SameMeta DEF ReplayInv
  <2>3. ReplayTypeOK'
    BY <2>1, <2>2 DEF ReplayInv, MetaInv, ReplayTypeOK
  <2>4. RequestOnDisk' /\ SectorCacheFresh' /\ CleanOnDisk'
    BY <2>1, <2>2 DEF ReplayInv, RequestOnDisk, Fetching, Storing, SectorCacheFresh,
                      Writing, CleanOnDisk, b0, k0
  <2>5. LeadersAgree'
    BY <2>1 DEF ReplayInv, LeadersAgree, Noting, Leader, b0, k0, metaVars
  <2> QED
    BY <2>2, <2>3, <2>4, <2>5 DEF ReplayInv
<1>2. ASSUME NEW b \in Blocks, NEW k \in Keys, StartRead(b, k) \/ StartWrite(b, k)
      PROVE  ReplayInv'
  BY <1>2, StartReadStep, StartWriteStep
<1>3. CASE ReadStep
  BY <1>3, ReadStepStep
<1>4. CASE WriteStep
  BY <1>4, SectorStep, TrimMapStep, WriteDiskStep DEF WriteStep
<1>5. CASE EitherStep
  BY <1>5, UpdateContentCacheStep, UpdateMapStep, SectorStep DEF EitherStep
<1>6. CASE EndWarmup
  BY <1>6, EndWarmupStep
<1> QED
  BY <1>1, <1>2, <1>3, <1>4, <1>5, <1>6 DEF ReplayNext

\* The inductive invariant of the replay.
THEOREM ReplayInvariant == ReplaySpec => [](ReplayInv /\ Noted)
<1>1. ReplayInit => Noted
  BY DEF ReplayInit, Noted
<1>2. ReplayInv /\ Noted /\ [ReplayNext]_replayVars => ReplayInv' /\ Noted'
  BY ReplayStep, NotedStep
<1> QED
  BY <1>1, <1>2, ReplayInitially, PTL DEF ReplaySpec

\* Type correctness, and that the warm-up leaves the caches empty.
THEOREM ReplayTypeTheorem == ReplaySpec => []ReplayTypeOK
<1>1. ReplayInv => ReplayTypeOK
  BY DEF ReplayInv
<1> QED
  BY <1>1, ReplayInvariant, PTL

\* The sector cache never has an outdated content.
THEOREM SectorCacheTheorem == ReplaySpec => []SectorCacheFresh
<1>1. ReplayInv => SectorCacheFresh
  BY DEF ReplayInv
<1> QED
  BY <1>1, ReplayInvariant, PTL

\* Empty in the warm-up, never outdated afterwards.
THEOREM CachesTheorem == ReplaySpec => []CachesFresh
<1>1. ReplayTypeOK /\ SectorCacheFresh => CachesFresh
  BY DEF CachesFresh
<1> QED
  BY <1>1, ReplayTypeTheorem, SectorCacheTheorem, PTL

\* A valid mapping leads to the key of what is on the disk, and the hit that a
\* lookup noted stands when the metadata is updated (ioserveio.c:537,
\* iodeduping.c:138).
THEOREM MappingTheorem == ReplaySpec => []MappingFresh
<1>1. ReplayInv /\ Noted => MappingFresh
  <2> SUFFICES ASSUME ReplayInv, Noted PROVE CleanOnDisk /\ NotedStands
    BY DEF MappingFresh
  <2>1. ASSUME stage = "update"
        PROVE  IF req.cmaphit = NoHit THEN ~Clean(b0)
               ELSE k0 \in DOMAIN deduptab /\ deduptab[k0] = req.cmaphit
    <3>1. b0 \in Blocks /\ k0 \in Keys /\ req.cmaphit = CmapHitID(b0) /\ disk[b0] = k0
      BY <2>1, RequestType DEF ReplayInv, Noted, RequestOnDisk, Fetching
    <3>2. Clean(b0) => p2d[b0].iodedupID \in Ids /\ p2d[b0].iodedupID # NoHit
      BY <3>1 DEF ReplayInv, MetaInv, MetaTypeOK, BlocksAndElementsAgree, NoHit, ZeroId
    <3>3. Clean(b0) => d2pv[p2d[b0].iodedupID].dhashkey = k0
      BY <3>1 DEF ReplayInv, CleanOnDisk, KeyOf, ElementOf
    <3>4. Clean(b0) => k0 \in DOMAIN deduptab /\ deduptab[k0] = p2d[b0].iodedupID
      BY <3>2, <3>3 DEF ReplayInv, MetaInv, TableAgrees
    <3> QED
      BY <3>1, <3>2, <3>4 DEF CmapHitID
  <2> QED
    BY <2>1 DEF ReplayInv, NotedStands
<1> QED
  BY <1>1, ReplayInvariant, PTL

\* The metadata and the content cache have the same leader for a key.
THEOREM LeadersTheorem == ReplaySpec => []LeadersAgree
<1>1. ReplayInv => LeadersAgree
  BY DEF ReplayInv
<1> QED
  BY <1>1, ReplayInvariant, PTL

\* The requests drive the metadata within their own specification, so that
\* what is proved of it holds in the replay.
THEOREM UsesMetadata == ReplaySpec => MetaSpec
<1>1. ReplayInit => MetaInit
  BY DEF ReplayInit
<1>2. ReplayInv /\ Noted /\ [ReplayNext]_replayVars => [MetaNext]_metaVars
  <2> SUFFICES ASSUME ReplayInv, Noted, [ReplayNext]_replayVars
               PROVE  [MetaNext]_metaVars
    OBVIOUS
  <2>1. CASE TrimMap
    <3>1. b0 \in Blocks /\ Trim(b0)
      BY <2>1, RequestType DEF ReplayInv, TrimMap
    <3> QED
      BY <3>1 DEF MetaNext
  <2>2. CASE UpdateMap
    <3>1. b0 \in Blocks /\ k0 \in Keys /\ ResumeDeduping(b0, k0, Leader, CmapHitID(b0))
      BY <2>2, RequestType DEF ReplayInv, Noted, UpdateMap
    <3>2. Leader \in Blocks
      BY <3>1 DEF ReplayInv, ReplayTypeOK, Leader, Had, NotHad
    <3> QED
      BY <3>1, <3>2 DEF MetaNext
  <2> QED
    BY <2>1, <2>2
       DEF ReplayNext, ReadStep, WriteStep, EitherStep, StartRead, StartWrite, TakeUp,
           FindInSector, MissInSector, FindContent, ReadDisk, UpdateContentCache,
           FillSector, WriteSector, WriteDisk, EndWarmup, replayVars
<1> QED
  BY <1>1, <1>2, ReplayInvariant, PTL DEF ReplaySpec, MetaSpec

-----------------------------------------------------------------------------
\* The refinement of BlockDevice: the steps that answer a request are reads
\* of the device, those that change the disk are discoveries and writes.
LEMMA DeviceStep ==
  ASSUME ReplayInv, [ReplayNext]_replayVars
  PROVE  [Device!DeviceNext]_<<disk, reply>>
<1>1. ASSUME NEW b \in Blocks, NEW k \in Keys, StartRead(b, k)
      PROVE  [Device!DeviceNext]_<<disk, reply>>
  <2>1. CASE b \in DOMAIN disk
    <3>1. disk' = With(disk, b, disk[b]) /\ reply' = reply
      BY <1>1, <2>1 DEF StartRead, TakeUp
    <3>2. disk' = disk
      BY <2>1, <3>1 DEF With, ReplayInv, ReplayTypeOK
    <3> QED
      BY <3>1, <3>2
  <2>2. CASE b \notin DOMAIN disk
    <3>1. Device!Discover(b, k)
      BY <1>1, <2>2 DEF StartRead, TakeUp, With, Device!Discover, Device!Hold
    <3> QED
      BY <3>1 DEF Device!DeviceNext
  <2> QED
    BY <2>1, <2>2
<1>2. CASE FindInSector
  <2>1. b0 \in Blocks /\ b0 \in DOMAIN disk /\ sector[b0] = disk[b0]
    BY <1>2, RequestType
       DEF FindInSector, ReplayInv, RequestOnDisk, Fetching, SectorCacheFresh, Writing
  <2>2. Device!Read(b0)
    BY <1>2, <2>1 DEF FindInSector, Device!Read
  <2> QED
    BY <2>1, <2>2 DEF Device!DeviceNext
<1>3. CASE FindContent
  <2>1. b0 \in Blocks /\ b0 \in DOMAIN disk /\ KeyOf(b0) = disk[b0]
    BY <1>3, RequestType DEF FindContent, ContentHit, ReplayInv, CleanOnDisk
  <2>2. Device!Read(b0)
    BY <1>3, <2>1 DEF FindContent, Device!Read
  <2> QED
    BY <2>1, <2>2 DEF Device!DeviceNext
<1>4. CASE ReadDisk
  <2>1. b0 \in Blocks /\ b0 \in DOMAIN disk /\ disk[b0] = k0
    BY <1>4, RequestType DEF ReadDisk, ReplayInv, RequestOnDisk, Fetching
  <2>2. Device!Read(b0)
    BY <1>4, <2>1 DEF ReadDisk, Device!Read
  <2> QED
    BY <2>1, <2>2 DEF Device!DeviceNext
<1>5. CASE WriteDisk
  <2>1. b0 \in Blocks /\ k0 \in Keys
    BY <1>5, RequestType DEF WriteDisk, ReplayInv
  <2>2. Device!Write(b0, k0)
    BY <1>5 DEF WriteDisk, With, Device!Write, Device!Hold
  <2> QED
    BY <2>1, <2>2 DEF Device!DeviceNext
<1> QED
  BY <1>1, <1>2, <1>3, <1>4, <1>5
     DEF ReplayNext, ReadStep, WriteStep, EitherStep, StartWrite, TakeUp, MissInSector,
         UpdateContentCache, UpdateMap, FillSector, WriteSector, TrimMap, EndWarmup,
         replayVars, requestVars

\* Whatever the caches evict and whatever the metadata deduplicate, a replay
\* answers each read with the content last written to the block.
THEOREM DeviceTheorem == ReplaySpec => ImplementsDevice
<1>1. ReplayInit => Device!DeviceInit
  BY DEF ReplayInit, Device!DeviceInit
<1>2. ReplayInv /\ [ReplayNext]_replayVars => [Device!DeviceNext]_<<disk, reply>>
  BY DeviceStep
<1> QED
  BY <1>1, <1>2, ReplayInvariant, PTL DEF ReplaySpec, ImplementsDevice, Device!DeviceSpec

-----------------------------------------------------------------------------
\* The counters.
\* The equations, whatever the stage.
Balanced ==
  /\ c("gtotalreadreq") = c("compulsory_misses") + c("bcache_hits_r")
                       + c("ccache_hits_r") + c("capacity_misses")
  /\ c("bcache_misses_r") = c("ccache_hits_r") + c("disk_hits_r")
  /\ c("disk_hits_r") = c("compulsory_misses") + c("capacity_misses")
  /\ c("gtotalwritereq") = c("disk_hits_w")
  /\ c("gtotalwritereq") = c("bcache_hits_w") + c("bcache_misses_w")
  /\ c("ccache_hits_w") + c("ccache_misses_w") =
       IF mapUponWrites THEN c("bcache_misses_w") ELSE 0
  /\ c("ccache_misses_r") + c("cmap_dirties") = c("capacity_misses")
  /\ c("compulsory_misses") + c("cmap_dirties") = c("cmap_misses")
  /\ c("capacity_misses") = c("ccache_dedup_misses") + c("ccache_nondedup_misses")
                         + c("cmap_dirties")
  /\ c("cmap_hits") = c("capacity_misses") - c("cmap_dirties") + c("ccache_hits_r")
  /\ c("cmap_hits") = c("ccache_dedup_hits") + c("ccache_nondedup_hits")
                   + c("ccache_dedup_misses") + c("ccache_nondedup_misses")
  /\ c("cmap_self_is_leader") = c("ccache_nondedup_hits") + c("ccache_nondedup_misses")
  /\ c("cmap_self_is_not_leader") = c("ccache_dedup_hits") + c("ccache_dedup_misses")

\* A read is fully counted once it is answered, a write once it is on the disk.
Answered ==
  \/ stage \in {"idle", "fill", "update"}
  \/ stage = "content" /\ req.rw = "read"

\* What is counted of a write by the time it goes to the content cache.
WriteCounted ==
  {"gtotalwritereq", IF bcachefound THEN "bcache_hits_w" ELSE "bcache_misses_w"}

\* What is counted of a request at each stage before that, after the warm-up.
CountedSoFar ==
  /\ stage = "find" => counted = {"gtotalreadreq"}
  /\ stage = "lookup" => counted = {"gtotalreadreq", "bcache_misses_r"}
  /\ stage = "cache" => counted = {"gtotalwritereq"}
  /\ stage = "trim" \/ (stage = "content" /\ req.rw = "write") =>
       counted = WriteCounted
  /\ stage = "store" =>
       IF mapUponWrites /\ ~bcachefound
       THEN \/ counted = WriteCounted \cup {"ccache_hits_w"}
            \/ counted = WriteCounted \cup {"ccache_misses_w"}
       ELSE counted = WriteCounted

StatsInv ==
  /\ bcachefound \in BOOLEAN
  /\ warmup => counted = {}
  /\ ~warmup => CountedSoFar
  /\ Answered => Balanced

-----------------------------------------------------------------------------
\* Every counted step is a step of the replay.
LEMMA StatsStepReplays == [StatsNext]_statsVars => [ReplayNext]_replayVars
BY DEF StatsNext, CountedStart, CountedSectorLookup, CountedContentHit, CountedReadDisk,
   CountedWriteSector, CountedContentUpdate, CountedWriteDisk, Uncounted, ReplayNext,
   ReadStep, WriteStep, EitherStep, statsVars

\* The counters do not disturb the replay: what is proved of it holds with them.
THEOREM StatsReplays == StatsSpec => ReplaySpec
<1>1. StatsInit => ReplayInit
  BY DEF StatsInit
<1> QED
  BY <1>1, StatsStepReplays, PTL DEF StatsSpec, ReplaySpec

LEMMA NothingBalanced == counted = {} => Balanced
BY DEF Balanced, c

LEMMA StatsInitially == StatsInit => StatsInv
BY NothingBalanced DEF StatsInit, ReplayInit, StatsInv, CountedSoFar

\* The steps of the warm-up count nothing.
LEMMA WarmupStep ==
  ASSUME StatsInv, warmup, StatsNext
  PROVE  StatsInv'
<1>1. counted = {}
  BY DEF StatsInv
<1>2. counted' = {} /\ bcachefound' \in BOOLEAN
  BY <1>1 DEF StatsInv, StatsNext, CountedStart, CountedSectorLookup, CountedContentHit,
     CountedReadDisk, CountedWriteSector, CountedContentUpdate, CountedWriteDisk, Uncounted,
     Count
<1>3. Balanced'
  BY <1>2 DEF Balanced, c
<1>4. warmup' \/ stage' = "idle"
  BY DEF StatsNext, CountedStart, CountedSectorLookup, CountedContentHit, CountedReadDisk,
     CountedWriteSector, CountedContentUpdate, CountedWriteDisk, Uncounted, StartRead,
     StartWrite, TakeUp, FindInSector, MissInSector, FindContent, ReadDisk, WriteSector,
     UpdateContentCache, WriteDisk, TrimMap, UpdateMap, FillSector, EndWarmup, modeVars,
     requestVars
<1> QED
  BY <1>2, <1>3, <1>4 DEF StatsInv, CountedSoFar

-----------------------------------------------------------------------------
\* Where a read finds its content, the leader that the metadata have for it is
\* the one the content cache has.
LEMMA OneLeaderOnHit ==
  ASSUME ReplayInv, FindContent
  PROVE  ElementOf(b0).ioblkID = ccache[KeyOf(b0)]
<1>1. b0 \in Blocks /\ Clean(b0) /\ KeyOf(b0) \in DOMAIN ccache /\ ~Noting
  BY RequestType DEF ReplayInv, FindContent, ContentHit, Noting
<1>2. p2d[b0].iodedupID \in DOMAIN d2pv
  BY <1>1 DEF ReplayInv, MetaInv, BlocksAndElementsAgree, Ids
<1>3. KeyOf(b0) \in DOMAIN deduptab /\ deduptab[KeyOf(b0)] = p2d[b0].iodedupID
  BY <1>2 DEF ReplayInv, MetaInv, TableAgrees, KeyOf, ElementOf, Ids
<1> QED
  BY <1>1, <1>3 DEF ReplayInv, LeadersAgree, ElementOf

\* What a request counts by the time it is answered is balanced, on each of the
\* ways it may take.
LEMMA ReadFoundBalanced ==
  counted' = {"gtotalreadreq", "bcache_hits_r"} => Balanced'
BY DEF Balanced, c

LEMMA ContentFoundBalanced ==
  ASSUME NEW S \in {{"cmap_self_is_leader", "ccache_nondedup_hits"},
                    {"cmap_self_is_not_leader", "ccache_dedup_hits"}},
         counted' = {"gtotalreadreq", "bcache_misses_r", "cmap_hits", "ccache_hits_r"} \cup S
  PROVE  Balanced'
<1>1. CASE S = {"cmap_self_is_leader", "ccache_nondedup_hits"}
  BY <1>1 DEF Balanced, c
<1>2. CASE S = {"cmap_self_is_not_leader", "ccache_dedup_hits"}
  BY <1>2 DEF Balanced, c
<1> QED
  BY <1>1, <1>2

LEMMA ReadMissBalanced ==
  ASSUME counted' = {"gtotalreadreq", "bcache_misses_r", "disk_hits_r"} \cup ReadMiss
  PROVE  Balanced'
<1>1. CASE ReadMiss = {"cmap_misses", "compulsory_misses"}
  BY <1>1 DEF Balanced, c
<1>2. CASE ReadMiss = {"cmap_misses", "cmap_dirties", "capacity_misses"}
  BY <1>2 DEF Balanced, c
<1>3. CASE ReadMiss = {"cmap_hits", "ccache_misses_r", "capacity_misses",
                       "cmap_self_is_leader", "ccache_nondedup_misses"}
  BY <1>3 DEF Balanced, c
<1>4. CASE ReadMiss = {"cmap_hits", "ccache_misses_r", "capacity_misses",
                       "cmap_self_is_not_leader", "ccache_dedup_misses"}
  BY <1>4 DEF Balanced, c
<1> QED
  BY <1>1, <1>2, <1>3, <1>4 DEF ReadMiss, MapLeader

LEMMA WriteBalanced ==
  ASSUME bcachefound' \in BOOLEAN,
         NEW S \in {{"ccache_hits_w"}, {"ccache_misses_w"}},
         counted' = WriteCounted' \cup {"disk_hits_w"}
                   \cup (IF mapUponWrites' /\ ~bcachefound' THEN S ELSE {})
  PROVE  Balanced'
<1>1. CASE ~mapUponWrites' /\ bcachefound'
  BY <1>1 DEF Balanced, c, WriteCounted
<1>2. CASE ~mapUponWrites' /\ ~bcachefound'
  BY <1>2 DEF Balanced, c, WriteCounted
<1>3. CASE mapUponWrites' /\ bcachefound'
  BY <1>3 DEF Balanced, c, WriteCounted
<1>4. CASE mapUponWrites' /\ ~bcachefound'
  BY <1>4 DEF Balanced, c, WriteCounted
<1> QED
  BY <1>1, <1>2, <1>3, <1>4

-----------------------------------------------------------------------------
\* After the warm-up.
LEMMA CountingStep ==
  ASSUME ReplayInv, StatsInv, ~warmup, StatsNext
  PROVE  StatsInv'
<1> SUFFICES CountedSoFar' /\ (Answered' => Balanced')
  <2>1. ~warmup'
    <3>1. warmup' = warmup \/ ~warmup'
      BY DEF StatsNext, CountedStart, CountedSectorLookup, CountedContentHit, TakeUp,
         CountedReadDisk, CountedWriteSector, CountedContentUpdate, CountedWriteDisk,
         Uncounted, StartRead, StartWrite, FindInSector, MissInSector, FindContent, ReadDisk,
         WriteSector, UpdateContentCache, WriteDisk, TrimMap, UpdateMap, FillSector,
         EndWarmup, modeVars
    <3> QED
      BY <3>1
  <2>2. bcachefound' \in BOOLEAN
    BY DEF StatsInv, StatsNext, CountedStart, CountedSectorLookup, CountedContentHit,
       CountedReadDisk, CountedWriteSector, CountedContentUpdate, CountedWriteDisk, Uncounted
  <2> QED
    BY <2>1, <2>2 DEF StatsInv
<1>0. stage # "idle" => req.rw \in {"read", "write"}
  BY RequestType DEF ReplayInv
<1>1. ASSUME NEW b \in Blocks, NEW k \in Keys, CountedStart(b, k)
      PROVE  CountedSoFar' /\ (Answered' => Balanced')
  <2>1. CASE StartRead(b, k)
    BY <1>1, <2>1 DEF CountedStart, StartRead, StartWrite, CountedSoFar, Answered
  <2>2. CASE StartWrite(b, k)
    BY <1>1, <2>2 DEF CountedStart, StartRead, StartWrite, CountedSoFar, Answered
  <2> QED
    BY <1>1, <2>1, <2>2 DEF CountedStart
<1>2. CASE CountedSectorLookup
  <2>1. CASE FindInSector
    <3>1. counted' = {"gtotalreadreq", "bcache_hits_r"} /\ stage' = "idle"
      BY <1>2, <2>1 DEF CountedSectorLookup, FindInSector, MissInSector, StatsInv,
         CountedSoFar, Count
    <3>2. Balanced'
      BY <3>1, ReadFoundBalanced
    <3> QED
      BY <1>2, <2>1, <3>1, <3>2
      DEF CountedSectorLookup, FindInSector, StatsInv, CountedSoFar, modeVars
  <2>2. CASE MissInSector
    BY <1>2, <2>2 DEF CountedSectorLookup, FindInSector, MissInSector, StatsInv,
       CountedSoFar, Answered, Count, modeVars
  <2> QED
    BY <1>2, <2>1, <2>2 DEF CountedSectorLookup
<1>3. CASE CountedContentHit
  <2>1. PICK S \in {{"cmap_self_is_leader", "ccache_nondedup_hits"},
                    {"cmap_self_is_not_leader", "ccache_dedup_hits"}} :
          counted' = {"gtotalreadreq", "bcache_misses_r", "cmap_hits", "ccache_hits_r"} \cup S
    <3>1. ElementOf(b0).ioblkID = ccache[KeyOf(b0)]
      BY <1>3, OneLeaderOnHit DEF CountedContentHit
    <3>2. counted = {"gtotalreadreq", "bcache_misses_r"}
      BY <1>3 DEF CountedContentHit, FindContent, StatsInv, CountedSoFar
    <3>3. CASE ccache[KeyOf(b0)] = b0
      BY <1>3, <3>1, <3>2, <3>3 DEF CountedContentHit, Count, MapLeader
    <3>4. CASE ccache[KeyOf(b0)] # b0
      BY <1>3, <3>1, <3>2, <3>4 DEF CountedContentHit, Count, MapLeader
    <3> QED
      BY <3>3, <3>4
  <2>2. Balanced'
    BY <2>1, ContentFoundBalanced
  <2> QED
    BY <1>3, <2>2 DEF CountedContentHit, FindContent, StatsInv, CountedSoFar, modeVars
<1>4. CASE CountedReadDisk
  <2>1. counted' = {"gtotalreadreq", "bcache_misses_r", "disk_hits_r"} \cup ReadMiss
    BY <1>4 DEF CountedReadDisk, ReadDisk, StatsInv, CountedSoFar, Count
  <2>3. Balanced'
    BY <2>1, ReadMissBalanced
  <2>4. stage' = "content" /\ req'.rw = "read"
    <3>1. stage = "lookup" /\ stage' = "content" /\ NoteHit
      BY <1>4 DEF CountedReadDisk, ReadDisk
    <3>2. req \in [rw : {"read", "write"}, ioblk : Blocks, content : Keys, cmaphit : Nat]
          /\ req.rw = "read"
      BY <3>1 DEF ReplayInv, ReplayTypeOK, RequestOnDisk
    <3> QED
      BY <3>1, <3>2 DEF NoteHit
  <2> QED
    BY <1>4, <2>3, <2>4 DEF CountedReadDisk, ReadDisk, StatsInv, CountedSoFar, modeVars
<1>5. CASE CountedWriteSector
  BY <1>5
  DEF CountedWriteSector, WriteSector, StatsInv, CountedSoFar, WriteCounted, Answered, Count,
      modeVars
<1>6. CASE CountedContentUpdate
  <2>1. CASE req.rw = "read"
    <3>1. UNCHANGED <<counted, bcachefound, warmup, mapUponWrites>> /\ stage' = "update"
      BY <1>6, <2>1, Zenon
      DEF CountedContentUpdate, UpdateContentCache, UpdateHits, Count, modeVars
    <3>2. Balanced'
      BY <1>6, <2>1, <3>1
      DEF CountedContentUpdate, UpdateContentCache, StatsInv, Answered, Balanced, c
    <3> QED
      BY <3>1, <3>2 DEF StatsInv, CountedSoFar
  <2>2. CASE req.rw = "write"
    BY <1>6, <2>2
    DEF CountedContentUpdate, UpdateContentCache, UpdateHits, StatsInv, CountedSoFar,
        WriteCounted, Answered, Count, modeVars
  <2> QED
    BY <1>0, <1>6, <2>1, <2>2 DEF CountedContentUpdate, UpdateContentCache
<1>7. CASE CountedWriteDisk
  <2>1. PICK S \in {{"ccache_hits_w"}, {"ccache_misses_w"}} :
          counted = WriteCounted \cup (IF mapUponWrites /\ ~bcachefound THEN S ELSE {})
    BY <1>7 DEF CountedWriteDisk, WriteDisk, StatsInv, CountedSoFar
  <2>2. /\ WriteCounted' = WriteCounted
        /\ bcachefound' \in BOOLEAN
        /\ UNCHANGED <<mapUponWrites, warmup, bcachefound>>
        /\ stage' \in {"update", "idle"}
    BY <1>7 DEF CountedWriteDisk, WriteDisk, StatsInv, WriteCounted, modeVars
  <2>3. counted' = WriteCounted' \cup {"disk_hits_w"}
                  \cup (IF mapUponWrites' /\ ~bcachefound' THEN S ELSE {})
    BY <1>7, <2>1, <2>2 DEF CountedWriteDisk, Count
  <2>4. Balanced'
    BY <2>2, <2>3, WriteBalanced
  <2> QED
    BY <2>2, <2>4, ~warmup DEF StatsInv, CountedSoFar
<1>8. CASE Uncounted
  <2>1. UNCHANGED <<counted, bcachefound, mapUponWrites>>
    BY <1>8 DEF Uncounted, TrimMap, UpdateMap, FillSector, EndWarmup, modeVars
  <2>2. Balanced => Balanced'
    BY <2>1 DEF Balanced, c
  <2> QED
    BY <1>8, <2>1, <2>2
    DEF Uncounted, TrimMap, UpdateMap, FillSector, EndWarmup, StatsInv, CountedSoFar,
        WriteCounted, Answered, ReplayInv, RequestOnDisk, modeVars, requestVars
<1> QED
  BY <1>1, <1>2, <1>3, <1>4, <1>5, <1>6, <1>7, <1>8 DEF StatsNext

LEMMA StatsStep == ReplayInv /\ StatsInv /\ [StatsNext]_statsVars => StatsInv'
<1> SUFFICES ASSUME ReplayInv, StatsInv, [StatsNext]_statsVars
             PROVE  StatsInv'
  OBVIOUS
<1>1. CASE StatsNext
  BY <1>1, CountingStep, WarmupStep
<1>2. CASE UNCHANGED statsVars
  BY <1>2
  DEF statsVars, replayVars, requestVars, modeVars, StatsInv, CountedSoFar, WriteCounted,
      Answered, Balanced, c
<1> QED
  BY <1>1, <1>2

LEMMA StatsInvariant == StatsSpec => []StatsInv
<1>1. StatsSpec => []ReplayInv
  BY StatsReplays, ReplayInvariant
<1> QED
  BY <1>1, StatsInitially, StatsStep, PTL DEF StatsSpec

\* The assertions of sim_replay_exit on the reads of an I/O deduplication
\* replay never fail: hits and misses of metadata, content cache, sector cache
\* and disk add up, leader by leader.
THEOREM AssertionsTheorem == StatsSpec => []AssertionsHold
<1>1. StatsInv => AssertionsHold
  BY DEF StatsInv, Answered, Balanced, AssertionsHold, AtExit, ReadsAccounted,
     MetadataAccounted, LeadersAccounted
<1> QED
  BY <1>1, StatsInvariant, PTL

\* Every write is counted once by the sector cache and reaches the disk, and
\* exactly its misses are counted by the content cache.
THEOREM WritesTheorem == StatsSpec => []WritesAccounted
<1>1. StatsInv => WritesAccounted
  BY DEF StatsInv, Answered, Balanced, AtExit, WritesAccounted
<1> QED
  BY <1>1, StatsInvariant, PTL

\* At the end of every trace the counters of reads and of writes balance.
THEOREM CountersTheorem == StatsSpec => []CountersBalance
<1>1. AssertionsHold /\ WritesAccounted => CountersBalance
  BY DEF CountersBalance
<1> QED
  BY <1>1, AssertionsTheorem, WritesTheorem, PTL
=============================================================================
