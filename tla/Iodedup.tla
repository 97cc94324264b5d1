------------------------------ MODULE Iodedup ------------------------------
(***************************************************************************)
(* The metadata of I/O deduplication: the block map (iodedup/p2d-map.c),   *)
(* the dedup map with its list of blocks per dedup element                 *)
(* (iodedup/d2pv-map.c), the hash table that finds an element by its key   *)
(* (iodedup/deduptab.c), and the recycling of dedup identifiers            *)
(* (iodedup/ioserveio.c).  Maps are built while replaying (runtimemap);    *)
(* keys stand for contents, so a hash collision does not occur.            *)
(*                                                                         *)
(* A block is unmapped, mapped and clean, or mapped and dirty.  A dirty    *)
(* block keeps the identifier it had, which by then may name another       *)
(* element, or none.                                                       *)
(***************************************************************************)
EXTENDS Integers, SequencesExt

CONSTANTS
  Blocks,    \* I/O block numbers (ioblkID)
  Keys       \* content hashes (dhashkey)

\* A block number is a __u32.
ASSUME MetaAssumption == IsFiniteSet(Blocks)

ZeroId == 0       \* the identifier of zero blocks
DummyId == 1      \* DUMMY_ID, of a block written before it was ever mapped

\* Faulty variant: the counter starts among the reserved identifiers.
FirstNumZero == 0

FirstNum == 2     \* the initial dedupNum

VARIABLES
  p2d,        \* the entries of p2dmaps: identifier and pdirty of a block
  d2pv,       \* dedupmap_by_did: key, d2pmaps and ioblkID of an element
  deduptab,   \* the identifier of the element of each key in the table
  reusable,   \* currReusableDedupIDUList
  dedupNum    \* the last identifier that was new

metaVars == <<p2d, d2pv, deduptab, reusable, dedupNum>>

Only(f, S) == [x \in S |-> f[x]]
With(f, x, v) == [y \in DOMAIN f \cup {x} |-> IF y = x THEN v ELSE f[y]]

Mapped(b) == b \in DOMAIN p2d
Clean(b) == Mapped(b) /\ ~p2d[b].pdirty
Dirty(b) == Mapped(b) /\ p2d[b].pdirty

\* The element and the key that a clean block resolves to.
ElementOf(b) == d2pv[p2d[b].iodedupID]
KeyOf(b) == ElementOf(b).dhashkey

-----------------------------------------------------------------------------
MetaInit ==
  /\ p2d = [b \in {} |-> b]
  /\ d2pv = [i \in {} |-> i]
  /\ deduptab = [k \in {} |-> k]
  /\ reusable = <<>>
  /\ dedupNum = FirstNum

\* Faulty variant: the element of a last block stays in the hash table.
RecycleKeepingKey(i, b) ==
  IF d2pv[i].d2pmaps = {b}
  THEN /\ d2pv' = Only(d2pv, DOMAIN d2pv \ {i})
       /\ reusable' = Append(reusable, i)
       /\ UNCHANGED deduptab
  ELSE /\ d2pv' = [d2pv EXCEPT ![i].d2pmaps = @ \ {b}]
       /\ UNCHANGED <<deduptab, reusable>>

\* Faulty variant: an identifier is recycled on every trim of its blocks.
RecycleEarly(i, b) ==
  /\ IF d2pv[i].d2pmaps = {b}
     THEN /\ d2pv' = Only(d2pv, DOMAIN d2pv \ {i})
          /\ deduptab' = Only(deduptab, DOMAIN deduptab \ {d2pv[i].dhashkey})
     ELSE /\ d2pv' = [d2pv EXCEPT ![i].d2pmaps = @ \ {b}]
          /\ UNCHANGED deduptab
  /\ reusable' = Append(reusable, i)

\* recycleiodedupID, then add_new_to_old_recyclelistIO: b leaves element i;
\* with its last block the element leaves both tables and its identifier is
\* appended to the list of reusable ones.
RecycleIodedupID(i, b) ==
  IF d2pv[i].d2pmaps = {b}
  THEN /\ d2pv' = Only(d2pv, DOMAIN d2pv \ {i})
       /\ deduptab' = Only(deduptab, DOMAIN deduptab \ {d2pv[i].dhashkey})
       /\ reusable' = Append(reusable, i)
  ELSE /\ d2pv' = [d2pv EXCEPT ![i].d2pmaps = @ \ {b}]
       /\ UNCHANGED <<deduptab, reusable>>

\* mappingTrimScanIO: the block is about to be written.
TrimUnmapped(b) ==
  /\ ~Mapped(b)
  /\ p2d' = With(p2d, b, [iodedupID |-> DummyId, pdirty |-> TRUE])
  /\ UNCHANGED <<d2pv, deduptab, reusable, dedupNum>>

TrimDirty(b) ==
  /\ Dirty(b)
  /\ UNCHANGED metaVars

TrimClean(b) ==
  /\ Clean(b)
  /\ p2d' = [p2d EXCEPT ![b].pdirty = TRUE]
  /\ RecycleIodedupID(p2d[b].iodedupID, b)
  /\ UNCHANGED dedupNum

Trim(b) == TrimUnmapped(b) \/ TrimDirty(b) \/ TrimClean(b)

\* updateBlockio: the block maps to element i from now on.
UpdateBlockio(b, i) ==
  p2d' = With(p2d, b, [iodedupID |-> i, pdirty |-> FALSE])

\* getNextDedupNum: the identifier of a new element, and what is left.
NextDedupNum == IF reusable = <<>> THEN dedupNum + 1 ELSE Head(reusable)

\* Faulty variant: the counter advances also when an identifier is reused.
AdvanceAlways ==
  /\ reusable' = (IF reusable = <<>> THEN <<>> ELSE Tail(reusable))
  /\ dedupNum' = dedupNum + 1

\* Faulty variant: a reused identifier stays on the list.
KeepReusable ==
  IF reusable = <<>>
  THEN dedupNum' = dedupNum + 1 /\ UNCHANGED reusable
  ELSE UNCHANGED <<reusable, dedupNum>>

GetNextDedupNum ==
  IF reusable = <<>>
  THEN dedupNum' = dedupNum + 1 /\ UNCHANGED reusable
  ELSE reusable' = Tail(reusable) /\ UNCHANGED dedupNum

\* What the lookup of a block notes in cmaphit_iodedupID, with cmaphit_flag
\* set: the identifier that a clean mapping leads to.
NoHit == 0
CmapHitID(b) == IF Clean(b) THEN p2d[b].iodedupID ELSE NoHit

\* resumeDeduping records that b holds the content of key k; "leader" is the
\* block number that the content cache keeps for k, and "hit" what was noted
\* by the lookup.

\* The mapping was hit before the disk was read: the key is that element's, or
\* the program stops ("inconsistence why?"), and only the leader is noted.
ConfirmMapping(hit, k, leader) ==
  /\ hit \in DOMAIN d2pv
  /\ k \in DOMAIN deduptab /\ deduptab[k] = hit
  /\ d2pv' = [d2pv EXCEPT ![hit].ioblkID = leader]
  /\ UNCHANGED <<p2d, deduptab, reusable, dedupNum>>

JoinElement(b, k, leader) ==
  /\ k \in DOMAIN deduptab
  /\ d2pv' = [d2pv EXCEPT ![deduptab[k]].d2pmaps = @ \cup {b},
                          ![deduptab[k]].ioblkID = leader]
  /\ UpdateBlockio(b, deduptab[k])
  /\ UNCHANGED <<deduptab, reusable, dedupNum>>

NewElement(b, k, leader) ==
  /\ k \notin DOMAIN deduptab
  /\ d2pv' = With(d2pv, NextDedupNum,
                  [dhashkey |-> k, d2pmaps |-> {b}, ioblkID |-> leader])
  /\ deduptab' = With(deduptab, k, NextDedupNum)
  /\ UpdateBlockio(b, NextDedupNum)
  /\ GetNextDedupNum

ResumeDeduping(b, k, leader, hit) ==
  \/ hit # NoHit /\ ConfirmMapping(hit, k, leader)
  \/ hit = NoHit /\ JoinElement(b, k, leader)
  \/ hit = NoHit /\ NewElement(b, k, leader)

MetaNext ==
  \E b \in Blocks :
    \/ Trim(b)
    \/ \E k \in Keys, leader \in Blocks : ResumeDeduping(b, k, leader, CmapHitID(b))

MetaSpec == MetaInit /\ [][MetaNext]_metaVars

-----------------------------------------------------------------------------
Ids == DOMAIN d2pv

\* The type invariant.
MetaTypeOK ==
  /\ dedupNum \in Nat
  /\ DOMAIN p2d \subseteq Blocks
  /\ p2d \in [DOMAIN p2d -> [iodedupID : Nat, pdirty : BOOLEAN]]
  /\ Ids \subseteq Nat \ {ZeroId, DummyId}
  /\ d2pv \in [Ids -> [dhashkey : Keys, d2pmaps : SUBSET Blocks, ioblkID : Blocks]]
  /\ DOMAIN deduptab \subseteq Keys
  /\ deduptab \in [DOMAIN deduptab -> Nat]
  /\ reusable \in Seq(Nat)

\* A clean block and the element it names know each other: the element
\* exists (iodedupReadRequest fails on it otherwise, "d2pv unexpectedly
\* NULL") and lists the block, and an element lists its own clean blocks only.
BlocksAndElementsAgree ==
  /\ \A b \in Blocks :
       Clean(b) => p2d[b].iodedupID \in Ids /\ b \in ElementOf(b).d2pmaps
  /\ \A i \in Ids :
       \A b \in d2pv[i].d2pmaps : Clean(b) /\ p2d[b].iodedupID = i

\* The hash table finds every element by its key, and nothing else: two
\* elements never have one key, so equal contents are always deduplicated.
TableAgrees ==
  /\ \A i \in Ids : /\ d2pv[i].dhashkey \in DOMAIN deduptab
                    /\ deduptab[d2pv[i].dhashkey] = i
  /\ \A k \in DOMAIN deduptab : /\ deduptab[k] \in Ids
                                /\ d2pv[deduptab[k]].dhashkey = k

\* An element lives for as long as some block holds its content.
NoEmptyElement == \A i \in Ids : d2pv[i].d2pmaps # {}

\* With the last block of an element its tuple, its map slot and its entry in
\* the hash table go together: what the next equal content is found by is
\* always an element that some block still holds.
ElementsReachable == TableAgrees /\ NoEmptyElement

\* The three maps together: from a block to its element, from the element to
\* its blocks, and from a content to its element (iodeduping.c, d2pv-map.c).
MetadataAgrees == BlocksAndElementsAgree /\ ElementsReachable

\* Every identifier handed out so far is either in use or reusable, once: an
\* identifier is neither lost nor given to two elements.
IdsAccountedFor ==
  /\ FirstNum <= dedupNum
  /\ Ids \cup ToSet(reusable) = (FirstNum + 1)..dedupNum
  /\ Ids \cap ToSet(reusable) = {}
  /\ IsInjective(reusable)

\* The counter that the FIXME of d2pv-map.c:170 fears would roll over grows
\* with the number of blocks alone, however long the replay.
DedupNumBounded == dedupNum <= FirstNum + Cardinality(Blocks)

\* The metadata implements the map from blocks to keys.
BlockKeys == INSTANCE ContentMap WITH
  keyOf <- [b \in {old \in DOMAIN p2d : Clean(old)} |-> KeyOf(b)]
ImplementsContentMap == BlockKeys!MapSpec
=============================================================================
