------------------------------ MODULE Confided ------------------------------
(***************************************************************************)
(* The metadata of CONFIDED: the block map (confided/v2f-map.c), the map   *)
(* of fixed-size contents with the list of blocks that hold each           *)
(* (confided/f2pv-map.c), the hash table that finds an element by its key  *)
(* (confided/fixedtab.c), the marking of one block of each element as the  *)
(* one to fetch, and the recycling of identifiers (confided/fserveio.c).   *)
(* Maps are built while replaying (runtimemap), all volumes share them     *)
(* (intraonlyflag is 0), and keys stand for contents.                      *)
(*                                                                         *)
(* Unlike I/O deduplication, which only notes a leader, CONFIDED sends     *)
(* reads to it.  So the leader must change hands when its block is         *)
(* written, and every read that joins an element takes the mark over.      *)
(* convert_spec_to_bunch removes blocks of zeroes from the trace, so the   *)
(* identifier of zero blocks is never given out here.                      *)
(***************************************************************************)
EXTENDS Integers, SequencesExt

CONSTANTS
  Blocks,    \* virtual blocks, each a volume and a block number
  Keys       \* content hashes (fhashkey)

ASSUME FixedAssumption == IsFiniteSet(Blocks)

DummyId == 1      \* DUMMY_ID, of a block written before it was ever mapped

FirstNum == 2     \* the initial fixedNum

VARIABLES
  v2f,        \* the entries of v2fmaps: identifier and fdirty of a block
  fixedmap,   \* fixedmap_by_fid: key and f2vmaps of an element, latest first
  fixedtab,   \* the identifier of the element of each key in the table
  reusable,   \* currReusableFixedIDUList
  fixedNum    \* the last identifier that was new

fixedVars == <<v2f, fixedmap, fixedtab, reusable, fixedNum>>

Only(f, S) == [x \in S |-> f[x]]
With(f, x, v) == [y \in DOMAIN f \cup {x} |-> IF y = x THEN v ELSE f[y]]

Mapped(b) == b \in DOMAIN v2f
Clean(b) == Mapped(b) /\ ~v2f[b].fdirty
Dirty(b) == Mapped(b) /\ v2f[b].fdirty
KeyOf(b) == fixedmap[v2f[b].fixedID].fhashkey

\* Places in a list of F2V tuples.
First(P) == CHOOSE i \in P : \A j \in P : i <= j
Marked(f2v) == {i \in DOMAIN f2v : f2v[i].dedupfetch}
PlacesOf(f2v, b) == {i \in DOMAIN f2v : f2v[i].blockID = b}

Tuple(b) == [blockID |-> b, dedupfetch |-> TRUE]
SetMark(f2v, i, mark) == [f2v EXCEPT ![i].dedupfetch = mark]

\* get_deduped_f2v: the block to fetch for element i.
Leader(i) == LET f2v == fixedmap[i].f2vmaps IN f2v[First(Marked(f2v))].blockID

-----------------------------------------------------------------------------
FixedInit ==
  /\ v2f = [b \in {} |-> b]
  /\ fixedmap = [i \in {} |-> i]
  /\ fixedtab = [k \in {} |-> k]
  /\ reusable = <<>>
  /\ fixedNum = FirstNum

\* unmark_old_dedupfetchF
Unmark(f2v) == SetMark(f2v, First(Marked(f2v)), FALSE)

\* mark_another_dedupfetchF: the first tuple that is not marked gets the mark.
MarkAnother(f2v) == SetMark(f2v, First(DOMAIN f2v \ Marked(f2v)), TRUE)

\* Faulty variant: the mark is lost with the tuple that has it.
DelF2VUnmarked(f2v, b) == RemoveAt(f2v, First(PlacesOf(f2v, b)))

\* del_f2v_from_f2vmaps, on a list of several tuples
DelF2V(f2v, b) ==
  LET i == First(PlacesOf(f2v, b))
  IN  RemoveAt(IF f2v[i].dedupfetch THEN MarkAnother(f2v) ELSE f2v, i)

\* recyclefixedID, then add_new_to_old_recyclelistF.  DUMMY_ID is not reused.
RecycleFixedID(i, b) ==
  IF Len(fixedmap[i].f2vmaps) > 1
  THEN /\ fixedmap' = [fixedmap EXCEPT ![i].f2vmaps = DelF2V(@, b)]
       /\ UNCHANGED <<fixedtab, reusable>>
  ELSE /\ fixedmap' = Only(fixedmap, DOMAIN fixedmap \ {i})
       /\ fixedtab' = Only(fixedtab, DOMAIN fixedtab \ {fixedmap[i].fhashkey})
       /\ reusable' = IF i = DummyId THEN reusable ELSE Append(reusable, i)

\* mappingTrimScanF, for the one block of a request (replay-generic asserts
\* that a request to a simulated disk has one).
TrimUnmapped(b) ==
  /\ ~Mapped(b)
  /\ v2f' = With(v2f, b, [fixedID |-> DummyId, fdirty |-> TRUE])
  /\ UNCHANGED <<fixedmap, fixedtab, reusable, fixedNum>>

TrimDirty(b) == Dirty(b) /\ UNCHANGED fixedVars

TrimClean(b) ==
  /\ Clean(b)
  /\ v2f' = [v2f EXCEPT ![b].fdirty = TRUE]
  /\ RecycleFixedID(v2f[b].fixedID, b)     \* resetMappingsF
  /\ UNCHANGED fixedNum

Trim(b) == TrimUnmapped(b) \/ TrimDirty(b) \/ TrimClean(b)

\* updateBlockf with note_v2f_map
UpdateBlockf(b, i) == v2f' = With(v2f, b, [fixedID |-> i, fdirty |-> FALSE])

\* getNextFixedNum(NOINIT_STAGE)
NextFixedNum == IF reusable = <<>> THEN fixedNum + 1 ELSE Head(reusable)

GetNextFixedNum ==
  IF reusable = <<>>
  THEN fixedNum' = fixedNum + 1 /\ UNCHANGED reusable
  ELSE reusable' = Tail(reusable) /\ UNCHANGED fixedNum

\* resumeFixing for a read whose block had no clean mapping: the content is
\* known already, and the block takes over its element's mark ...
JoinElement(b, k) ==
  /\ k \in DOMAIN fixedtab
  /\ LET i == fixedtab[k] IN
       /\ fixedmap' =
            IF PlacesOf(fixedmap[i].f2vmaps, b) = {}
            THEN [fixedmap EXCEPT ![i].f2vmaps = <<Tuple(b)>> \o Unmark(@)]
            ELSE fixedmap
       /\ UpdateBlockf(b, i)
  /\ UNCHANGED <<fixedtab, reusable, fixedNum>>

\* ... or it is new.
NewElement(b, k) ==
  /\ k \notin DOMAIN fixedtab
  /\ fixedmap' = With(fixedmap, NextFixedNum,
                      [fhashkey |-> k, f2vmaps |-> <<Tuple(b)>>])
  /\ fixedtab' = With(fixedtab, k, NextFixedNum)
  /\ UpdateBlockf(b, NextFixedNum)
  /\ GetNextFixedNum

Learn(b, k) == ~Clean(b) /\ (JoinElement(b, k) \/ NewElement(b, k))

FixedNext == \E b \in Blocks : Trim(b) \/ \E k \in Keys : Learn(b, k)

FixedSpec == FixedInit /\ [][FixedNext]_fixedVars

-----------------------------------------------------------------------------
Ids == DOMAIN fixedmap
TupleType == [blockID : Blocks, dedupfetch : BOOLEAN]

\* The type invariant.
FixedTypeOK ==
  /\ fixedNum \in Nat
  /\ DOMAIN v2f \subseteq Blocks
  /\ v2f \in [DOMAIN v2f -> [fixedID : Nat, fdirty : BOOLEAN]]
  /\ Ids \subseteq Nat \ {DummyId}
  /\ fixedmap \in [Ids -> [fhashkey : Keys, f2vmaps : Seq(TupleType)]]
  /\ DOMAIN fixedtab \subseteq Keys
  /\ fixedtab \in [DOMAIN fixedtab -> Nat]
  /\ reusable \in Seq(Nat)

\* Each element has exactly one block marked as the one to fetch, whatever
\* blocks joined and left it: get_deduped_f2v and unmark_old_dedupfetchF fail
\* on an element without one (fserveio.c:513, 150), and with two the choice
\* would depend on the order of the list.
OneLeader == \A i \in Ids : Cardinality(Marked(fixedmap[i].f2vmaps)) = 1

\* An element lists, once each, the clean blocks that name it and no others:
\* a redirected read never goes to a block written since.
MembersAreClean ==
  /\ \A b \in Blocks :
       Clean(b) => /\ v2f[b].fixedID \in Ids
                   /\ PlacesOf(fixedmap[v2f[b].fixedID].f2vmaps, b) # {}
  /\ \A i \in Ids :
       \A p \in DOMAIN fixedmap[i].f2vmaps :
         LET b == fixedmap[i].f2vmaps[p].blockID
         IN  /\ Clean(b) /\ v2f[b].fixedID = i
             /\ PlacesOf(fixedmap[i].f2vmaps, b) = {p}

\* The hash table finds every element by its key, and nothing else.
FixedTabAgrees ==
  /\ \A i \in Ids : /\ fixedmap[i].fhashkey \in DOMAIN fixedtab
                    /\ fixedtab[fixedmap[i].fhashkey] = i
  /\ \A k \in DOMAIN fixedtab : /\ fixedtab[k] \in Ids
                                /\ fixedmap[fixedtab[k]].fhashkey = k

\* The block map, the elements, each with one block to fetch, and the hash
\* table agree with each other, so that resumeFixing finds again what
\* confideReadRequest hit ("why fixedtab NULL after fmaphit", fixing.c:136,
\* and "inconsistence?", fixing.c:162).
FixedMapsAgree == FixedTypeOK /\ OneLeader /\ MembersAreClean /\ FixedTabAgrees
=============================================================================
