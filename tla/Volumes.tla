------------------------------ MODULE Volumes ------------------------------
(***************************************************************************)
(* Volumes and the physical blocks they lie on (controller-utils/          *)
(* v2p-map.c, voltab.c).  A volume gets its number when its name is first  *)
(* met: in the file of the mapping, one line for each volume, or in the    *)
(* trace, if the file has no line.  Its capacity is what the file says of  *)
(* it, and grows with the block numbers of the trace.                      *)
(***************************************************************************)
EXTENDS Integers, SequencesExt

CONSTANTS
  Rows,      \* the lines that a mapping file may have
  Word       \* 2^32, the range of a block number

ASSUME VolumesAssumption ==
  /\ Word \in Nat \ {0}
  /\ IsFiniteSet(Rows)
  /\ \A row \in Rows :
       row.cap \in Nat /\ row.base \in Nat /\ row.base + row.cap < Word

\* The numbers that volumes may get: the first name met in the trace has one
\* even if the mapping has no line.
VolumeNumbers == {0} \cup 0..(Cardinality({row.vmname : row \in Rows}) - 1)

VARIABLES
  voltab,     \* the number of each name
  v2pmaps,    \* the base and capacity of each number
  overlapped  \* was an overlap found when a capacity grew?

volumeVars == <<voltab, v2pmaps, overlapped>>

Row(name, cap, base) == [vmname |-> name, cap |-> cap, base |-> base]
VmInfo(base, cap) == [pBlkID_base |-> base, vBlkID_cap |-> cap]

LastBlock(v) == (v.pBlkID_base + v.vBlkID_cap - 1) % Word

TestOverlapVM(v, w) ==
  /\ v.pBlkID_base <= LastBlock(w)
  /\ w.pBlkID_base <= LastBlock(v)

numVolID == Cardinality(DOMAIN voltab)

VolumesInit ==
  /\ voltab = [n \in {} |-> n]
  /\ v2pmaps = [v \in {} |-> v]
  /\ overlapped = FALSE

AddVolume(name, v) ==
  /\ voltab' = [n \in DOMAIN voltab \cup {name} |->
                  IF n = name THEN numVolID ELSE voltab[n]]
  /\ v2pmaps' = [i \in DOMAIN v2pmaps \cup {numVolID} |->
                   IF i = numVolID THEN v ELSE v2pmaps[i]]
  /\ UNCHANGED overlapped

\* verify_vm_info
VerifyVmInfo(row) ==
  /\ row.vmname \notin DOMAIN voltab
  /\ \A i \in DOMAIN v2pmaps : ~TestOverlapVM(v2pmaps[i], VmInfo(row.base, row.cap))

\* interpret_one_v2p_map: the program exits on a line it does not accept.
InterpretOneV2pMap(row) ==
  /\ VerifyVmInfo(row)
  /\ AddVolume(row.vmname, VmInfo(row.base, row.cap))

\* get_volID of a name not known: the first volume starts at block 0, and
\* any other is refused.
NameIsMet(name) == name \in DOMAIN voltab \/ numVolID = 0
VolumeOf(name) == IF name \in DOMAIN voltab THEN voltab[name] ELSE numVolID
GetVolID(name) ==
  /\ NameIsMet(name)
  /\ IF name \in DOMAIN voltab
     THEN UNCHANGED volumeVars
     ELSE AddVolume(name, VmInfo(0, 0))

\* getVirttoPhysMap on a simulated disk, where no bound is looked at.
Physical(vol, blk) == (v2pmaps[vol].pBlkID_base + blk) % Word

\* Faulty variant: the overlap is not looked for.
GrowUnnoticed(vol, blk) ==
  /\ v2pmaps' = [v2pmaps EXCEPT ![vol].vBlkID_cap = IF blk + 1 > @ THEN blk + 1 ELSE @]
  /\ UNCHANGED <<voltab, overlapped>>

\* updateVirttoPhysMap: an overlap is reported, and the replay goes on.
UpdateVirttoPhysMap(vol, blk) ==
  IF blk + 1 <= v2pmaps[vol].vBlkID_cap
  THEN UNCHANGED volumeVars
  ELSE LET v == [v2pmaps[vol] EXCEPT !.vBlkID_cap = blk + 1] IN
         /\ v2pmaps' = [v2pmaps EXCEPT ![vol] = v]
         /\ overlapped' = (overlapped \/ \E w \in DOMAIN v2pmaps \ {vol} :
                                           TestOverlapVM(v2pmaps[w], v))
         /\ UNCHANGED voltab

-----------------------------------------------------------------------------
Extent(vol) == {Physical(vol, blk) : blk \in 0..(v2pmaps[vol].vBlkID_cap - 1)}

\* Two volumes never share a physical block unless an overlap was reported,
\* and every name has a volume.
VolumesApart ==
  /\ \A n \in DOMAIN voltab : voltab[n] \in DOMAIN v2pmaps
  /\ \A m, n \in DOMAIN voltab : voltab[m] = voltab[n] => m = n
  /\ ~overlapped =>
       \A v, w \in DOMAIN v2pmaps : v # w => Extent(v) \cap Extent(w) = {}
=============================================================================
