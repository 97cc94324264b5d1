--------------------------- MODULE StandardReplay ---------------------------
(***************************************************************************)
(* The replay without deduplication (sreplayflag): convert_spec_to_bunch   *)
(* and the standard branches of sim_map_n_process_bunch (simulated-cache-  *)
(* io/sim-replay-generic.c), sreplay_map and standard/std_serveio.c, with  *)
(* the volumes, the simulated disk and the sector cache they call.  The    *)
(* sector cache is found by physical block, the disk by volume and block.  *)
(*                                                                         *)
(* A record of the trace is a run of blocks of one volume.  It is turned   *)
(* into a bunch, and each read is made consistent with the disk, before    *)
(* the first block of it is replayed.  A trace with whole contents gives   *)
(* the sector cache no contents: a hit is answered from the disk's file.   *)
(* Reads and writes are both enabled.                                      *)
(***************************************************************************)
EXTENDS LruCache, SimDisk, Volumes

CONSTANTS
  Records,   \* the runs of blocks in a trace: volume, first block, number
  Zero,      \* the block of zeros
  Cf         \* "cf", the value of every entry of a cache without contents

ASSUME StandardAssumption ==
  /\ Zero \in Contents /\ Cf \notin Contents
  /\ Values = Contents \cup {Cf}
  /\ Blocks = 0..(Word - 1)
  /\ \A r \in Records : r.count \in Nat \ {0} /\ r.block \in Nat
  /\ \A r \in Records, v \in VolumeNumbers :
       \A i \in 0..(r.count - 1) : <<v, r.block + i>> \in Places

VARIABLES
  warmup,    \* warmupflag
  stage,     \* the next step, "idle" between the records of the trace
  spec,      \* the record in progress: volume, rw and the contents to come
  bunch,     \* the blocks that it is turned into, those done taken off
  reply      \* the last block read and its content

requestVars == <<stage, spec, bunch, reply>>
standardVars == <<entries, diskVars, volumeVars, warmup, requestVars>>

Record(name, first, count) == [vmname |-> name, block |-> first, count |-> count]
Pkt(p, k) == [place |-> p, content |-> k]
NoSpec == [rw |-> "none"]

StandardInit ==
  /\ LruInit
  /\ DiskInit
  /\ VolumesInit
  /\ warmup \in BOOLEAN
  /\ stage = "mapping"
  /\ spec = NoSpec
  /\ bunch = <<>>
  /\ reply = <<>>

\* pdd_replay_init: the lines of the mapping file, which may have none.
ReadMapping(row) ==
  /\ stage = "mapping"
  /\ InterpretOneV2pMap(row)
  /\ UNCHANGED <<entries, diskVars, warmup, requestVars>>

EndMapping ==
  /\ stage = "mapping"
  /\ stage' = "idle"
  /\ UNCHANGED <<entries, diskVars, volumeVars, warmup, spec, bunch, reply>>

-----------------------------------------------------------------------------
\* next_io_tip: a record of a trace of hashes has one block.
TakeUp(rw, r, ks) ==
  /\ stage = "idle"
  /\ Len(ks) = r.count
  /\ collectformat => r.count = 1
  /\ NameIsMet(r.vmname)
  /\ GetVolID(r.vmname)
  /\ stage' = "convert"
  /\ spec' = [rw |-> rw, volidx |-> VolumeOf(r.vmname), block |-> r.block, contents |-> ks]
  /\ UNCHANGED <<entries, diskVars, warmup, bunch, reply>>

\* The volume of a record that get_volID refuses is -999 in 16 bits, which
\* v2pmaps does not have: updateVirttoPhysMap uses a NULL pointer.
TakeUpUnknown(r) ==
  /\ stage = "idle"
  /\ ~NameIsMet(r.vmname)
  /\ stage' = "crashed"
  /\ UNCHANGED <<entries, diskVars, volumeVars, warmup, spec, bunch, reply>>

p0 == <<spec.volidx, spec.block>>
k0 == Head(spec.contents)
NextOfSpec ==
  spec' = [spec EXCEPT !.block = @ + 1, !.contents = Tail(@)]

\* A block of zeros is left out, unless the trace gives hashes.
SkipZeroBlock ==
  /\ stage = "convert"
  /\ spec.contents # <<>>
  /\ k0 = Zero /\ ~collectformat
  /\ NextOfSpec
  /\ UNCHANGED <<entries, diskVars, volumeVars, warmup, stage, bunch, reply>>

\* Faulty variant: the trace's content is kept where the disk has another.
ConvertUncorrected ==
  /\ stage = "convert"
  /\ spec.contents # <<>>
  /\ k0 # Zero \/ collectformat
  /\ UpdateVirttoPhysMap(p0[1], p0[2])
  /\ IF spec.rw = "read" THEN DiskReadCheckconsistency(p0, k0) ELSE UNCHANGED diskVars
  /\ bunch' = Append(bunch, Pkt(p0, k0))
  /\ NextOfSpec
  /\ UNCHANGED <<entries, warmup, stage, reply>>

\* The loop of convert_spec_to_bunch for one block.
ConvertBlock ==
  /\ stage = "convert"
  /\ spec.contents # <<>>
  /\ k0 # Zero \/ collectformat
  /\ UpdateVirttoPhysMap(p0[1], p0[2])
  /\ IF spec.rw = "read"
     THEN /\ DiskReadCheckconsistency(p0, k0)
          /\ bunch' = Append(bunch, Pkt(p0, Checked(p0, k0)))
     ELSE /\ UNCHANGED diskVars
          /\ bunch' = Append(bunch, Pkt(p0, k0))
  /\ NextOfSpec
  /\ UNCHANGED <<entries, warmup, stage, reply>>

\* The next block of the bunch, or the next record.
NextStage(pkts) ==
  IF pkts = <<>> THEN "idle" ELSE IF spec.rw = "read" THEN "find" ELSE "cache"

Converted ==
  /\ stage = "convert"
  /\ spec.contents = <<>>
  /\ stage' = NextStage(bunch)
  /\ UNCHANGED <<entries, diskVars, volumeVars, warmup, spec, bunch, reply>>

BlockDone ==
  /\ bunch' = Tail(bunch)
  /\ stage' = NextStage(Tail(bunch))
  /\ UNCHANGED <<warmup, spec>>

-----------------------------------------------------------------------------
\* create_preq_spec gives a block its physical block and its key.
place == Head(bunch).place
content == Head(bunch).content
ioblk == Physical(place[1], place[2])

\* overwrite_in_sectorcache adds nothing in the warm-up.
CachedValue == IF collectformat THEN content ELSE Cf
OverwriteInSectorcache ==
  IF warmup THEN UNCHANGED entries ELSE AddToCache(ioblk, CachedValue)

\* find_in_sectorcache: the content found has to be that of the request,
\* which sectorcache_lookup asserts.
FoundContent == IF collectformat THEN ValueOf(ioblk) ELSE Fetched(place)

FindInSectorcache ==
  /\ stage = "find"
  /\ FindHit(ioblk)
  /\ FoundContent = content
  /\ reply' = <<place, FoundContent>>
  /\ BlockDone
  /\ UNCHANGED <<diskVars, volumeVars>>

AssertionFails ==
  /\ stage = "find"
  /\ FindHit(ioblk)
  /\ FoundContent # content
  /\ stage' = "aborted"
  /\ UNCHANGED <<diskVars, volumeVars, warmup, spec, bunch, reply>>

\* preql_map, sim_replay: the content is the one of the bunch.
ReadFromDisk ==
  /\ stage = "find"
  /\ FindMiss(ioblk)
  /\ reply' = <<place, content>>
  /\ stage' = "fill"
  /\ UNCHANGED <<diskVars, volumeVars, warmup, spec, bunch>>

FillSectorcache ==
  /\ stage = "fill"
  /\ OverwriteInSectorcache
  /\ BlockDone
  /\ UNCHANGED <<diskVars, volumeVars, reply>>

WriteSectorcache ==
  /\ stage = "cache"
  /\ OverwriteInSectorcache
  /\ stage' = "store"
  /\ UNCHANGED <<diskVars, volumeVars, warmup, spec, bunch, reply>>

WriteToDisk ==
  /\ stage = "store"
  /\ DiskWriteTrap(place, content)
  /\ BlockDone
  /\ UNCHANGED <<entries, volumeVars, reply>>

EndWarmup ==
  /\ warmup
  /\ stage = "idle"
  /\ warmup' = FALSE
  /\ UNCHANGED <<entries, diskVars, volumeVars, requestVars>>

StandardNext ==
  \/ \E row \in Rows : ReadMapping(row)
  \/ EndMapping
  \/ \E r \in Records : \E ks \in [1..r.count -> Contents] :
       \E rw \in {"read", "write"} : TakeUp(rw, r, ks)
  \/ \E r \in Records : TakeUpUnknown(r)
  \/ SkipZeroBlock
  \/ ConvertBlock
  \/ Converted
  \/ FindInSectorcache
  \/ AssertionFails
  \/ ReadFromDisk
  \/ FillSectorcache
  \/ WriteSectorcache
  \/ WriteToDisk
  \/ EndWarmup

StandardSpec == StandardInit /\ [][StandardNext]_standardVars

-----------------------------------------------------------------------------
\* The assertions of the sector cache's lookup fail only where two volumes
\* share a physical block, and that has been reported (sectorcache.c:200).
AbortsOnOverlap == stage = "aborted" => overlapped

\* "Tests the overlap between the pblk ranges of a VM pair" (v2p-map.c:305): a
\* line of the mapping that names a new volume is refused exactly if one met
\* before has some of its blocks, or is said to: a volume without blocks that
\* lies inside another, or starts at block 0, where its last block is 2^32-1.
FoundInside(v, w) ==
  /\ v.vBlkID_cap = 0
  /\ v.pBlkID_base = 0 \/ v.pBlkID_base - w.pBlkID_base \in 1..(w.vBlkID_cap - 1)
LinesRefused ==
  stage = "mapping" => \A row \in Rows : row.vmname \notin DOMAIN voltab =>
    (~VerifyVmInfo(row) <=>
       \E i \in DOMAIN v2pmaps : LET v == v2pmaps[i]
                                   w == VmInfo(row.base, row.cap) IN
         \/ Extent(i) \cap row.base..(row.base + row.cap - 1) # {}
         \/ FoundInside(v, w) \/ FoundInside(w, v))

\* However volumes grow, two share a physical block only where that was
\* reported, and only then does the replay abort (v2p-map.c:587); and no line
\* of the mapping is refused but for a shared block, or an empty volume.
OverlapsReported == VolumesApart /\ AbortsOnOverlap /\ LinesRefused

\* What the disk holds of each volume and block.
DiskImage == [p \in {q \in Places : Seen(q)} |-> Fetched(p)]
=============================================================================
