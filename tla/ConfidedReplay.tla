--------------------------- MODULE ConfidedReplay ---------------------------
(***************************************************************************)
(* The replay of block requests in CONFIDED mode on a simulated disk:      *)
(* sim_map_n_process_bunch with freplayflag, for a program built without   *)
(* METADATAUPDATE_UPON_WRITES and a trace whose reads and writes are both  *)
(* enabled.                                                                *)
(*                                                                         *)
(* Here the metadata comes before the caches.  A read looks its block up,  *)
(* and if the mapping is clean goes on with the leader of the content in   *)
(* place of its own block: through sector cache, disk, metadata update and *)
(* sector cache.  A write invalidates its mapping, fills the sector cache  *)
(* and goes to the disk; its block stays dirty until it is next read from  *)
(* the disk.                                                               *)
(*                                                                         *)
(* "counted" is the set of the counters that the request in progress has   *)
(* incremented, none of them twice.  The assertions of sim_replay_exit are *)
(* linear equations between the counters, so they hold of the totals if    *)
(* each request keeps the balance.                                         *)
(***************************************************************************)
EXTENDS Confided

VARIABLES
  disk,      \* the simulated disk: the content of each block it has
  sector,    \* the sector cache: the content of each block in it
  warmup,    \* warmupflag
  stage,     \* the next step of the request in progress, or "idle"
  req,       \* the request, and what confideReadRequest made of it
  reply,     \* the last read answered and its content
  counted    \* the counters that the request has incremented

requestVars == <<stage, req, reply, counted>>
replayVars == <<fixedVars, disk, sector, warmup, requestVars>>

Sector == INSTANCE Store WITH
  Names <- Blocks, Values <- Keys, Updatable <- TRUE, store <- sector

b0 == req.block      \* the block and the content of the request
k0 == req.content
t0 == req.ioblk      \* the block it is served from

Count(S) == counted' = IF warmup THEN {} ELSE counted \cup S

ReplayInit ==
  /\ FixedInit
  /\ disk = [b \in {} |-> b]
  /\ Sector!StoreInit
  /\ warmup \in BOOLEAN
  /\ stage = "idle"
  /\ req = [rw |-> "none"]
  /\ reply = <<>>
  /\ counted = {}

-----------------------------------------------------------------------------
\* A request is taken up, its content checked against the disk
\* (disk_read_checkconsistency) or brought to it.
TakeUp(rw, b, k) ==
  /\ stage = "idle"
  /\ req' = [rw |-> rw, block |-> b, content |-> k]
  /\ counted' = IF warmup THEN {} ELSE {IF rw = "read" THEN "gtotalreadreq"
                                        ELSE "gtotalwritereq"}
  /\ UNCHANGED <<fixedVars, sector, warmup, reply>>

StartRead(b, k) ==
  /\ b \in DOMAIN disk => k = disk[b]
  /\ TakeUp("read", b, k)
  /\ stage' = "map"
  /\ disk' = With(disk, b, k)

StartWrite(b, k) ==
  /\ TakeUp("write", b, k)
  /\ stage' = "trim"
  /\ UNCHANGED disk

\* The request goes on with block t; "hit" is fmaphit_flag, "dirty" is
\* fmapdirty_flag and "id" is fmaphit_fixedID.
GoOn(t, hit, dirty, id) ==
  /\ stage' = "find"
  /\ req' = [rw |-> "read", block |-> b0, content |-> k0,
             ioblk |-> t, hit |-> hit, dirty |-> dirty, id |-> id]
  /\ UNCHANGED <<fixedVars, disk, sector, warmup, reply>>

\* Faulty variant: the read of a dirty block is redirected.
RedirectStale ==
  /\ stage = "map"
  /\ Mapped(b0)
  /\ v2f[b0].fixedID \in Ids
  /\ GoOn(Leader(v2f[b0].fixedID), TRUE, FALSE, v2f[b0].fixedID)
  /\ Count({"fmap_hits", "ctotalblkread", "con_blkread"})

\* confideReadRequest: get_fullvblkF redirects a block with a clean mapping ...
Redirect ==
  /\ stage = "map"
  /\ Clean(b0)
  /\ LET leader == Leader(v2f[b0].fixedID) IN
       /\ GoOn(leader, TRUE, FALSE, v2f[b0].fixedID)
       /\ Count({"fmap_hits", "ctotalblkread", "con_blkread",
                 IF leader = b0 THEN "fmap_self_is_leader"
                 ELSE "fmap_self_is_not_leader"})

\* Faulty variant: the read of a dirty block is not counted as dirty.
FallBackUncounted ==
  /\ stage = "map"
  /\ ~Clean(b0)
  /\ GoOn(b0, FALSE, Dirty(b0), DummyId)
  /\ Count({"fmap_misses", "ctotalblkread", "con_fallback_blkread"})

\* ... and the others are read themselves.
FallBack ==
  /\ stage = "map"
  /\ ~Clean(b0)
  /\ GoOn(b0, FALSE, Dirty(b0), DummyId)
  /\ Count({"fmap_misses", "ctotalblkread", "con_fallback_blkread"}
           \cup (IF Dirty(b0) THEN {"fmap_dirties"} ELSE {}))

\* The counters of a read with a mapping, by what became of it.
SelfOrDedup(self, dedup) == IF t0 = b0 THEN {self} ELSE {dedup}

\* find_in_sectorcache, and the classification that follows it
FindInSector ==
  /\ stage = "find"
  /\ t0 \in DOMAIN sector
  /\ stage' = "idle"
  /\ reply' = <<b0, sector[t0]>>
  /\ Count({"bcache_hits_r"} \cup
           (IF req.hit THEN SelfOrDedup("fixed_self_hits", "fixed_dedup_hits")
            ELSE {"fmapmiss_cachehits"} \cup
                 (IF req.dirty THEN {"fmapdirty_cachehits"} ELSE {})))
  /\ UNCHANGED <<fixedVars, disk, sector, warmup, req>>

MissInSector ==
  /\ stage = "find"
  /\ t0 \notin DOMAIN sector
  /\ stage' = "disk"
  /\ Count({"bcache_misses_r",
            IF req.hit \/ req.dirty THEN "capacity_misses" ELSE "compulsory_misses"}
           \cup (IF req.hit THEN SelfOrDedup("fixed_self_misses", "fixed_dedup_misses")
                 ELSE {"fmapmiss_cachemisses"}))
  /\ UNCHANGED <<fixedVars, disk, sector, warmup, req, reply>>

\* preql_map and sim_replay
ReadDisk ==
  /\ stage = "disk"
  /\ stage' = "update"
  /\ reply' = <<b0, disk[t0]>>
  /\ Count({"disk_hits_r"})
  /\ UNCHANGED <<fixedVars, disk, sector, warmup, req>>

\* f_mapupdate with resumeFixing: after a metadata hit the element of the
\* content is the one that was hit, and else the block is mapped to it.
HitConfirmed == k0 \in DOMAIN fixedtab /\ fixedtab[k0] = req.id

FMapupdate ==
  IF req.hit THEN HitConfirmed /\ UNCHANGED fixedVars ELSE Learn(b0, k0)

UpdateMap ==
  /\ stage = "update"
  /\ FMapupdate
  /\ stage' = "fill"
  /\ UNCHANGED <<disk, sector, warmup, req, reply, counted>>

\* overwrite_in_sectorcache: nothing in the warm-up.
PutUnder(b) == IF warmup THEN UNCHANGED sector ELSE Sector!Put(b, k0)

FillSector ==
  /\ stage = "fill"
  /\ PutUnder(t0)
  /\ stage' = "idle"
  /\ UNCHANGED <<fixedVars, disk, warmup, req, reply, counted>>

\* Faulty variant: the mapping of the block is not invalidated.
TrimNothing ==
  /\ stage = "trim"
  /\ stage' = "cache"
  /\ UNCHANGED <<fixedVars, disk, sector, warmup, req, reply, counted>>

\* confideWriteRequest
TrimMap ==
  /\ stage = "trim"
  /\ Trim(b0)
  /\ stage' = "cache"
  /\ UNCHANGED <<disk, sector, warmup, req, reply, counted>>

\* Faulty variant: a write that hits leaves the old content in the cache.
WriteSectorOnMiss ==
  /\ stage = "cache"
  /\ IF b0 \in DOMAIN sector THEN UNCHANGED sector ELSE PutUnder(b0)
  /\ Count({IF b0 \in DOMAIN sector THEN "bcache_hits_w" ELSE "bcache_misses_w"})
  /\ stage' = "store"
  /\ UNCHANGED <<fixedVars, disk, warmup, req, reply>>

WriteSector ==
  /\ stage = "cache"
  /\ PutUnder(b0)
  /\ Count({IF b0 \in DOMAIN sector THEN "bcache_hits_w" ELSE "bcache_misses_w"})
  /\ stage' = "store"
  /\ UNCHANGED <<fixedVars, disk, warmup, req, reply>>

\* preql_map, sim_replay and disk_write_trap
WriteDisk ==
  /\ stage = "store"
  /\ disk' = With(disk, b0, k0)
  /\ stage' = "idle"
  /\ Count({"disk_hits_w"})
  /\ UNCHANGED <<fixedVars, sector, warmup, req, reply>>

\* The warm-up trace is at its end (tip_init).
EndWarmup ==
  /\ warmup
  /\ stage = "idle"
  /\ warmup' = FALSE
  /\ UNCHANGED <<fixedVars, disk, sector, requestVars>>

\* freplay_map, by the kind of the request; then the caches and the disk.
FreplayMap == Redirect \/ FallBack \/ TrimMap
ReadStep == FindInSector \/ MissInSector \/ ReadDisk \/ UpdateMap \/ FillSector
WriteStep == WriteSector \/ WriteDisk

ReplayNext ==
  \/ \E b \in Blocks, k \in Keys : StartRead(b, k) \/ StartWrite(b, k)
  \/ FreplayMap
  \/ ReadStep
  \/ WriteStep
  \/ EndWarmup

ReplaySpec == ReplayInit /\ [][ReplayNext]_replayVars

-----------------------------------------------------------------------------
\* The block whose new content is on its way to the disk, and how far.
WritingSector(b) == stage = "store" /\ req.rw = "write" /\ b = b0
WritingMap(b) == stage \in {"cache", "store"} /\ req.rw = "write" /\ b = b0

\* The sector cache never has an outdated content, though it is filled under
\* the leader's number by reads of other blocks: sectorcache_lookup asserts
\* that what it found is what the request reads (sectorcache.c:200-206).
SectorFresh ==
  \A b \in DOMAIN sector : IF WritingSector(b)
                           THEN sector[b] = k0
                           ELSE b \in DOMAIN disk /\ sector[b] = disk[b]

\* A read is only ever sent to a block with the same content: what the disk
\* has in a clean block it has in the leader of the block's element, too, and
\* it is the content that the element's key stands for ("inconsistence?",
\* fixing.c:160-165).
LeaderFresh ==
  \A b \in Blocks :
    Clean(b) => LET leader == Leader(v2f[b].fixedID)
                IN  /\ {b, leader} \subseteq DOMAIN disk
                    /\ disk[leader] = disk[b]
                    /\ KeyOf(b) = disk[b]

\* A read is sent to another block, or answered under another block's number,
\* only where the content is the same: neither the metadata nor the sector
\* cache, which is filled by such reads, is ever outdated.
RedirectsFresh == SectorFresh /\ LeaderFresh

\* sim_replay_exit (main_sim_replay.c:1353, 1363-1369): reads are accounted
\* for by the caches and the disk as by the metadata, kind by kind.
c(name) == IF name \in counted THEN 1 ELSE 0
ConfidedAccounted ==
  stage = "idle" =>
    /\ c("gtotalreadreq") = c("compulsory_misses") + c("bcache_hits_r") + c("capacity_misses")
    /\ c("fmap_hits") = c("fixed_dedup_hits") + c("fixed_self_hits")
                        + c("fixed_dedup_misses") + c("fixed_self_misses")
    /\ c("bcache_misses_r") = c("compulsory_misses") + c("capacity_misses")
    /\ c("compulsory_misses") = c("fmap_misses") - c("fmap_dirties")
                                - c("fmapmiss_cachehits") + c("fmapdirty_cachehits")
    /\ c("capacity_misses") = c("fixed_dedup_misses") + c("fixed_self_misses")
                              + c("fmap_dirties") - c("fmapdirty_cachehits")
    /\ c("fmap_hits") = c("capacity_misses") - (c("fmap_dirties") - c("fmapdirty_cachehits"))
                        + c("bcache_hits_r") - c("fmapmiss_cachehits")
    /\ c("fmap_self_is_leader") = c("fixed_self_hits") + c("fixed_self_misses")
    /\ c("fmap_self_is_not_leader") = c("fixed_dedup_hits") + c("fixed_dedup_misses")

\* However it is redirected, a read is answered as by a plain device.
Device == INSTANCE BlockDevice WITH
  Contents <- Keys, media <- disk, answer <- reply
RedirectedImplementsDevice == Device!DeviceSpec
=============================================================================
