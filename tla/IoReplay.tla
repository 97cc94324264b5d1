------------------------------ MODULE IoReplay ------------------------------
(***************************************************************************)
(* The replay of block requests in IODEDUP mode on a simulated disk:       *)
(* sim_map_n_process_bunch (simulated-cache-io/sim-replay-generic.c) with  *)
(* the sector cache, the deduplication metadata, the content cache and the *)
(* simulated disk that it calls for each block.                            *)
(*                                                                         *)
(* A read goes through sector cache, mapping and content cache, disk,      *)
(* content cache, metadata update, sector cache, and stops early where it  *)
(* is satisfied.  A write goes through sector cache, mapping (trim),       *)
(* content cache, disk, metadata update.  Each of these is one action, and *)
(* "stage" says which comes next.  During the warm-up the disk and the     *)
(* metadata are maintained but nothing enters the caches.  A program built *)
(* without IOMETADATAUPDATE_UPON_WRITES leaves out the content cache and   *)
(* the update in a write: the block stays dirty until it is next read from *)
(* the disk.                                                               *)
(*                                                                         *)
(* Keys stand for the contents they are hashes of.  The two caches are     *)
(* stores with any replacement policy (Store); ArcCache and LruCache are   *)
(* shown to be such stores.                                                *)
(***************************************************************************)
EXTENDS Iodedup

VARIABLES
  disk,      \* the simulated disk: the content of each block it has
  sector,    \* the sector cache: the content of each block in it
  ccache,    \* the content cache: obj->ioblkID of each key resident in it
  warmup,    \* warmupflag
  mapUponWrites, \* was the program built with IOMETADATAUPDATE_UPON_WRITES?
  stage,     \* the next step of the request in progress, or "idle"
  req,       \* the request: rw, ioblk and content, and cmaphit_iodedupID, or
             \* NoHit where cmaphit_flag is not set
  had,       \* ccache_already_had_flag and ccache_already_had_obj_ioblkID
  reply      \* the last read answered and its content

cacheVars == <<sector, ccache>>
modeVars == <<warmup, mapUponWrites>>
requestVars == <<stage, req, had, reply>>
replayVars == <<metaVars, disk, cacheVars, modeVars, requestVars>>

Sector == INSTANCE Store WITH
  Names <- Blocks, Values <- Keys, Updatable <- TRUE, store <- sector
Content == INSTANCE Store WITH
  Names <- Keys, Values <- Blocks, Updatable <- FALSE, store <- ccache

NotHad == [flag |-> FALSE]
Had(b) == [flag |-> TRUE, ioblkID |-> b]

Request(rw, b, k) == [rw |-> rw, ioblk |-> b, content |-> k, cmaphit |-> NoHit]
b0 == req.ioblk      \* the block and the content of the request
k0 == req.content

ReplayInit ==
  /\ MetaInit
  /\ disk = [b \in {} |-> b]
  /\ Sector!StoreInit
  /\ Content!StoreInit
  /\ warmup \in BOOLEAN
  /\ mapUponWrites \in BOOLEAN
  /\ stage = "idle"
  /\ req = [rw |-> "none", cmaphit |-> NoHit]
  /\ had = NotHad
  /\ reply = <<>>

-----------------------------------------------------------------------------
\* Faulty variant: what the lookup of the last request noted is not reset.
TakeUpNoted(rw, b, k) ==
  /\ stage = "idle"
  /\ req' = [Request(rw, b, k) EXCEPT !.cmaphit = req.cmaphit]
  /\ had' = NotHad
  /\ UNCHANGED <<metaVars, cacheVars, modeVars, reply>>

\* A request is taken up: convert_spec_to_bunch, and the flags that
\* sim_map_n_process_bunch resets for each packet.
TakeUp(rw, b, k) ==
  /\ stage = "idle"
  /\ req' = Request(rw, b, k)
  /\ had' = NotHad
  /\ UNCHANGED <<metaVars, cacheVars, modeVars, reply>>

\* disk_read_checkconsistency: the disk corrects the content that the trace
\* gives for a block it has, and takes over the content of one it has not.
StartRead(b, k) ==
  /\ b \in DOMAIN disk => k = disk[b]
  /\ TakeUp("read", b, k)
  /\ stage' = "find"
  /\ disk' = With(disk, b, k)

StartWrite(b, k) ==
  /\ TakeUp("write", b, k)
  /\ stage' = "cache"
  /\ UNCHANGED disk

\* find_in_sectorcache
FindInSector ==
  /\ stage = "find"
  /\ b0 \in DOMAIN sector
  /\ stage' = "idle"
  /\ reply' = <<b0, sector[b0]>>
  /\ UNCHANGED <<metaVars, disk, cacheVars, modeVars, req, had>>

MissInSector ==
  /\ stage = "find"
  /\ b0 \notin DOMAIN sector
  /\ stage' = "lookup"
  /\ UNCHANGED <<metaVars, disk, cacheVars, modeVars, req, had, reply>>

\* iodedupReadRequest: a clean mapping is noted and leads to a key, and the
\* content cache may have its content.
NoteHit == req' = [req EXCEPT !.cmaphit = IF Clean(b0) THEN p2d[b0].iodedupID ELSE @]
ContentHit == Clean(b0) /\ KeyOf(b0) \in DOMAIN ccache

\* Faulty variant: the dirty flag of the mapping is not looked at.
FindContentStale ==
  /\ stage = "lookup"
  /\ Mapped(b0)
  /\ p2d[b0].iodedupID \in DOMAIN d2pv
  /\ KeyOf(b0) \in DOMAIN ccache
  /\ stage' = "fill"
  /\ reply' = <<b0, KeyOf(b0)>>
  /\ UNCHANGED <<metaVars, disk, cacheVars, modeVars, req, had>>

FindContent ==
  /\ stage = "lookup"
  /\ ContentHit
  /\ NoteHit
  /\ stage' = "fill"
  /\ reply' = <<b0, KeyOf(b0)>>
  /\ UNCHANGED <<metaVars, disk, cacheVars, modeVars, had>>

\* The request misses and is answered from the disk (preql_map, sim_replay).
ReadDisk ==
  /\ stage = "lookup"
  /\ ~ContentHit
  /\ NoteHit
  /\ stage' = "content"
  /\ reply' = <<b0, k0>>
  /\ UNCHANGED <<metaVars, disk, cacheVars, modeVars, had>>

\* iodedupWriteRequest does nothing in a program built without the flag.
WriteSkipsContent == req.rw = "write" /\ ~mapUponWrites

\* Faulty variant: the flag is not set when the object is found resident.
PutContentUnflagged ==
  IF warmup \/ WriteSkipsContent
  THEN UNCHANGED <<ccache, had>>
  ELSE Content!Put(k0, b0) /\ UNCHANGED had

\* overwrite_in_contentcache: nothing in the warm-up; else __arc_add notes
\* whether the key was resident already, and under which block number.
PutContent ==
  IF warmup \/ WriteSkipsContent
  THEN UNCHANGED <<ccache, had>>
  ELSE /\ Content!Put(k0, b0)
       /\ had' = IF k0 \in DOMAIN ccache THEN Had(ccache[k0]) ELSE NotHad

\* ioread_contentcacheupdate for a read, iodedupWriteRequest for a write.
UpdateContentCache ==
  /\ stage = "content"
  /\ PutContent
  /\ stage' = IF req.rw = "read" THEN "update" ELSE "store"
  /\ UNCHANGED <<metaVars, disk, sector, modeVars, req, reply>>

\* io_mapupdate, inline for a read and in a thread that is joined at once
\* for a write, goes by what the lookup noted before the disk was read; the
\* key's leader is the block number the content cache has.
Leader == IF had.flag THEN had.ioblkID ELSE b0
UpdateMap ==
  /\ stage = "update"
  /\ ResumeDeduping(b0, k0, Leader, req.cmaphit)
  /\ stage' = IF req.rw = "read" THEN "fill" ELSE "idle"
  /\ UNCHANGED <<disk, cacheVars, modeVars, req, had, reply>>

\* overwrite_in_sectorcache: nothing in the warm-up.
PutSector == IF warmup THEN UNCHANGED sector ELSE Sector!Put(b0, k0)

FillSector ==
  /\ stage = "fill"
  /\ PutSector
  /\ stage' = "idle"
  /\ UNCHANGED <<metaVars, disk, ccache, modeVars, req, had, reply>>

\* Faulty variant: a write that hits leaves the old content in the cache.
WriteSectorOnMiss ==
  /\ stage = "cache"
  /\ IF b0 \in DOMAIN sector THEN UNCHANGED sector ELSE PutSector
  /\ stage' = "trim"
  /\ UNCHANGED <<metaVars, disk, ccache, modeVars, req, had, reply>>

WriteSector ==
  /\ stage = "cache"
  /\ PutSector
  /\ stage' = "trim"
  /\ UNCHANGED <<metaVars, disk, ccache, modeVars, req, had, reply>>

\* mappingTrimScanIO
TrimMap ==
  /\ stage = "trim"
  /\ Trim(b0)
  /\ stage' = "content"
  /\ UNCHANGED <<disk, cacheVars, modeVars, req, had, reply>>

\* disk_write_trap, and then the thread that updates the metadata, if any
WriteDisk ==
  /\ stage = "store"
  /\ disk' = With(disk, b0, k0)
  /\ stage' = IF mapUponWrites THEN "update" ELSE "idle"
  /\ UNCHANGED <<metaVars, cacheVars, modeVars, req, had, reply>>

\* The warm-up trace is at its end (tip_init).
EndWarmup ==
  /\ warmup
  /\ stage = "idle"
  /\ warmup' = FALSE
  /\ UNCHANGED <<metaVars, disk, cacheVars, mapUponWrites, requestVars>>

ReadStep == FindInSector \/ MissInSector \/ FindContent \/ ReadDisk
WriteStep == WriteSector \/ TrimMap \/ WriteDisk
EitherStep == UpdateContentCache \/ UpdateMap \/ FillSector

ReplayNext ==
  \/ \E b \in Blocks, k \in Keys : StartRead(b, k) \/ StartWrite(b, k)
  \/ ReadStep
  \/ WriteStep
  \/ EitherStep
  \/ EndWarmup

ReplaySpec == ReplayInit /\ [][ReplayNext]_replayVars

-----------------------------------------------------------------------------
Stages ==
  {"idle", "find", "lookup", "content", "update", "fill", "cache", "trim", "store"}

\* The type invariant, with the emptiness of the caches that
\* contentcache_lookup asserts during the warm-up (contentcache.c:334).
ReplayTypeOK ==
  /\ MetaTypeOK
  /\ DOMAIN disk \subseteq Blocks /\ disk \in [DOMAIN disk -> Keys]
  /\ DOMAIN sector \subseteq Blocks /\ sector \in [DOMAIN sector -> Keys]
  /\ DOMAIN ccache \subseteq Keys /\ ccache \in [DOMAIN ccache -> Blocks]
  /\ warmup => DOMAIN ccache = {} /\ DOMAIN sector = {}
  /\ warmup \in BOOLEAN /\ mapUponWrites \in BOOLEAN
  /\ stage \in Stages
  /\ stage # "idle" =>
       req \in [rw : {"read", "write"}, ioblk : Blocks, content : Keys, cmaphit : Nat]
  /\ had = NotHad \/ \E b \in Blocks : had = Had(b)

\* The block whose new content the sector cache has and the disk has not.
Writing(b) == stage \in {"trim", "content", "store"} /\ req.rw = "write" /\ b = b0

\* The sector cache never has an outdated content: sectorcache_lookup asserts
\* that what it found is what the request reads (sectorcache.c:200-206).
SectorCacheFresh ==
  \A b \in DOMAIN sector : IF Writing(b)
                           THEN sector[b] = k0
                           ELSE b \in DOMAIN disk /\ sector[b] = disk[b]

\* Both caches stay empty while the warm-up fills the metadata, and from then
\* on the sector cache is never outdated (contentcache.c:334, sectorcache.c:200).
CachesFresh == ReplayTypeOK /\ SectorCacheFresh

CleanOnDisk == \A b \in Blocks : Clean(b) => b \in DOMAIN disk /\ KeyOf(b) = disk[b]
NotedStands ==
  stage = "update" =>
    IF req.cmaphit = NoHit THEN ~Clean(b0)
    ELSE k0 \in DOMAIN deduptab /\ deduptab[k0] = req.cmaphit

\* A mapping that is not dirty leads to the key of what is on the disk, at
\* every step of a request: iodedupReadRequest asserts it of the content
\* cache's answer (ioserveio.c:537, 599).  And what the lookup noted of the
\* mapping still stands when the metadata is updated, after the disk and the
\* content cache: resumeDeduping fails with "inconsistence why?" if the element
\* is no longer the one of the key (iodeduping.c:138), and lists a block with
\* two elements if a hit was not noted.
MappingFresh == CleanOnDisk /\ NotedStands

\* The content cache and the metadata have the same leader for a key, whatever
\* was evicted, fetched again, trimmed and mapped in between, and the leader a
\* request is about to note is the cache's: contentcache_lookup asserts it of
\* each hit (contentcache.c:346).
Noting == stage = "update" \/ (stage = "store" /\ mapUponWrites)
LeadersAgree ==
  /\ \A k \in DOMAIN ccache \cap DOMAIN deduptab :
       (Noting /\ k = k0) \/ d2pv[deduptab[k]].ioblkID = ccache[k]
  /\ (Noting /\ k0 \in DOMAIN ccache) => Leader = ccache[k0]

\* The replay answers every read as a plain device would.
Device == INSTANCE BlockDevice WITH
  Contents <- Keys, media <- disk, answer <- reply
ImplementsDevice == Device!DeviceSpec

=============================================================================
