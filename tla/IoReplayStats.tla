---------------------------- MODULE IoReplayStats ----------------------------
(***************************************************************************)
(* IoReplay with the counters that it reports.  They are incremented all   *)
(* along the path of a request, in five files, some by what one cache      *)
(* knows and some by what another knows, and only when the warm-up is      *)
(* over.  sim_replay_exit (main_sim_replay.c:1339-1379) asserts that they  *)
(* add up.                                                                 *)
(*                                                                         *)
(* "counted" is the set of the counters that the request in progress has   *)
(* incremented, none of them twice.  The assertions are linear equations   *)
(* between the counters, so they hold of the totals if each request keeps  *)
(* the balance.                                                            *)
(***************************************************************************)
EXTENDS IoReplay

VARIABLES
  counted,       \* the counters that the request has incremented
  bcachefound    \* preq->bcachefound of a write

statsVars == <<replayVars, counted, bcachefound>>

\* "if (!warmupflag)" around the increments of the counters in S.
Count(S) == counted' = IF warmup THEN {} ELSE counted \cup S

StatsInit ==
  /\ ReplayInit
  /\ counted = {}
  /\ bcachefound = FALSE

-----------------------------------------------------------------------------
CountedStart(b, k) ==
  /\ bcachefound' = FALSE
  /\ \/ /\ StartRead(b, k)
        /\ counted' = IF warmup THEN {} ELSE {"gtotalreadreq"}
     \/ /\ StartWrite(b, k)
        /\ counted' = IF warmup THEN {} ELSE {"gtotalwritereq"}

\* find_in_sectorcache
CountedSectorLookup ==
  /\ UNCHANGED bcachefound
  /\ \/ FindInSector /\ Count({"bcache_hits_r"})
     \/ MissInSector /\ Count({"bcache_misses_r"})

\* iodedupReadRequest takes the leader from the metadata, contentcache_lookup
\* from the object in the content cache.
MapLeader == IF ElementOf(b0).ioblkID = b0 THEN {"cmap_self_is_leader"}
             ELSE {"cmap_self_is_not_leader"}

CountedContentHit ==
  /\ FindContent
  /\ Count({"cmap_hits", "ccache_hits_r"} \cup MapLeader
           \cup (IF ccache[KeyOf(b0)] = b0 THEN {"ccache_nondedup_hits"}
                 ELSE {"ccache_dedup_hits"}))
  /\ UNCHANGED bcachefound

\* Faulty variant: a dirty mapping is counted as a compulsory miss.
ReadMissDirtyCompulsory ==
  IF Mapped(b0) /\ ~Clean(b0)
  THEN {"cmap_misses", "cmap_dirties", "compulsory_misses"}
  ELSE IF ~Mapped(b0) THEN {"cmap_misses", "compulsory_misses"}
  ELSE {"cmap_hits", "ccache_misses_r", "capacity_misses"} \cup MapLeader
       \cup (IF ElementOf(b0).ioblkID = b0 THEN {"ccache_nondedup_misses"}
             ELSE {"ccache_dedup_misses"})

\* The counters of a read that goes to the disk: the block is not mapped, or
\* its mapping is dirty, or the content is not in the content cache.
ReadMiss ==
  IF ~Mapped(b0) THEN {"cmap_misses", "compulsory_misses"}
  ELSE IF Dirty(b0) THEN {"cmap_misses", "cmap_dirties", "capacity_misses"}
  ELSE {"cmap_hits", "ccache_misses_r", "capacity_misses"} \cup MapLeader
       \cup (IF ElementOf(b0).ioblkID = b0 THEN {"ccache_nondedup_misses"}
             ELSE {"ccache_dedup_misses"})

CountedReadDisk ==
  /\ ReadDisk
  /\ Count(ReadMiss \cup {"disk_hits_r"})
  /\ UNCHANGED bcachefound

\* add_to_cache called by overwrite_in_sectorcache for a write; not reached
\* in the warm-up.
CountedWriteSector ==
  /\ WriteSector
  /\ Count(IF b0 \in DOMAIN sector THEN {"bcache_hits_w"} ELSE {"bcache_misses_w"})
  /\ bcachefound' = (~warmup /\ b0 \in DOMAIN sector)

\* iodedupWriteRequest: a write that hit the sector cache is not counted
\* again; a read never is.
UpdateHits == req.rw = "write" /\ mapUponWrites /\ ~bcachefound

\* __arc_add called by overwrite_in_contentcache; not reached in the warm-up.
CountedContentUpdate ==
  /\ UpdateContentCache
  /\ Count(IF ~UpdateHits THEN {}
           ELSE IF k0 \in DOMAIN ccache THEN {"ccache_hits_w"}
           ELSE {"ccache_misses_w"})
  /\ UNCHANGED bcachefound

\* preql_map
CountedWriteDisk ==
  /\ WriteDisk
  /\ Count({"disk_hits_w"})
  /\ UNCHANGED bcachefound

Uncounted ==
  /\ TrimMap \/ UpdateMap \/ FillSector \/ EndWarmup
  /\ UNCHANGED <<counted, bcachefound>>

StatsNext ==
  \/ \E b \in Blocks, k \in Keys : CountedStart(b, k)
  \/ CountedSectorLookup
  \/ CountedContentHit
  \/ CountedReadDisk
  \/ CountedWriteSector
  \/ CountedContentUpdate
  \/ CountedWriteDisk
  \/ Uncounted

StatsSpec == StatsInit /\ [][StatsNext]_statsVars

-----------------------------------------------------------------------------
\* The trace may end, and the assertions of sim_replay_exit be evaluated,
\* whenever no request is in progress.
AtExit == stage = "idle"

c(name) == IF name \in counted THEN 1 ELSE 0

\* main_sim_replay.c:1349: every read is accounted for exactly once, as a hit
\* of one of the caches or as a miss of one kind; and the reads that reach
\* the disk are the misses.
ReadsAccounted ==
  AtExit =>
    /\ c("gtotalreadreq") = c("compulsory_misses") + c("bcache_hits_r")
                         + c("ccache_hits_r") + c("capacity_misses")
    /\ c("bcache_misses_r") = c("ccache_hits_r") + c("disk_hits_r")
    /\ c("disk_hits_r") = c("compulsory_misses") + c("capacity_misses")

\* Every write reaches the disk, and is a hit or a miss of the sector cache;
\* the misses, and no others, are counted by the content cache where writes go
\* through it, "to avoid double-counting" (lru_cache.c:109,
\* contentcache.c:395-397).
WritesAccounted ==
  AtExit =>
    /\ c("gtotalwritereq") = c("disk_hits_w")
    /\ c("gtotalwritereq") = c("bcache_hits_w") + c("bcache_misses_w")
    /\ c("ccache_hits_w") + c("ccache_misses_w") =
         IF mapUponWrites THEN c("bcache_misses_w") ELSE 0

\* main_sim_replay.c:1374-1377: lookups of the metadata, by their outcome,
\* agree with the classification of the misses they led to.
MetadataAccounted ==
  AtExit =>
    /\ c("ccache_misses_r") + c("cmap_dirties") = c("capacity_misses")
    /\ c("compulsory_misses") + c("cmap_dirties") = c("cmap_misses")
    /\ c("capacity_misses") = c("ccache_dedup_misses") + c("ccache_nondedup_misses")
                           + c("cmap_dirties")
    /\ c("cmap_hits") = c("capacity_misses") - c("cmap_dirties") + c("ccache_hits_r")

\* main_sim_replay.c:1373, 1378-1379: whether a block is the leader of its
\* content is counted once by what the metadata say and once by what the
\* content cache says, and the two counts agree.
LeadersAccounted ==
  AtExit =>
    /\ c("cmap_hits") = c("ccache_dedup_hits") + c("ccache_nondedup_hits")
                     + c("ccache_dedup_misses") + c("ccache_nondedup_misses")
    /\ c("cmap_self_is_leader") = c("ccache_nondedup_hits") + c("ccache_nondedup_misses")
    /\ c("cmap_self_is_not_leader") = c("ccache_dedup_hits") + c("ccache_dedup_misses")

\* The assertions of sim_replay_exit on an I/O deduplication replay hold
\* whenever the trace ends, though each counter is kept by another file: the
\* sector cache, the content cache, the metadata and the disk.
AssertionsHold == ReadsAccounted /\ MetadataAccounted /\ LeadersAccounted

\* Reads and writes together: at the end of a trace no request was lost by a
\* counter or counted by two of those that divide it (main_sim_replay.c:1365-1379).
CountersBalance == AssertionsHold /\ WritesAccounted
=============================================================================
