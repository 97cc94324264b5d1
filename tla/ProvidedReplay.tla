---------------------------- MODULE ProvidedReplay ----------------------------
(***************************************************************************)
(* The replay of block requests in PROVIDED mode on a simulated disk:      *)
(* sim_map_n_process_bunch with preplayflag, for a program built with      *)
(* NONSPANNING_PROVIDE and without METADATAUPDATE_UPON_WRITES, and a trace *)
(* whose reads and writes are both enabled.                                *)
(*                                                                         *)
(* A read of a block with a clean mapping becomes a list of pieces, each a *)
(* part of the block that is the one to fetch a chunk from.  The pieces    *)
(* take the path through sector cache, disk, metadata update and sector    *)
(* cache one after the other, and preplay_stitch puts the block together.  *)
(* Any other read fetches the block itself and learns its chunks.  A write *)
(* invalidates the mapping, fills the sector cache and goes to the disk.   *)
(*                                                                         *)
(* "counted" is the bag of the counters that the request in progress has   *)
(* incremented.  The assertions of sim_replay_exit are linear equations    *)
(* between the counters, so they hold of the totals if each request keeps  *)
(* the balance.                                                            *)
(***************************************************************************)
EXTENDS Provided, Bags

VARIABLES
  disk,      \* the simulated disk: the content of each block it has
  sector,    \* the sector cache: the content of each block in it
  warmup,    \* warmupflag
  stage,     \* the next step of the request in progress, or "idle"
  req,       \* the request: rw, block, content, vmaphit_flag and vmapdirty_flag
  pieces,    \* preql: ioblk, start, end and content of what is to be fetched
  at,        \* vop_iter: the piece in progress
  reply,     \* the last read answered and its content
  counted    \* the counters that the request has incremented

requestVars == <<stage, req, pieces, at, reply, counted>>
replayVars == <<chunkVars, disk, sector, warmup, requestVars>>

Sector == INSTANCE Store WITH
  Names <- Blocks, Values <- Contents, Updatable <- TRUE, store <- sector

b0 == req.block      \* the block and the content of the request
k0 == req.content
p0 == pieces[at]     \* the piece in progress

Also(B) == counted' = counted (+) B
Count(S) == IF warmup THEN UNCHANGED counted ELSE Also(SetToBag(S))

ReplayInit ==
  /\ ChunkInit
  /\ disk = [b \in {} |-> b]
  /\ Sector!StoreInit
  /\ warmup \in BOOLEAN
  /\ stage = "idle"
  /\ req = [rw |-> "none"]
  /\ pieces = <<>> /\ at = 0
  /\ reply = <<>>
  /\ counted = EmptyBag

-----------------------------------------------------------------------------
\* A request is taken up, its content checked against the disk
\* (disk_read_checkconsistency) or brought to it; the flags are reset.
TakeUp(rw, b, k) ==
  /\ stage = "idle"
  /\ req' = [rw |-> rw, block |-> b, content |-> k, hit |-> FALSE, dirty |-> FALSE]
  /\ counted' = EmptyBag
  /\ UNCHANGED <<chunkVars, sector, warmup, pieces, at, reply>>

StartRead(b, k) ==
  /\ b \in DOMAIN disk => k = disk[b]
  /\ TakeUp("read", b, k)
  /\ stage' = "map"
  /\ disk' = With(disk, b, k)

StartWrite(b, k) ==
  /\ TakeUp("write", b, k)
  /\ stage' = "trim"
  /\ UNCHANGED disk

Piece(b, start, end, k) == [ioblk |-> b, start |-> start, end |-> end, content |-> k]

\* Faulty variant: the part is taken from the start of the block.
AddFromStart(list, place, n) ==
  IF /\ list # <<>>
     /\ Last(list).ioblk = place.blockID
     /\ Last(list).end + 1 = place.offset
  THEN [list EXCEPT ![Len(list)].end = @ + n]
  ELSE Append(list, Piece(place.blockID, 0, n - 1, disk[place.blockID]))

\* get_partchunk: the n letters at a place, which may continue the last piece.
AddPiece(list, place, n) ==
  IF /\ list # <<>>
     /\ Last(list).ioblk = place.blockID
     /\ Last(list).end + 1 = place.offset
  THEN [list EXCEPT ![Len(list)].end = @ + n]
  ELSE Append(list, Piece(place.blockID, place.offset, place.offset + n - 1,
                          disk[place.blockID]))

\* get_partvblk, chunk by chunk: of the last, what is left of the block.
PartOf(ids, j) ==
  IF j = Len(ids) THEN BlockSize - LettersIn(ids)[j - 1]
  ELSE Len(chunkmap[ids[j]].chashkey)
PiecesOf(ids) ==
  LET list[n \in 0..Len(ids)] ==
        IF n = 0 THEN <<>> ELSE AddPiece(list[n - 1], Leader(ids[n]), PartOf(ids, n))
  IN  list[Len(ids)]

\* The counters of n packets for the metadata's part of a read; those of the
\* fetches of each kind are not kept out of the warm-up.
CountPackets(S, kind, n) ==
  LET times(name) == [x \in {name} |-> n]
  IN  Also(times(kind) (+)
             IF warmup THEN EmptyBag
             ELSE SetToBag(S \cup {"ptotalreq", "ptotalreadreq", "porigblkread"})
                  (+) times("ptotalblk") (+) times("ptotalblkread"))

\* provideReadRequest: a block with a clean mapping is put together from the
\* pieces where its chunks are to be fetched ...
Redirect ==
  /\ stage = "map"
  /\ Clean(b0)
  /\ pieces' = PiecesOf(v2c[b0].chunkIDUList)
  /\ at' = 1
  /\ req' = [req EXCEPT !.hit = TRUE]
  /\ CountPackets({"vmap_hits"}, "pro_blkread", Len(pieces'))
  /\ stage' = "find"
  /\ UNCHANGED <<chunkVars, disk, sector, warmup, reply>>

\* Faulty variant: the read of a dirty block is not counted as dirty.
FallBackUncounted ==
  /\ stage = "map"
  /\ ~Clean(b0)
  /\ pieces' = <<Piece(b0, 0, BlockSize - 1, k0)>>
  /\ at' = 1
  /\ req' = [req EXCEPT !.dirty = Dirty(b0)]
  /\ CountPackets({"vmap_misses"}, "pro_fallback_blkread", 1)
  /\ stage' = "find"
  /\ UNCHANGED <<chunkVars, disk, sector, warmup, reply>>

\* ... and the others are read themselves.
FallBack ==
  /\ stage = "map"
  /\ ~Clean(b0)
  /\ pieces' = <<Piece(b0, 0, BlockSize - 1, k0)>>
  /\ at' = 1
  /\ req' = [req EXCEPT !.dirty = Dirty(b0)]
  /\ CountPackets({"vmap_misses"} \cup (IF Dirty(b0) THEN {"vmap_dirties"} ELSE {}),
                  "pro_fallback_blkread", 1)
  /\ stage' = "find"
  /\ UNCHANGED <<chunkVars, disk, sector, warmup, reply>>

\* find_in_sectorcache, and the classification that follows it
FindInSector ==
  /\ stage = "find"
  /\ p0.ioblk \in DOMAIN sector
  /\ stage' = "update"
  /\ Count({"bcache_hits_r"} \cup
           (IF req.hit THEN {}
            ELSE {"vmapmiss_cachehits"} \cup
                 (IF req.dirty THEN {"vmapdirty_cachehits"} ELSE {})))
  /\ UNCHANGED <<chunkVars, disk, sector, warmup, req, pieces, at, reply>>

\* A miss, and preql_map and sim_replay, which leave the content as it is.
MissInSector ==
  /\ stage = "find"
  /\ p0.ioblk \notin DOMAIN sector
  /\ stage' = "update"
  /\ Count({"bcache_misses_r", "disk_hits_r",
            IF req.hit \/ req.dirty THEN "capacity_misses" ELSE "compulsory_misses"}
           \cup (IF req.hit THEN {} ELSE {"vmapmiss_cachemisses"}))
  /\ UNCHANGED <<chunkVars, disk, sector, warmup, req, pieces, at, reply>>

\* p_mapupdate: the block fetched leads its chunks from now on, or the block
\* read is chunked.
UpdateMap ==
  /\ stage = "update"
  /\ IF req.hit THEN UpdateDedupfetch(p0.ioblk) ELSE Learn(b0, p0.content)
  /\ stage' = "fill"
  /\ UNCHANGED <<disk, sector, warmup, req, pieces, at, reply, counted>>

\* overwrite_in_sectorcache: nothing in the warm-up.
PutUnder(b, k) == IF warmup THEN UNCHANGED sector ELSE Sector!Put(b, k)

\* A piece that was found is not put again.
FillSector ==
  /\ stage = "fill"
  /\ IF p0.ioblk \in DOMAIN sector THEN UNCHANGED sector
     ELSE PutUnder(p0.ioblk, p0.content)
  /\ IF at < Len(pieces)
     THEN at' = at + 1 /\ stage' = "find"
     ELSE UNCHANGED at /\ stage' = "stitch"
  /\ UNCHANGED <<chunkVars, disk, warmup, req, pieces, reply, counted>>

\* preplay_stitch, which asserts that the result is what the trace has.
Stitched == FlattenSeq([i \in DOMAIN pieces |->
              SubSeq(pieces[i].content, pieces[i].start + 1, pieces[i].end + 1)])

Stitch ==
  /\ stage = "stitch"
  /\ reply' = <<b0, Stitched>>
  /\ stage' = "idle"
  /\ pieces' = <<>> /\ at' = 0
  /\ UNCHANGED <<chunkVars, disk, sector, warmup, req, counted>>

CountWrite == Count({"ptotalreq", "ptotalwritereq", "ptotalblk", "ptotalblkwrite",
                     "porigblkwrite"})

\* Faulty variant: the mapping of the block is not invalidated.
TrimNothing ==
  /\ stage = "trim"
  /\ CountWrite
  /\ stage' = "cache"
  /\ UNCHANGED <<chunkVars, disk, sector, warmup, req, pieces, at, reply>>

\* provideWriteRequest
TrimMap ==
  /\ stage = "trim"
  /\ Trim(b0)
  /\ CountWrite
  /\ stage' = "cache"
  /\ UNCHANGED <<disk, sector, warmup, req, pieces, at, reply>>

WriteSector ==
  /\ stage = "cache"
  /\ PutUnder(b0, k0)
  /\ stage' = "store"
  /\ UNCHANGED <<chunkVars, disk, warmup, req, pieces, at, reply, counted>>

\* preql_map, sim_replay and disk_write_trap
WriteDisk ==
  /\ stage = "store"
  /\ disk' = With(disk, b0, k0)
  /\ stage' = "idle"
  /\ UNCHANGED <<chunkVars, sector, warmup, req, pieces, at, reply, counted>>

\* The warm-up trace is at its end (tip_init).
EndWarmup ==
  /\ warmup
  /\ stage = "idle"
  /\ warmup' = FALSE
  /\ counted' = EmptyBag
  /\ UNCHANGED <<chunkVars, disk, sector, stage, req, pieces, at, reply>>

\* preplay_map, by the kind of the request; then the caches and the disk.
PreplayMap == Redirect \/ FallBack \/ TrimMap
ReadStep == FindInSector \/ MissInSector \/ UpdateMap \/ FillSector \/ Stitch
WriteStep == WriteSector \/ WriteDisk

ReplayNext ==
  \/ \E b \in Blocks, k \in Contents : StartRead(b, k) \/ StartWrite(b, k)
  \/ PreplayMap
  \/ ReadStep
  \/ WriteStep
  \/ EndWarmup

ReplaySpec == ReplayInit /\ [][ReplayNext]_replayVars

-----------------------------------------------------------------------------
\* Every place that a chunk is listed with holds the chunk's letters on the
\* disk, so that any of them may be fetched for any other; and the sector
\* cache, though filled under the numbers of other blocks than those asked
\* for, has no outdated content but that of a write under way
\* (sectorcache_lookup asserts that what it found is what it looked for,
\* sectorcache.c:200-206).
Writing(b) == stage = "store" /\ b = b0
PlacesFresh ==
  \A c \in Ids : \A p \in DOMAIN chunkmap[c].c2vmaps :
    LET place == chunkmap[c].c2vmaps[p]
        key == chunkmap[c].chashkey
    IN  /\ place.blockID \in DOMAIN disk
        /\ SubSeq(disk[place.blockID], place.offset + 1, place.offset + Len(key)) = key
SectorFresh ==
  \A b \in DOMAIN sector : IF Writing(b) THEN sector[b] = k0
                           ELSE b \in DOMAIN disk /\ sector[b] = disk[b]
PiecesFresh ==
  \A i \in DOMAIN pieces : pieces[i].content = disk[pieces[i].ioblk]
ChunksFresh == PlacesFresh /\ SectorFresh /\ PiecesFresh

\* sim_replay_exit (main_sim_replay.c:1352, 1355-1360, 1610, 1611, 1614): the
\* packets of the reads are accounted for by the cache as by the metadata,
\* however many pieces a block was put together from.
c(name) == IF BagIn(name, counted) THEN counted[name] ELSE 0
ProvidedAccounted ==
  stage = "idle" =>
    /\ c("ptotalblkread") = c("compulsory_misses") + c("bcache_hits_r") + c("capacity_misses")
    /\ c("bcache_misses_r") = c("compulsory_misses") + c("capacity_misses")
    /\ c("compulsory_misses") = c("vmap_misses") - c("vmap_dirties")
                                - c("vmapmiss_cachehits") + c("vmapdirty_cachehits")
    /\ c("vmap_hits") + c("ptotalblkread") - c("ptotalreadreq") =
         c("capacity_misses") - (c("vmap_dirties") - c("vmapdirty_cachehits"))
           + c("bcache_hits_r") - c("vmapmiss_cachehits")
    /\ c("ptotalreadreq") + c("ptotalwritereq") = c("ptotalreq")
    /\ c("ptotalblkread") + c("ptotalblkwrite") = c("ptotalblk")
    /\ c("porigblkwrite") = c("ptotalblkwrite")

\* "pro_blkread + fallback_blkread + chunking_blkread == totalblkread"
\* (serveio.c:72, asserted at main_sim_replay.c:1612): each packet of a read
\* is counted once by its kind.
PacketsByKind ==
  stage = "idle" => c("pro_blkread") + c("pro_fallback_blkread") = c("ptotalblkread")

\* Whatever blocks its pieces come from, a read is answered as by a plain
\* device.
Device == INSTANCE BlockDevice WITH
  media <- disk, answer <- reply
StitchedImplementsDevice == Device!DeviceSpec
=============================================================================
