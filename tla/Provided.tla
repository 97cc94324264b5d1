------------------------------- MODULE Provided -------------------------------
(***************************************************************************)
(* The metadata of PROVIDED, built with NONSPANNING_PROVIDE: the block map *)
(* with the chunks of each block (provided/v2c-map.c), the map of chunks   *)
(* with the places that hold each (provided/c2pv-map.c), the hash table    *)
(* that finds a chunk by its key (provided/chunktab.c), the marking of one *)
(* place of each chunk as the one to fetch, and the recycling of           *)
(* identifiers (provided/serveio.c, provided/chunking.c).                  *)
(*                                                                         *)
(* It does for pieces of blocks what Confided does for blocks.  No chunk   *)
(* spans two blocks, but a block may hold the same chunk twice, and then   *)
(* appears twice in the chunk's list.  Maps are built while replaying, and *)
(* blocks of zeroes do not come here (convert_spec_to_bunch removes them   *)
(* from the trace).                                                        *)
(*                                                                         *)
(* A content is a sequence of letters.  The chunker cuts it by its letters *)
(* alone, into chunks that follow one another from the first letter to the *)
(* last (Chunking shows it of the Rabin chunker).  The key of a chunk, a   *)
(* hash, is the chunk itself.                                              *)
(***************************************************************************)
EXTENDS Integers, SequencesExt

CONSTANTS
  Blocks,     \* virtual blocks, each a volume and a block number
  Letters,    \* what contents are made of
  Contents,   \* contents of blocks, all of the length BlockSize
  BlockSize,  \* BLKSIZE
  ChunksOf    \* the chunks of each content, with their offsets in it

\* Where chunk j ends, and whether chunks tile content k.
End(chunks, j) == IF j = 0 THEN 0 ELSE chunks[j].offset + Len(chunks[j].key)
Tiles(chunks, k) ==
  /\ chunks \in Seq([offset : 0..BlockSize - 1, key : Seq(Letters)])
  /\ \A j \in DOMAIN chunks :
       /\ chunks[j].offset = End(chunks, j - 1)
       /\ Len(chunks[j].key) > 0
       /\ chunks[j].key = SubSeq(k, End(chunks, j - 1) + 1, End(chunks, j))
  /\ End(chunks, Len(chunks)) = BlockSize

ASSUME ChunkAssumption ==
  /\ BlockSize \in Nat \ {0}
  /\ Contents \subseteq [1..BlockSize -> Letters]
  /\ \A k \in Contents : Tiles(ChunksOf[k], k)

VARIABLES
  v2c,        \* the entries of v2cmaps: chunkIDUList and cdirty of a block
  chunkmap,   \* chunkmap_by_cid: chashkey and c2vmaps of a chunk, latest first
  chunktab,   \* the identifier of the chunk of each key in the table
  reusable,   \* currReusableChunkIDUList
  chunkNum    \* the last identifier that was new

chunkVars == <<v2c, chunkmap, chunktab, reusable, chunkNum>>

Only(f, S) == [x \in S |-> f[x]]
With(f, x, v) == [y \in DOMAIN f \cup {x} |-> IF y = x THEN v ELSE f[y]]

Mapped(b) == b \in DOMAIN v2c
Clean(b) == Mapped(b) /\ ~v2c[b].cdirty
Dirty(b) == Mapped(b) /\ v2c[b].cdirty

\* Places in a list of C2V tuples.
First(P) == CHOOSE i \in P : \A j \in P : i <= j
Marked(c2v) == {i \in DOMAIN c2v : c2v[i].dedupfetch}
PlacesOf(c2v, b) == {i \in DOMAIN c2v : c2v[i].blockID = b}

Tuple(b, offset) == [blockID |-> b, offset |-> offset, dedupfetch |-> TRUE]
SetMark(c2v, i, mark) == [c2v EXCEPT ![i].dedupfetch = mark]

\* get_deduped_c2v: the place to fetch chunk c from.
Leader(c) == LET c2v == chunkmap[c].c2vmaps IN c2v[First(Marked(c2v))]

\* How many letters the first n chunks of a list have.
LettersIn(ids) ==
  LET sum[n \in 0..Len(ids)] ==
        IF n = 0 THEN 0 ELSE sum[n - 1] + Len(chunkmap[ids[n]].chashkey)
  IN  sum

\* The chunks, with what find and number them: what the steps of one call
\* hand on to each other.
Tables == [map |-> chunkmap, tab |-> chunktab, reusable |-> reusable, num |-> chunkNum]
SetTables(s) ==
  /\ chunkmap' = s.map
  /\ chunktab' = s.tab
  /\ reusable' = s.reusable
  /\ chunkNum' = s.num

-----------------------------------------------------------------------------
\* ID 0 is that of zero chunks and ID 1 is DUMMY_ID.
ChunkInit ==
  /\ v2c = [b \in {} |-> b]
  /\ chunkmap = [c \in {} |-> c]
  /\ chunktab = [k \in {} |-> k]
  /\ reusable = <<>>
  /\ chunkNum = 2

\* unmark_old_dedupfetch
Unmark(c2v) == SetMark(c2v, First(Marked(c2v)), FALSE)

\* mark_another_dedupfetch: the first tuple that is not marked gets the mark.
MarkAnother(c2v) == SetMark(c2v, First(DOMAIN c2v \ Marked(c2v)), TRUE)

\* Faulty variant: the mark is lost with the tuple that has it.
DelC2VUnmarked(c2v, b) == RemoveAt(c2v, First(PlacesOf(c2v, b)))

\* del_c2v_from_c2vmaps, on a list of several tuples
DelC2V(c2v, b) ==
  LET i == First(PlacesOf(c2v, b))
  IN  RemoveAt(IF c2v[i].dedupfetch THEN MarkAnother(c2v) ELSE c2v, i)

\* recyclechunkID, then add_new_to_old_recyclelist
RecycleChunkID(s, c, b) ==
  IF Len(s.map[c].c2vmaps) > 1
  THEN [s EXCEPT !.map[c].c2vmaps = DelC2V(@, b)]
  ELSE [s EXCEPT !.map = Only(@, DOMAIN @ \ {c}),
                 !.tab = Only(@, DOMAIN @ \ {s.map[c].chashkey}),
                 !.reusable = Append(@, c)]

\* mappingTrimScan, for the one block of a request (provideWriteRequest
\* asserts that a request to a simulated disk has one).
TrimUnmapped(b) ==
  /\ ~Mapped(b)
  /\ v2c' = With(v2c, b, [chunkIDUList |-> <<>>, cdirty |-> TRUE])
  /\ UNCHANGED <<chunkmap, chunktab, reusable, chunkNum>>

TrimDirty(b) == Dirty(b) /\ UNCHANGED chunkVars

\* resetMappings pops every chunk of the block's list and recycles it.
ResetMappings(ids, b) ==
  LET after[n \in 0..Len(ids)] ==
        IF n = 0 THEN Tables ELSE RecycleChunkID(after[n - 1], ids[n], b)
  IN  after[Len(ids)]

TrimClean(b) ==
  /\ Clean(b)
  /\ v2c' = [v2c EXCEPT ![b] = [chunkIDUList |-> <<>>, cdirty |-> TRUE]]
  /\ SetTables(ResetMappings(v2c[b].chunkIDUList, b))

Trim(b) == TrimUnmapped(b) \/ TrimDirty(b) \/ TrimClean(b)

\* getNextChunkNum(NOINIT_STAGE)
NextChunkNum(s) == IF s.reusable = <<>> THEN s.num + 1 ELSE Head(s.reusable)
TakeChunkNum(s) == IF s.reusable = <<>> THEN [s EXCEPT !.num = @ + 1]
                   ELSE [s EXCEPT !.reusable = Tail(@)]

\* processChunk: a chunk that is known gets a tuple, which takes the mark
\* over; one that is not comes into the table.
ProcessChunk(s, chunk, b) ==
  LET tuple == Tuple(b, chunk.offset) IN
  IF chunk.key \in DOMAIN s.tab
  THEN [s EXCEPT !.map[s.tab[chunk.key]].c2vmaps = <<tuple>> \o Unmark(@)]
  ELSE [TakeChunkNum(s) EXCEPT
          !.map = With(@, NextChunkNum(s),
                       [chashkey |-> chunk.key, c2vmaps |-> <<tuple>>]),
          !.tab = With(@, chunk.key, NextChunkNum(s))]

\* resumeChunking, one chunk after the other
ResumeChunking(chunks, b) ==
  LET after[n \in 0..Len(chunks)] ==
        IF n = 0 THEN Tables ELSE ProcessChunk(after[n - 1], chunks[n], b)
  IN  after[Len(chunks)]

\* A block that has no clean mapping is chunked; then updateBlock, whose new
\* list names the chunks by the identifiers they have now.
Learn(b, k) ==
  /\ ~Clean(b)
  /\ LET s == ResumeChunking(ChunksOf[k], b)
     IN  /\ SetTables(s)
         /\ v2c' = With(v2c, b,
                     [chunkIDUList |-> [j \in DOMAIN ChunksOf[k] |-> s.tab[ChunksOf[k][j].key]],
                      cdirty |-> FALSE])

\* updateDedupfetch: block b becomes the one to fetch each of its chunks from.
TakeLead(s, c, b) ==
  LET c2v == s.map[c].c2vmaps
      i == First(PlacesOf(c2v, b))
  IN  IF c2v[i].dedupfetch THEN s
      ELSE [s EXCEPT !.map[c].c2vmaps = SetMark(Unmark(@), i, TRUE)]

TakeLeads(ids, b) ==
  LET after[n \in 0..Len(ids)] ==
        IF n = 0 THEN Tables ELSE TakeLead(after[n - 1], ids[n], b)
  IN  after[Len(ids)]

UpdateDedupfetch(b) ==
  /\ Clean(b)
  /\ SetTables(TakeLeads(v2c[b].chunkIDUList, b))
  /\ UNCHANGED v2c

-----------------------------------------------------------------------------
Ids == DOMAIN chunkmap

\* The type invariant.
ChunkTypeOK ==
  /\ chunkNum \in Nat
  /\ DOMAIN v2c \subseteq Blocks
  /\ v2c \in [DOMAIN v2c -> [chunkIDUList : Seq(Nat), cdirty : BOOLEAN]]
  /\ Ids \subseteq Nat
  /\ \A c \in Ids :
       chunkmap[c].c2vmaps \in
         Seq([blockID : Blocks, offset : 0..BlockSize - 1, dedupfetch : BOOLEAN])
  /\ chunktab \in [DOMAIN chunktab -> Nat]
  /\ reusable \in Seq(Nat)

\* Each chunk has exactly one place marked as the one to fetch
\* (unmark_old_dedupfetch and get_deduped_c2v fail on a chunk without).
OneLeader == \A c \in Ids : Cardinality(Marked(chunkmap[c].c2vmaps)) = 1

\* The lists of the clean blocks and those of the chunks are the inverse of
\* each other, a chunk that a block has twice included.
ListsAgree ==
  /\ \A b \in DOMAIN v2c :
       /\ Dirty(b) => v2c[b].chunkIDUList = <<>>
       /\ \A j \in DOMAIN v2c[b].chunkIDUList :
            LET c == v2c[b].chunkIDUList[j]
            IN  /\ c \in Ids
                /\ \E p \in PlacesOf(chunkmap[c].c2vmaps, b) :
                     chunkmap[c].c2vmaps[p].offset = LettersIn(v2c[b].chunkIDUList)[j - 1]
  /\ \A c \in Ids : \A b \in Blocks :
       Cardinality(PlacesOf(chunkmap[c].c2vmaps, b)) =
         IF Clean(b) THEN Cardinality({j \in DOMAIN v2c[b].chunkIDUList :
                                         v2c[b].chunkIDUList[j] = c})
         ELSE 0

\* The hash table finds every chunk by its key, and nothing else; and an
\* identifier given out is in use or waits to be used again.
TableAgrees ==
  /\ \A c \in Ids : /\ chunkmap[c].chashkey \in DOMAIN chunktab
                    /\ chunktab[chunkmap[c].chashkey] = c
  /\ \A k \in DOMAIN chunktab : chunktab[k] \in Ids
IdsAccounted ==
  /\ Range(reusable) \cap Ids = {}
  /\ Range(reusable) \cup Ids = 3..chunkNum
  /\ Len(reusable) + Cardinality(Ids) = chunkNum - 2

\* Block map, chunk map, hash table, marks and recycled identifiers agree
\* whatever was chunked and trimmed: updateDedupfetch, get_partvblk and
\* recyclechunkID find each chunk, and in its list the block, that they come
\* from ("not found", chunking.c:157), though blocks with repeated chunks are
\* popped chunk by chunk.
ChunkMapsAgree == ChunkTypeOK /\ OneLeader /\ ListsAgree /\ TableAgrees /\ IdsAccounted
=============================================================================
