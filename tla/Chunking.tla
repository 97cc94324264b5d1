------------------------------- MODULE Chunking -------------------------------
(***************************************************************************)
(* How PROVIDED cuts a block into chunks: the Rabin fingerprint of a       *)
(* sliding window (provided/rabin.c) and the loop that splits a block at   *)
(* the boundaries found (resumeDynChunking and resumeChunking in           *)
(* provided/chunking.c, built with NONSPANNING_PROVIDE, on the buffers of  *)
(* utils/mbuffer.c).  Provided takes its result for granted: that the cut  *)
(* is a function of the content, and that the chunks tile the block.       *)
(*                                                                         *)
(* A fingerprint is a polynomial over GF(2) modulo an irreducible one; it  *)
(* is the set of the exponents of its terms, and so is a letter.  XOR is   *)
(* the symmetric difference, a shift adds to the exponents and drops those *)
(* that leave the word.                                                    *)
(*                                                                         *)
(* previ and prevh, which resume a print in the next block, are written    *)
(* and never read: no block has bytes left over from the one before.       *)
(***************************************************************************)
EXTENDS Integers, SequencesExt

CONSTANTS
  BlockSize,   \* BLKSIZE
  Contents,    \* contents of blocks, sequences of letters
  NWINDOW,     \* letters in the window
  MinSegment,  \* the least and the greatest length of a chunk
  MaxSegment,
  ByteBits,    \* bits of a letter, 8 in the code
  Word,        \* bits of a fingerprint, 32 in the code
  irrpoly,     \* the modulus without its leading term
  RabinMask,   \* the bits of a print that decide on a boundary
  RabinPrint   \* and their value

Letters == SUBSET (0..ByteBits - 1)

ASSUME RabinAssumption ==
  /\ \A n \in {BlockSize, NWINDOW, ByteBits, Word} : n \in Nat \ {0}
  /\ Contents \subseteq [1..BlockSize -> Letters]
  /\ Word % ByteBits = 0
  /\ NWINDOW > 4 /\ NWINDOW < MinSegment /\ MinSegment <= MaxSegment
  /\ 0 \in irrpoly
  /\ RabinPrint \subseteq RabinMask
  /\ irrpoly \cup RabinMask \subseteq 0..Word - 1

VARIABLES
  rabintab,     \* letter * t^Word, for each letter
  rabinwintab,  \* letter * t^(size of the window less one letter)
  stage,        \* where resumeChunking is, or "idle"
  block,        \* the block to be chunked
  chunk,        \* *cdp: what of it is still to be cut
  leftover,     \* *ldp: what is behind the chunk just split off
  i, h,         \* the letters of chunk in the print, and the print
  foundclen,    \* the length of the chunk found
  pieces,       \* the chunks of the block handed to processChunk
  lastOffset    \* iolastBlkOffsetminus1 of processChunk, kept between blocks

loopVars == <<stage, block, chunk, leftover, i, h, foundclen, pieces, lastOffset>>
chunkingVars == <<rabintab, rabinwintab, loopVars>>

-----------------------------------------------------------------------------
\* Arithmetic of words.
Xor(u, v) == (u \ v) \cup (v \ u)
Shl(u, n) == {e + n : e \in u} \cap 0..Word - 1
Shr(u, n) == {e - n : e \in {d \in u : d >= n}}

\* One step of fpreduce: the product with t, the leading term reduced.
TimesT(u) == IF Word - 1 \in u THEN Xor(Shl(u, 1), irrpoly) ELSE Shl(u, 1)

\* The product with t^n, step by step.
Times(u, n) ==
  LET after[m \in 0..n] == IF m = 0 THEN u ELSE TimesT(after[m - 1]) IN after[n]

\* fpreduce: the product with t^Word.
FpReduce(u) == Times(u, Word)

\* Faulty variant: the power is that of the whole window.
FpWinReduceWhole(x) ==
  LET power == ByteBits * NWINDOW
      after[n \in 0..power \div Word] ==
        IF n = 0 THEN Shl(x, power % Word) ELSE FpReduce(after[n - 1])
  IN  after[power \div Word]

\* fpwinreduce: a shift for what the power exceeds a multiple of Word, then a
\* reduction for each multiple.
FpWinReduce(x) ==
  LET power == ByteBits * (NWINDOW - 1)
      after[n \in 0..power \div Word] ==
        IF n = 0 THEN Shl(x, power % Word) ELSE FpReduce(after[n - 1])
  IN  after[power \div Word]

FpMkRedTab == [x \in Letters |-> FpReduce(x)]
FpMkWinRedTab == [x \in Letters |-> FpWinReduce(x)]

\* The print u with letter x behind it.
Roll(u, x) == Xor(Shl(u, ByteBits) \cup x, rabintab[Shr(u, Word - ByteBits)])

\* mbuffer_realloc and mbuffer_split: the first n letters of a buffer, and
\* the rest of it.
Kept(buf, n) == SubSeq(buf, 1, n)
SplitOff(buf, n) == SubSeq(buf, n + 1, Len(buf))

\* inc_blkoffset and dec_blkoffset
IncOffset(n) == (n + 1) % BlockSize
DecOffset(n) == (n - 1) % BlockSize

-----------------------------------------------------------------------------
ChunkingInit ==
  /\ rabintab = <<>> /\ rabinwintab = <<>>
  /\ stage = "start"
  /\ block = <<>> /\ chunk = <<>> /\ leftover = <<>> /\ pieces = <<>>
  /\ i = 0 /\ h = {} /\ foundclen = 0
  /\ lastOffset = BlockSize - 1

InitRabin ==
  /\ stage = "start"
  /\ rabintab' = FpMkRedTab
  /\ rabinwintab' = FpMkWinRedTab
  /\ stage' = "idle"
  /\ UNCHANGED <<block, chunk, leftover, i, h, foundclen, pieces, lastOffset>>

\* resumeDynChunking hands a copy of the block to resumeChunking, which
\* begins with no chunks.
ResumeDynChunking(k) ==
  /\ stage = "idle"
  /\ block' = k
  /\ pieces' = <<>>
  /\ stage' = "merge"
  /\ UNCHANGED <<rabintab, rabinwintab, chunk, leftover, i, h, foundclen, lastOffset>>

\* createInitialChunkBuf and mergeLeftovers: the buffer to be cut is what was
\* left over from before with the block behind it.
CreateInitialChunkBuf ==
  /\ stage = "merge"
  /\ chunk' = leftover \o block
  /\ leftover' = <<>>
  /\ stage' = "print"
  /\ UNCHANGED <<rabintab, rabinwintab, block, i, h, foundclen, pieces, lastOffset>>

\* buildInitialPrint: the print of the first n letters of a buffer.
InitialPrint(buf, n) ==
  LET print[j \in 0..n] == IF j = 0 THEN {} ELSE Roll(print[j - 1], buf[j])
  IN  print[n]

\* getFreshRabinOffset: the print of the first window, or of all there is
\* when it does not fill a window; then there is no boundary.
GetFreshRabinOffset ==
  /\ stage = "print"
  /\ i' = IF Len(chunk) < NWINDOW THEN Len(chunk) ELSE NWINDOW
  /\ h' = InitialPrint(chunk, i')
  /\ IF Len(chunk) < NWINDOW
     THEN foundclen' = Len(chunk) + 1 /\ stage' = "found"
     ELSE foundclen' = 0 /\ stage' = "resume"
  /\ UNCHANGED <<rabintab, rabinwintab, block, chunk, leftover, pieces, lastOffset>>

\* A chunk of n letters ends where the print is u.
IsBoundary(n, u) ==
  \/ n >= MaxSegment
  \/ n >= MinSegment /\ u \cap RabinMask = RabinPrint

\* The print without the letter that leaves the window and with the next.
Slide == Roll(IF i >= NWINDOW THEN Xor(h, rabinwintab[chunk[i - NWINDOW + 1]]) ELSE h,
              chunk[i + 1])

\* Faulty variant: the letter is not counted.
ResumePrintUncounted ==
  /\ stage = "resume"
  /\ i < Len(chunk)
  /\ h' = Slide
  /\ IF IsBoundary(i, h')
     THEN foundclen' = i /\ stage' = "found"
     ELSE UNCHANGED <<foundclen, stage>>
  /\ UNCHANGED <<rabintab, rabinwintab, block, chunk, leftover, i, pieces, lastOffset>>

\* resumePrintBuilding, one letter at a time
ResumePrint ==
  /\ stage = "resume"
  /\ i < Len(chunk)
  /\ h' = Slide
  /\ i' = i + 1
  /\ IF IsBoundary(i', h')
     THEN foundclen' = i' /\ stage' = "found"
     ELSE UNCHANGED <<foundclen, stage>>
  /\ UNCHANGED <<rabintab, rabinwintab, block, chunk, leftover, pieces, lastOffset>>

\* No boundary up to the end of the buffer.
EndPrint ==
  /\ stage = "resume"
  /\ i = Len(chunk)
  /\ foundclen' = Len(chunk) + 1
  /\ stage' = "found"
  /\ UNCHANGED <<rabintab, rabinwintab, block, chunk, leftover, i, h, pieces, lastOffset>>

\* A boundary inside the buffer: splitChunkBuffer keeps the chunk in one
\* buffer and puts the rest in another.
SplitChunkBuffer ==
  /\ stage = "found"
  /\ foundclen < Len(chunk)
  /\ chunk' = Kept(chunk, foundclen)
  /\ leftover' = SplitOff(chunk, foundclen)
  /\ stage' = "split"
  /\ UNCHANGED <<rabintab, rabinwintab, block, i, h, foundclen, pieces, lastOffset>>

\* Faulty variant: the offset of the next chunk ignores what is left over.
ProcessChunkOfBlock(c, left) ==
  /\ pieces' = Append(pieces, [offset |-> IncOffset(lastOffset), key |-> c])
  /\ lastOffset' = DecOffset(BlockSize)

\* processChunk notes the place of chunk c, and from what is left over behind
\* it the place of the next one.
ProcessChunk(c, left) ==
  /\ pieces' = Append(pieces, [offset |-> IncOffset(lastOffset), key |-> c])
  /\ lastOffset' = DecOffset(BlockSize - left)

\* The chunk is processed, and the loop goes on with what is left over.
NextChunk ==
  /\ stage = "split"
  /\ ProcessChunk(chunk, Len(leftover))
  /\ chunk' = leftover
  /\ leftover' = <<>>
  /\ stage' = "print"
  /\ UNCHANGED <<rabintab, rabinwintab, block, i, h, foundclen>>

\* The block ends without a boundary: what is left becomes a chunk ...
EndWithoutBoundary ==
  /\ stage = "found"
  /\ foundclen > Len(chunk)
  /\ ProcessChunk(chunk, 0)
  /\ chunk' = <<>>
  /\ leftover' = <<>>
  /\ stage' = "done"
  /\ UNCHANGED <<rabintab, rabinwintab, block, i, h, foundclen>>

\* ... or with one.
EndOnBoundary ==
  /\ stage = "found"
  /\ foundclen = Len(chunk)
  /\ ProcessChunk(chunk, 0)
  /\ chunk' = <<>>
  /\ leftover' = <<>>
  /\ stage' = "done"
  /\ UNCHANGED <<rabintab, rabinwintab, block, i, h, foundclen>>

\* updateBlock takes the list of the chunks.
UpdateBlock ==
  /\ stage = "done"
  /\ block' = <<>> /\ pieces' = <<>>
  /\ i' = 0 /\ h' = {} /\ foundclen' = 0
  /\ stage' = "idle"
  /\ UNCHANGED <<rabintab, rabinwintab, chunk, leftover, lastOffset>>

CutStep ==
  \/ CreateInitialChunkBuf \/ GetFreshRabinOffset \/ ResumePrint \/ EndPrint
  \/ SplitChunkBuffer \/ NextChunk \/ EndWithoutBoundary \/ EndOnBoundary \/ UpdateBlock

ChunkingNext == InitRabin \/ (\E k \in Contents : ResumeDynChunking(k)) \/ CutStep

\* The loop is run by one thread that nothing holds up.
ChunkingSpec ==
  ChunkingInit /\ [][ChunkingNext]_chunkingVars /\ WF_chunkingVars(CutStep)

-----------------------------------------------------------------------------
\* What a print is, from the letters alone: the remainder of the polynomial
\* whose coefficients are the bits of the letters.
Power == [n \in 0..ByteBits * NWINDOW |-> Times({0}, n)]
Terms(w) == UNION {{ByteBits * (Len(w) - j) + x : x \in w[j]} : j \in DOMAIN w}
PrintOf(w) ==
  {e \in 0..Word - 1 : Cardinality({n \in Terms(w) : e \in Power[n]}) % 2 = 1}
Window(c, n) == SubSeq(c, IF n > NWINDOW THEN n - NWINDOW + 1 ELSE 1, n)

\* And where a content is cut, from the prints of its windows: from letter s
\* on, at the first boundary behind a window, or at the end.
EndFrom(k, s) ==
  LET ends == {e \in s + NWINDOW + 1..BlockSize : IsBoundary(e - s, PrintOf(Window(k, e)))}
  IN  IF ends = {} THEN BlockSize ELSE CHOOSE e \in ends : \A d \in ends : e <= d
CutFrom(k) ==
  LET cut[s \in 0..BlockSize] ==
        LET e == EndFrom(k, s)
        IN  IF s = BlockSize THEN <<>>
            ELSE <<[offset |-> s, key |-> SubSeq(k, s + 1, e)]>> \o cut[e]
  IN  cut
CutOf(k) == CutFrom(k)[0]

\* The print that is slid along with two tables, one letter in and one out
\* (rabin.c:221-233), is at every letter the fingerprint of the letters in the
\* window and of no others.
RollingPrint == stage \in {"resume", "found"} => h = PrintOf(Window(chunk, i))

\* At every step the chunks handed on and the rest tile the block, each chunk
\* at the offset where it is: processChunk never gets an offset, but keeps in
\* a static variable what the chunk before, of this block or the last one,
\* left there.  At its end the block is cut where its content alone says.
End(p, j) == IF j = 0 THEN 0 ELSE p[j].offset + Len(p[j].key)
Tiling(p, k) ==
  \A j \in DOMAIN p :
    /\ p[j].offset = End(p, j - 1)
    /\ Len(p[j].key) > 0
    /\ p[j].key = SubSeq(k, End(p, j - 1) + 1, End(p, j))
ChunksAsCut ==
  /\ stage \notin {"start", "idle", "merge"} =>
       /\ Tiling(pieces, block)
       /\ chunk \o leftover = SubSeq(block, End(pieces, Len(pieces)) + 1, BlockSize)
  /\ stage = "done" => pieces = CutOf(block)

\* The loop of resumeChunking ends for every block: each turn that splits the
\* buffer leaves a shorter one (chunking.c:430-476).
ChunkingEnds == stage = "merge" ~> stage = "idle"
=============================================================================
