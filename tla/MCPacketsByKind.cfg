SPECIFICATION ReplaySpec
CONSTANTS
  Blocks = {b1, b2}
  a = a
  b = b
  Contents <- MCContents
  BlockSize <- MCBlockSize
  Letters <- MCLetters
  ChunksOf <- MCChunksOf
INVARIANTS
  PacketsByKind
