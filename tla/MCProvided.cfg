SPECIFICATION ReplaySpec
CONSTANTS
  Blocks = {b1, b2, b3}
  a = a
  b = b
  Contents <- MCContents
  BlockSize <- MCBlockSize
  Letters <- MCLetters
  ChunksOf <- MCChunksOf
INVARIANTS
  ChunkMapsAgree
  ChunksFresh
  ProvidedAccounted
PROPERTIES
  StitchedImplementsDevice
SYMMETRY Symmetry
