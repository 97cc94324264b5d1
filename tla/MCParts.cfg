SPECIFICATION PartsSpec
CONSTANTS
  Counters <- MCCounters
  Threads <- MCThreads
  MaxRequests = 3
  BunchIterations = 3
  EventIterations = 1
  naios = 3
  MaxAsyncRequests = 3
  MaxPackets = 4
  BlockSize = 13
  Contents <- MCContents
  NWINDOW = 5
  MinSegment = 6
  MaxSegment = 8
  ByteBits <- MCBits
  Word <- MCWord
  irrpoly <- MCPoly
  RabinMask <- MCMask
  RabinPrint <- MCPrint
  Blocks = {0, 1, 4}
  Keys = {1, 2, 3, 5}
  TableKeys = {1, 2, 3, 5}
  Data = {3, 4, 5}
  Buckets = {0, 1}
  HashValue <- DedupHash
  After <- DedupAfter
  InitialSize = 4
  WordRange = 65536
INVARIANTS
  WarmupApart
  IterationsWhole
  IocbsAccounted
  RollingPrint
  ChunksAsCut
  MetadataAgrees
  IdsAccountedFor
  ContainersFaithful
PROPERTIES
  DefaultEnds
  AsyncSubmitEnds
  ChunkingEnds
  ImplementsContentMap
\* An asynchronous replay that has ended has no step left.
CHECK_DEADLOCK FALSE
