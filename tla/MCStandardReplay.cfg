SPECIFICATION MCSpec
CONSTANTS
  Contents = {zero, x, y}
  Cf = cf
  Values = {zero, x, y, cf}
  Zero = zero
  MaxCacheCount = 1
  Word <- MCWord
  Blocks <- MCBlocks
  Places <- MCPlaces
  Rows <- MCRows
  Records <- MCRecords
  TableKeys <- MCTableKeys
  Data <- Nat
  Buckets = {0, 1}
  HashValue <- MCBlkidhash
  After <- BlkidAfter
  Wrap = 134217728
SYMMETRY MCContentSymmetry
INVARIANTS
  DiskSearched
  OverlapsReported
PROPERTIES
  VanillaImplementsDevice
CHECK_DEADLOCK FALSE
