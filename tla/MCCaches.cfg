SPECIFICATION CachesSpec
CONSTANTS
  Keys = {k1, k2, k3, k4, k5, k6}
  IoBlocks = {b1, b2}
  ObjectSize = 2
  Capacity = 5
  IntLimit = 8
  Blocks = {s1, s2, s3, s4}
  Values = {v1, v2}
  MaxCacheCount = 3
INVARIANTS
  ContentBounded
  BalanceIsLoops
  HoldsMostRecent
PROPERTIES
  EvictsLeastRecent
  ImplementsStore
  LruImplementsStore
SYMMETRY Symmetry
