SPECIFICATION StatsSpec
CONSTANTS
  Blocks = {b1, b2, b3}
  Keys = {k1, k2}
INVARIANTS
  CachesFresh
  MappingFresh
  LeadersAgree
  CountersBalance
PROPERTIES
  ImplementsDevice
SYMMETRY Symmetry
