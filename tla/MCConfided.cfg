SPECIFICATION ReplaySpec
CONSTANTS
  Blocks = {b1, b2, b3}
  Keys = {k1, k2}
INVARIANTS
  FixedMapsAgree
  RedirectsFresh
  ConfidedAccounted
PROPERTIES
  RedirectedImplementsDevice
SYMMETRY Symmetry
