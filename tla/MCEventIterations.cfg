SPECIFICATION ThreadsSpec
CONSTANTS
  Counters <- MCCounters
  Threads <- MCThreads
  MaxRequests = 2
  BunchIterations = 2
  EventIterations = 2
INVARIANTS
  IterationsWhole
