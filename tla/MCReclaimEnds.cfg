SPECIFICATION AsyncSpec
CONSTANTS
  Counters <- MCCounters
  Threads <- MCThreads
  naios = 2
  MaxAsyncRequests = 2
  MaxPackets = 2
PROPERTIES
  ReclaimEnds
\* A replay that has ended has no step left.
CHECK_DEADLOCK FALSE
