SPECIFICATION ProgramSpec
CONSTANTS
  CommandLines <- MCCommandLines
  DefaultRAM = 3
  DefaultCCACHE = 1
  WordMB = 8
  BlocksPerMB = 2
  BlockBytes = 2
  Traces <- MCTraces
  Warmups <- MCWarmups
  Vms = {"a", "b"}
  HeaderCells = 2
  BodyCells = 2
  RestCells = 1
  TrailerCells = 3
  Times <- MCTimes
  MaxPkts = 2
  MaxTm = 2
  BtMaxPkts = 3
INVARIANT RecoveredOnly
\* The program has ended.
CHECK_DEADLOCK FALSE
