SPECIFICATION FairSpecR
CONSTANTS
  Logs <- BranchedLogs
  Poison <- OldLast
  Deploy <- TransfersOnly
  BatchSize = 2
  DeployBlock = 1
  StartBlock <- Absent
  MaxBlock = 3
  MaxLag = 1
  MaxFaults = 2
INVARIANT GapOnlyWhereExposed
PROPERTY EveryBlockReached
