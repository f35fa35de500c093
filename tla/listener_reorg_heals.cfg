SPECIFICATION FairSpecR
CONSTANTS
  Logs <- BranchedLogs
  Poison <- NoLogs
  Deploy <- TransfersOnly
  BatchSize = 2
  DeployBlock = 1
  StartBlock <- Absent
  MaxBlock = 3
  MaxLag = 0
  MaxFaults = 0
PROPERTY ReorgHeals
