SPECIFICATION Spec
CONSTANTS
  Logs <- PlainLogs
  Poison <- NoLogs
  Deploy <- StakingFromTwo
  BatchSize = 2
  DeployBlock = 1
  StartBlock <- Absent
  MaxBlock = 3
  MaxLag = 0
  MaxFaults = 2
PROPERTY DatesKept
