SPECIFICATION Spec
CONSTANTS
  Logs <- PlainLogs
  Poison <- LastLogs
  Deploy <- StakingFromTwo
  BatchSize = 2
  DeployBlock = 1
  StartBlock = 0
  MaxBlock = 3
  MaxLag = 1
  MaxFaults = 3
INVARIANTS TypeOK NoGap NeverPastHead
PROPERTIES CursorMonotone ImplementsLedger
