SPECIFICATION FairSpec
CONSTANTS
  api = api
  worker = worker
  Listeners = {api, worker}
  Deployments <- SafeDeployments
  Logs <- TheLogs
  FirstHead = 3
  MaxBlock = 4
  MaxLag = 1
  MaxFaults = 2
INVARIANTS TypeOK NoGap
PROPERTIES EveryBlockReached ImplementsSharedLedger
CHECK_DEADLOCK FALSE
