SPECIFICATION Spec
CONSTANTS
  api = api
  worker = worker
  Listeners = {api, worker}
  Deployments <- TwoFromHead
  Logs <- TheLogs
  FirstHead = 3
  MaxBlock = 4
  MaxLag = 0
  MaxFaults = 1
INVARIANT NothingStranded
CHECK_DEADLOCK FALSE
