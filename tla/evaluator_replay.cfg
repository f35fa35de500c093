SPECIFICATION Spec
CONSTANTS
  w1 = w1
  w2 = w2
  run = run
  evaluate = evaluate
  Requests = {run, evaluate}
  Wallets = {w1}
  Batches <- MCSingles
  Logs <- MCLogs
  Sources = {"rpc"}
  Concurrency = 2
  TTL = 1
  FirstHead = 0
  MaxBlock = 1
  MaxLag = 0
INVARIANT Replayable
