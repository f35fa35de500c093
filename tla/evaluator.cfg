SPECIFICATION FairSpec
CONSTANTS
  w1 = w1
  w2 = w2
  run = run
  evaluate = evaluate
  Requests = {run, evaluate}
  Wallets = {w1, w2}
  Batches <- MCBatches
  Logs <- MCLogs
  Sources = {"db", "rpc"}
  Concurrency = 2
  TTL = 2
  FirstHead = 0
  MaxBlock = 1
  MaxLag = 0
INVARIANTS
  TypeOK
  EveryWalletOnce
  OneLifetimeAtMost
  NothingAfterTheBlock
PROPERTY
  EveryRequestEnds
