SPECIFICATION ServicesSpec
CONSTANTS
  c1 = c1
  c2 = c2
  c3 = c3
  c4 = c4
  \* RpcWindow
  Chains <- chains
  WindowRequests <- windowRequests
  Targets <- targets
  MaxBlockRange = 2
  LogBlockChunk = 2
  DaySeconds = 2
  \* EnsSlots
  EnsCallers = {c1, c2, c3, c4}
  Names = {"m", "n"}
  EnsMaxConcurrent = 2
  EnsMaxEntries = 1
  \* Faucet
  FaucetRequests = {c1, c2}
  Wallets = {"m", "n"}
  Ips = {"i", "j"}
  Cooldown = 2
  MaxTime = 2
  \* Settings
  AdminRequests = {c1, c2, c3}
  ParameterInputs <- parameterInputs
  OracleInputs <- oracleInputs
  \* MultiRpc
  RpcUrls = 3
  RpcBehaviours <- rpcBehaviours
  RpcMaxAttempts = 5
  MaxStrays = 8
  \* Backfill
  Runs = {c1, c2}
  ChainLogs <- chainLogs
  DeployBlock = 1
  UtilityBlocks <- utilityBlocks
  BackfillHeads = {2, 3}
  BatchSize = 2
  MaxFaults = 1
  \* Commentary
  Viewers = {c1, c2}
  Outputs <- outputs
  \* Usage
  UsageInputs <- usageInputs
  Transactions <- transactions
  MaxTransactions = 3
  WindowSeconds <- windowSeconds
  SecondsPerDay = 2
INVARIANTS
  ServicesTypeOK
  WindowExact
  SlotsExact
  NoUpdateLost
  ExhaustedByStraysOnly
  
  StoredOnce
  
  UsageOrderFree
  VerifiedNotSuspected
PROPERTIES
  
  MoreUseNeverHurts
  EveryQueryEnds
  EveryNameAnswered
