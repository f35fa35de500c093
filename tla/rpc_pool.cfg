SPECIFICATION FairSpec
CONSTANTS
  c1 = c1
  c2 = c2
  Callers = {c1, c2}
  N = 3
  Attempts = 2
  MaxConcurrent = 2
  Behaviours <- SomeFail
  MaxAbandoned = 2
INVARIANTS TypeOK OneBadEndpointTolerated
PROPERTIES PoolSettles EveryCallEnds
