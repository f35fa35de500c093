SPECIFICATION Spec
CONSTANTS
  h1 = h1
  h2 = h2
  d1 = d1
  Handlers = {h1, h2}
  Ids = {d1}
  HasValidator = TRUE
  HasElastic = TRUE
INVARIANTS TypeOK VerdictTrail DocumentsBacked RewardsBacked ChallengesMarked
PROPERTY RegistrationKept
