SPECIFICATION Spec
CONSTANTS
  r1 = r1
  r2 = r2
  h1 = h1
  Requests = {r1}
  Shapes <- AllShapes
  Hashes = {h1}
  NoHash = NoHash
  Base = Base
  Versioned = Versioned
  PoolSets <- SomePools
  Answers <- ManyAnswers
  MaxUpdates = 1
INVARIANTS
  TypeOK
  CacheIsProven
  AttemptsFollowRules
  ReportMatchesResponse
  RetriesAreMade
CHECK_DEADLOCK FALSE
