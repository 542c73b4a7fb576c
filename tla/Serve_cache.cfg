SPECIFICATION FairSpec
CONSTANTS
  r1 = r1
  r2 = r2
  h1 = h1
  Requests = {r1, r2}
  Shapes <- HashShapes
  Hashes = {h1}
  NoHash = NoHash
  Base = Base
  Versioned = Versioned
  PoolSets <- FewPools
  Answers <- FewAnswers
  MaxUpdates = 1
INVARIANTS
  CacheIsProven
PROPERTIES
  CacheNeverRefuses
  Completes
CHECK_DEADLOCK FALSE
