SPECIFICATION FairSpec
CONSTANTS
  w1 = w1
  w2 = w2
  w3 = w3
  i1 = i1
  i2 = i2
  Workers <- ThreeWorkers
  Ids <- TwoIds
  None = None
  MaxCalls = 4
INVARIANTS TypeOK CacheIsGuarded RightManager SettledIdsAreCached DuplicatesBounded
PROPERTIES CallsReturn
CHECK_DEADLOCK FALSE
