SPECIFICATION FairSpec
CONSTANTS
  Ids <- TwoIds
  NULL = NULL
  LeftIds = {1}
  MaxOps = 1
  OpTimeout = 0
INVARIANT OkFromLivingNode
PROPERTIES
  RequestsEnd
  DeathsAreNoticed
CHECK_DEADLOCK FALSE
