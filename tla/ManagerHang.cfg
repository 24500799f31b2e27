SPECIFICATION FairSpec
CONSTANTS
  Ids <- TwoIds
  NULL = NULL
  LeftIds = {}
  MaxOps = 1
  OpTimeout = 1
PROPERTY KeepsServing
CHECK_DEADLOCK FALSE
