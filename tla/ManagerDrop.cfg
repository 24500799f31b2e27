SPECIFICATION Spec
CONSTANTS
  Ids <- TwoIds
  NULL = NULL
  LeftIds = {}
  MaxOps = 1
  OpTimeout = 1
INVARIANT NoSilentDrop
CHECK_DEADLOCK FALSE
