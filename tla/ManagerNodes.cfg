SPECIFICATION Spec
CONSTANTS
  Ids <- ThreeIds
  NULL = NULL
  LeftIds = {1}
  MaxOps = 0
  OpTimeout = 0
INVARIANTS
  AvailableIsWaitable
  MarkedForACause
  NoStrayProcess
  PingAllListsTheDead
PROPERTIES
  MarkedForGood
  MarkedWithSubtree
CHECK_DEADLOCK FALSE
