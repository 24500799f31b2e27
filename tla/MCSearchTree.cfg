SPECIFICATION Spec
CONSTANTS
  Ids <- MCIds
  NULL = NULL
INVARIANTS
  TypeOK
  Ordered
  SearchesAgree
  ShapeFromCreationOrder
CHECK_DEADLOCK FALSE
