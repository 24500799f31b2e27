SPECIFICATION Spec
CONSTANTS
  Ids <- OneId
  NULL = NULL
  LeftIds = {}
  MaxOps = 3
  OpTimeout = 1
INVARIANTS
  TypeOK
  ErrorHasACause
  ListIsOpenRequests
  PointersAreLive
  PassesMissNothing
PROPERTY ImplementsExecService
CHECK_DEADLOCK FALSE
