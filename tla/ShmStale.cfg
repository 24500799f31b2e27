SPECIFICATION Spec
CONSTANTS
  MaxLines = 2
  MaxSessions = 2
INVARIANT NoStaleAnswer
CHECK_DEADLOCK FALSE
