SPECIFICATION FairSpec
CONSTANTS
  MaxLines = 4
  MaxSessions = 3
INVARIANTS
  TypeOK
  CleanSessionAnswers
  CleanSessionExcludes
PROPERTIES
  ExitLineHeals
  SentLineIsAnswered
CHECK_DEADLOCK FALSE
