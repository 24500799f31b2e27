SPECIFICATION FairSpec
CONSTANT MaxLines = 6
INVARIANTS
  TypeOK
  ShownIsNewest
  LoggedBeforeAnswered
  OnlyFirstLineLost
PROPERTY SentLineIsAnswered
CHECK_DEADLOCK FALSE
