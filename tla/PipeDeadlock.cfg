SPECIFICATION FairSpec
CONSTANT MaxLines = 2
INVARIANT NoMutualWait
CHECK_DEADLOCK FALSE
