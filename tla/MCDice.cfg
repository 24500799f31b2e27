SPECIFICATION FairSpec
CONSTANTS
  MaxThreads = 3
  Experiments = 4
INVARIANTS
  TypeOK
  NoLostUpdate
  TotalsAddUp
PROPERTY Finishes
CHECK_DEADLOCK FALSE
