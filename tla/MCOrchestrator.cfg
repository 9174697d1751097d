SPECIFICATION FairSpec
CONSTANTS
  Blocks = 2
  MaxSnapshots = 3
INVARIANTS
  NeverHalfWritten
  WholeAndFresh
PROPERTY
  OrchestratorEnds
CHECK_DEADLOCK FALSE
