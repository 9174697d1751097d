SPECIFICATION Spec
CONSTANTS
  Nodes = {1, 2}
  Known = {1, 2, 3}
  Levels = {1, 2, 3}
  Threshold = 1
  Plans <- MCPlans
  Slots = {1, 2}
INVARIANTS
  TypeOK
  OneWorkerWhileAnalyzing
  ArmedOnlyAfterCalm
  ReportIsTruthful
PROPERTIES
  AnomalyPauseOnce
CHECK_DEADLOCK FALSE
