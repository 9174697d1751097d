SPECIFICATION FairSpec
CONSTANTS
  Nodes = {1, 2}
  Known = {1, 2, 3}
  Levels = {1, 2}
  Threshold = 1
  Plans <- MCShortPlan
  Slots = {1}
PROPERTIES
  AnalysisEnds
  RearmsAfterAttack
  LastingAttackDetected
CHECK_DEADLOCK FALSE
