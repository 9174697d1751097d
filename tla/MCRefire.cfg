SPECIFICATION MFairSpec
CONSTANTS
  Nodes = {2, 3}
  Known = {1, 2, 3}
  Levels = {1, 2}
  Threshold = 1
  Plans <- MCGoodPlan
  Slots = {1}
  Attacker = 1
  Victim = 2
  Path = {2, 3}
  Cores = {3}
  Crashable = {}
PROPERTIES
  LostControlIsRefired
CHECK_DEADLOCK FALSE
