SPECIFICATION FairSpec
CONSTANTS
  Nodes = {1}
  Known = {1, 3}
  Levels = {1, 2}
  Threshold = 1
  Plans <- MCShortPlan
  Slots = {1}
PROPERTIES
  FreshAlertFreezesBanner
CHECK_DEADLOCK FALSE
