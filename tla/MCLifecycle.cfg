SPECIFICATION FairSpec
CONSTANT
  Nodes = {1, 2, 3}
INVARIANTS
  TypeOK
  NothingLeftBehind
PROPERTIES
  SigkillIsLastResort
  SignalEndsEverything
CHECK_DEADLOCK FALSE
