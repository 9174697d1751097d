SPECIFICATION FairSpec
CONSTANTS
  Nodes <- MCNodes
  EdgeNodes = {1, 2}
  NextHop <- MCNextHop
  Route <- MCRoute
  Attacks <- MCAttacks
  Probes <- MCProbes
  Rules <- MCRules
  BufferSize = 2
  PayloadSize = 512
  MaxSent = 2
  Crashable = {3}
INVARIANTS
  TypeOK
  OnePlace
  NoDetour
  IsolatedForGood
PROPERTIES
  DeliverySpec
  LegitimateFlowsArrive
CHECK_DEADLOCK FALSE
