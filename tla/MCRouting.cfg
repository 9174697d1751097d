SPECIFICATION FairSpec
CONSTANTS
  Vertices <- MCVertices
  Graphs <- MCGraphs
  Infinity = 100
INVARIANTS
  TypeOK
  PredecessorTree
  FrontierTight
  EveryHopIsCloser
PROPERTIES
  TableIsBuilt
CHECK_DEADLOCK FALSE
