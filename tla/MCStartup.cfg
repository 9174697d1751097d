SPECIFICATION Spec
CONSTANTS
  Files <- MCFiles
  IntHalf = 16
  LongHalf = 64
  U16 = 8
  Ephemeral = {6, 7}
  MaxRuns = 2
INVARIANTS
  ReadersAgree
  MessagesFindTheirNode
  RowShowsItsOwnNode
CHECK_DEADLOCK FALSE
