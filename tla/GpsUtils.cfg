SPECIFICATION MCSpec
CONSTANTS
  Messages = {m1, m2, m3}
  Null = Null
  Data <- MCData
  Rank <- MCRank
  NoData = NoData
INVARIANTS
  InOrder
  DeletedOnce
  CheckTree
PROPERTIES
  EndsWell
  ImplementsSet
CHECK_DEADLOCK FALSE
