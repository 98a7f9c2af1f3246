SPECIFICATION Spec
CONSTANTS
  Limit = 2
  MaxHistory = 4
  MaxCompactions = 1
  MaxTorn = 1
  MaxDrops = 2
INVARIANTS
  ReplayInv
PROPERTIES
  NothingTwice
  CatchesUp
CHECK_DEADLOCK FALSE
