SPECIFICATION Spec
CONSTANTS
  nbcell = 3
  MaxTrees = 19
  Garbage <- MCGarbage
CHECK_DEADLOCK FALSE
INVARIANTS
  Owned
  AgeOrder
  ThinsByHalf
  DumpHolds
