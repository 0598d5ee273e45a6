SPECIFICATION SolverSpec
CONSTANTS
  var_num = 4
  set_num = 4
  Row <- MCRow
  Price <- MCPrice
CHECK_DEADLOCK FALSE
INVARIANTS
  OptimumKept
  ReduceInv
  SearchReady
  NothingWrong
  SameInstance
