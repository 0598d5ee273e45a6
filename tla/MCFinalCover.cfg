SPECIFICATION LocalSpec
CONSTANTS
  v1 = v1
  v2 = v2
  v3 = v3
  v4 = v4
  v5 = v5
  v6 = v6
  s1 = s1
  s2 = s2
  s3 = s3
  s4 = s4
  s5 = s5
  s6 = s6
  NoSet = NoSet
  Var <- MCVar
  Set <- MCSet
  var_set <- MCVarSet
  cost <- MCCost
  fixed_cost = 1
  MaxWeight = 9
  INT_MAX = 20
  T = 2
  CheckPeriod = 3
  max_step = 3
  max_tries = 2
  weight1 = 4
  weight2 = 1
  tabu_length = 2
  CanSkip = TRUE
CHECK_DEADLOCK FALSE
INVARIANT
  FinalCover
