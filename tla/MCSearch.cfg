SPECIFICATION FairSearch
CONSTANTS
  v1 = v1
  v2 = v2
  v3 = v3
  s1 = s1
  s2 = s2
  s3 = s3
  s4 = s4
  NoSet = NoSet
  Var <- MCVar
  Set <- MCSet
  var_set <- MCVarSet
  cost <- MCCost
  fixed_cost = 1
  MaxWeight = 11
  INT_MAX = 20
  T = 2
  CheckPeriod = 2
  max_step = 5
  max_tries = 2
CHECK_DEADLOCK FALSE
INVARIANTS
  BestExact
PROPERTIES
  KeepsPromise
  KeepsBooks
  CoverNotLost
  Termination
