SPECIFICATION StacksSpec
CONSTANTS
  v1 = v1
  v2 = v2
  v3 = v3
  s1 = s1
  s2 = s2
  s3 = s3
  s4 = s4
  NoSet = NoSet
  Var <- MCVar
  Set <- MCSet
  var_set <- MCVarSet
  cost <- MCCost
  fixed_cost = 1
  MaxWeight = 2
INVARIANTS
  ScoreExact
  PscoreExact
  ZeroStackExact
  StacksHold
PROPERTIES
  PlacesServe
