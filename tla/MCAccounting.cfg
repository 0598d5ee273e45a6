SPECIFICATION Spec
CONSTANTS
  Kids = {2, 3}
  FullEvery = 1
  limitCPUTime = 2
  Jump = 1
  MaxCPU = 2
  MaxSamples = 4
CHECK_DEADLOCK FALSE
INVARIANTS
  AccountsHold
PROPERTIES
  NeverBack
  SampleExact
