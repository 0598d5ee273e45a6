SPECIFICATION FairSpec
CONSTANTS
  activateSize = 2
  maxSize = 5
  MaxInput = 12
CHECK_DEADLOCK FALSE
INVARIANTS
  HeadAtOnce
  FirstAndLastSaved
  InOrder
PROPERTIES
  CallsReturn
