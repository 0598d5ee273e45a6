SPECIFICATION FairSpec
CONSTANTS
  Streams <- MCStreams
  BufferSize = 2
  WatchDog = 2
  MaxPrinted = 3
  MaxTime = 1
CHECK_DEADLOCK FALSE
INVARIANTS
  CharsKept
  LinesStamped
PROPERTIES
  ThreadEnds
