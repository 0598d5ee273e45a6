SPECIFICATION RankSpec
CONSTANTS
  Half = 16
  weight1 = 1
  weight2 = 1
  Rows <- MCRows
  Candidates <- MCCandidates
INVARIANTS
  FindsBest
  ScanAnswers
CHECK_DEADLOCK FALSE
