SPECIFICATION CoresSpec
CONSTANTS
  Machines <- FourCores
  MaxCore = 3
  Singles <- AllPlaces
  Bounds <- PlacesAndOneMore
  MaxItems = 2
CHECK_DEADLOCK FALSE
INVARIANTS
  CoresListed
  PrintedReadsBack
  CoresGiven
