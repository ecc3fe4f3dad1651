CONSTANTS
  Lot = 3
  MinOrder = 2
  MaxSells = 2
  Optimistic = TRUE
  FaultSets <- OneAtATime
  None = None
SPECIFICATION FairSpec
INVARIANTS
  TypeOK
  FinalIsTrue
PROPERTIES
  RefinesExitCustody
  SellIsSettled
  StopSellsOut
CHECK_DEADLOCK FALSE
