CONSTANTS
  Lot = 2
  MinOrder = 1
  MaxSells = 2
  Optimistic = TRUE
  FaultSets <- LostCancel
  None = None
SPECIFICATION Spec
INVARIANT OneSellAtATime
CHECK_DEADLOCK FALSE
