CONSTANTS
  Conditions = {1}
  Tokens = {1, 2}
  ConditionOf <- OneMarket
  Held = 1
  CriticalCap = 1
  PendingCap = 1
  MaxFrames = 2
  LatchFails = FALSE
SPECIFICATION Spec
INVARIANT StopEdgeIsNeverDropped
CHECK_DEADLOCK FALSE
