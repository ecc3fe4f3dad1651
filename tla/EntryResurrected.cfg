CONSTANTS
  Events = {e1}
  Sides = {yes}
  MaxAttempts = 1
  Lot = 1
  MinOrder = 1
  PromptVenue = TRUE
  MayCrash = FALSE
  MayExit = TRUE
  None = None
SPECIFICATION Spec
PROPERTIES
  SoldStaysSold
CHECK_DEADLOCK FALSE
