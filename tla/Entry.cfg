CONSTANTS
  e1 = e1
  yes = yes
  no = no
  Events = {e1, e2}
  Sides = {yes}
  MaxAttempts = 1
  Lot = 2
  MinOrder = 2
  PromptVenue = TRUE
  MayCrash = TRUE
  MayExit = TRUE
  None = None
SPECIFICATION EachSpec
INVARIANTS
  EachTypeOK
  SlotIsKept
  NoPhantoms
PROPERTIES
  SlotIsRefined
  CanaryEntersOpen
  FillsBecomePositions
  KnownOrdersAreSettled
CHECK_DEADLOCK FALSE
