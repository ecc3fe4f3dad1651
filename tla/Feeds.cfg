\* The market stream: two tokens, one of which is rotated; each kind of trouble
\* alone and in the pairs that meet in the code.
CONSTANTS
  Prices = {1, 2}
  MaxTime = 3
  Assets = {1, 2}
  QueueCap = 2
  MaxCuts = 1
  MaxExtra = 1
  StreamWorlds = {{"stale"}, {"unusable"}, {"lost"}, {"malformed", "early"}, {"rotate"}, {"raised", "gated"}, {"resolves", "cut"}}
\* The private stream: its queue is full after one event, so a frame of two
\* always loses one.
  Events = 3
  EventCap = 1
  MaxFaults = 1
  UserWorlds = {{"drop", "ask", "hold", "release"}, {"restart"}, {"drop", "store"}}
\* The readiness row.
  MaxQueued = 4
  MaxTrouble = 3
\* The frames: a critical queue of one frame.
  Conditions = {1, 2}
  Tokens = {1, 2, 3}
  ConditionOf <- TwoMarkets
  Held = 1
  CriticalCap = 1
  PendingCap = 1
  MaxFrames = 3
  LatchFails = FALSE
\* The trade window: a run reads two of three trades, one may be ingested late.
  Trades = 3
  MaxNow = 3
  Overlap = 1
  MaxRead = 2
  BootstrapRead = 3
  Lateness = 1
  Slow = TRUE
  Start = "row"
SPECIFICATION Spec
INVARIANTS
  TypeOK
  ReadyBookIsTheExchanges
  ResolutionSurvives
  NothingBehindTheWatermark
  NothingIsForgotten
  RowFollowsStream
  StopEdgeIsServed
PROPERTIES
  EveryBookComesBack
CHECK_DEADLOCK FALSE
