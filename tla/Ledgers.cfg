\* A position of three shares: a part of them can be sold, and leave a rest that
\* can or cannot be.
CONSTANTS
  Acquired = 3
  MinOrder = 2
  MaxUnread = 1
  Starts = {"held", "legacy"}
\* A batch lists the newest and the oldest of three markets, so one is left out.
  Markets = 3
  Batch = 2
  Void = {}
  MaxStream = 1
\* One rule and one deal, over the end of the event it was opened in.
  Events = 2
  Rules = {1}
  Windowed = {}
  Ahead = 0
  Quota = 1
  MaxDeals = 1
  MaxEdits = 1
  Punctual = TRUE
\* Four frames of one token: the first makes the engine stable, the second enters, and
\* after a lapse of the gate seen by the third, the fourth enters again.
  Tokens = {"up"}
  Frequency = 2
  Capacity = 1
  MaxFrames = 4
  MaxTrouble = 1
SPECIFICATION Spec
INVARIANTS
  TypeOK
  ClosedIsGone
  OneEntryPerArrival
PROPERTIES
  ExitIsNotBuried
  SoldSharesStaySold
  LosersSettle
  EveryMarketIsResolved
  DealsEnd
  DecisionsComeBack
CHECK_DEADLOCK FALSE
