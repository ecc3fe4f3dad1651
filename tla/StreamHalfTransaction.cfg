CONSTANTS
  Prices = {1, 2}
  MaxTime = 3
  Assets = {1}
  QueueCap = 2
  MaxCuts = 1
  MaxExtra = 1
  StreamWorlds = {{}}
SPECIFICATION Spec
INVARIANT ReadyTopIsAdvertised
CHECK_DEADLOCK FALSE
