SPECIFICATION Spec
CONSTANTS
  Pings = {p1}
  Second = 2
  MaxPing = 1
  MaxDaily = 6
  SessionTTL = 4
  Policies <- NoCapOnly
  FlushEvery = 2
  MaxLosses = 0
  Horizon = 6
INVARIANT NothingDropped
CHECK_DEADLOCK FALSE
