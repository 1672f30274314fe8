SPECIFICATION Spec
CONSTANTS
  Pings = {p1, p2}
  Second = 2
  MaxPing = 1
  MaxDaily = 6
  SessionTTL = 3
  Policies <- CapAndBreaks
  FlushEvery = 3
  MaxLosses = 1
  Horizon = 6
CONSTRAINT TabsMeetEarly
INVARIANT TypeOK
INVARIANT SecondsAgree
PROPERTY CapLocksDay
PROPERTY BreakServed
CHECK_DEADLOCK FALSE
