SPECIFICATION FairSpec
CONSTANTS
  Requests = {r1, r2}
  BlockLimit = 2
  MaxWarnings = 2
INVARIANT Inv
PROPERTY PaidNotBlocked
PROPERTY PaymentUnblocks
CHECK_DEADLOCK FALSE
