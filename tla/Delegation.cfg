SPECIFICATION FairSpec
CONSTANTS
  Delegations = {d1, d2}
  Requests = {r1, r2}
INVARIANT TypeOK
INVARIANT RecordsAgree
PROPERTY ActsWereAccepted
PROPERTY ClosedForGood
PROPERTY EndedIsClosed
CHECK_DEADLOCK FALSE
