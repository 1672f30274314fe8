SPECIFICATION FairSpec
CONSTANTS
  Requests = {r1, r2, r3}
  Questions = 3
  Bonuses = {0, 11}
INVARIANT TypeOK
INVARIANT LastAnswerDecides
INVARIANT StatusTellsPlay
PROPERTY AnswersCount
PROPERTY ClosedStaysClosed
PROPERTY EventuallyClosed
CHECK_DEADLOCK FALSE
