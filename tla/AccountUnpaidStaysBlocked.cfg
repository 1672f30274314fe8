SPECIFICATION Spec
CONSTANTS
  Requests = {r1}
  BlockLimit = 2
  MaxWarnings = 3
PROPERTY UnpaidStaysBlocked
CHECK_DEADLOCK FALSE
