SPECIFICATION Spec
CONSTANTS
  Requests = {r1}
  Scores = {0, 33, 40, 50, 67, 70, 100}
  Threshold = 70
  MaxGrants = 1
  MaxCancels = 0
  MaxSessions = 1
  QuestionCount = 2
  MaxTurns = 2
  Totals = {0, 2, 3}
  MaxCrashes = 1
INVARIANT PassSurvivesCrash
SYMMETRY Symmetry
CHECK_DEADLOCK FALSE
