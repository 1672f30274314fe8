SPECIFICATION Spec
CONSTANTS
  Requests = {r1, r2, r3}
  Scores = {0, 33, 40, 50, 67, 70, 100}
  Threshold = 70
  MaxGrants = 2
  MaxCancels = 1
  MaxSessions = 2
  QuestionCount = 2
  MaxTurns = 2
  Totals = {0, 2, 3}
  MaxCrashes = 1
INVARIANT Inv
INVARIANT PassCompletesLesson
INVARIANT TranscriptKept
PROPERTY AttemptsEnd
SYMMETRY Symmetry
CHECK_DEADLOCK FALSE
