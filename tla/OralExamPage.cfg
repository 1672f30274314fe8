SPECIFICATION Spec
CONSTANTS
  Ears = {e1, e2}
  Posts = {c1, c2}
  QuestionCount = 2
  MaxTurns = 3
  Nobody = nobody
PROPERTY SilenceShowsAnswer
CHECK_DEADLOCK FALSE
