SPECIFICATION Spec
CONSTANTS
  Requests = {r1, r2}
  People = {p1, p2}
  Texts = {t1}
  GroupIds = {g1, g2}
  Mentors = {m1, m2}
  Students = {s1}
  Formats = {mp4, webm}
  LastLesson = 2
  Repetitions = 1
  MostRepetitions = 2
  MaxCalls = 4
  ShieldEvery = 2
  MaxDays = 4
  Teams = {a, b, c}
  MaxChallenges = 3
  Rooms = {x1, x2}
  DailyLimit = 2
  WarnEvery = 2
  MaxMessages = 4
  MaxAsks = 2
  MaxEvents = 3
  Batch = 2
  Ears = {e1, e2}
  Posts = {c1, c2}
  QuestionCount = 2
  MaxTurns = 3
  Nobody = nobody
SYMMETRY Interchangeable
CONSTRAINT NotOvertaken
INVARIANT StaffWorkOnRecord
INVARIANT GroupsAgree
INVARIANT FilesAgree
INVARIANT WorkCounts
INVARIANT StreakIsEarned
INVARIANT SocialRulesHold
INVARIANT PageAgrees
INVARIANT ErasedOnlyIfAsked
INVARIANT EventsArrive
PROPERTY NothingTakenBack
CHECK_DEADLOCK FALSE
