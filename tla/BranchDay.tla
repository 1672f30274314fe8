------------------------------ MODULE BranchDay ------------------------------
(***************************************************************************)
(* A day in a branch: the work of the staff (tasks, home visits, the       *)
(* colours of the students, the groups), that of the students (videos,     *)
(* lessons, oral exams, streaks, contests, chat), and what becomes of the  *)
(* data (events for analytics, requests to remove them), each with its own *)
(* rows and the same way of working: read, check, write by key.  No        *)
(* operation of one part decides by a row of another, and what one part    *)
(* calls of another (a completed session sets a colour and records a day)  *)
(* is there an action that can happen at any time; so a behaviour is       *)
(* explored as one part at work while the others rest.                     *)
(***************************************************************************)
EXTENDS Integers, FiniteSets, Sequences

CONSTANTS
  Requests, People, Texts, GroupIds, Mentors, Students,
  Formats, LastLesson, Repetitions, MostRepetitions, MaxCalls,
  ShieldEvery, MaxDays, Teams, MaxChallenges,
  Rooms, DailyLimit, WarnEvery, MaxMessages, MaxAsks, MaxEvents, Batch,
  Ears, Posts, QuestionCount, MaxTurns, Nobody

ASSUME BranchDayAssumption ==
  /\ Requests # {} /\ People # {} /\ Formats # {}
  \* An upload arrives under a name of its own, none of a slot.
  /\ Requests \intersect Formats = {}
  /\ {"none", "nobody", "unborn", "deleted"}
       \intersect (Requests \union Formats \union Teams \union GroupIds \union Mentors \union Students) = {}
  /\ Mentors \intersect Students = {}
  /\ LastLesson \in Nat \ {0} /\ MaxCalls \in Nat
  /\ MostRepetitions \in Nat /\ Repetitions \in 1..MostRepetitions
  /\ ShieldEvery \in Nat \ {0} /\ MaxDays \in Nat \ {0}
  /\ {MaxChallenges, MaxMessages, MaxAsks, MaxEvents} \subseteq Nat
  /\ {DailyLimit, WarnEvery, Batch} \subseteq Nat \ {0}
  /\ QuestionCount \in Nat /\ MaxTurns \in Nat /\ Nobody \notin Ears

VARIABLES
  part,       \* which part is at work
  pc, req, overlapped,
  task, points, doer, worth, dropped,
  visit, items, saved, completions, reopened,
  row, awards, improved, managed,
  mentorId, groupId, halfDone, edited,
  phase, video, files, job, pruning, broken,
  progress, needed, city, certs, owed, sessions, calls,
  now, studied, streak, active, spent,
  month, contests, closing, announced,
  keeper, counter, lasting, sent, approved, rejected, today, warned, lapsed, missed, peak,
  asks, due, erased, found, agreed,
  events, stored, ready, todo, sending, doubtful,
  view, heard, ears, handle, timer, speech, count, shown, posts, turns, graded, disturbed

T == INSTANCE Tasks
V == INSTANCE Visits
C == INSTANCE StatusColours
G == INSTANCE Groups
U == INSTANCE VideoCheckin
L == INSTANCE LessonProgress
S == INSTANCE Streak
K == INSTANCE Challenges
H == INSTANCE Chat
E == INSTANCE Erasure
O == INSTANCE Outbox
X == INSTANCE OralExamPage

requests == <<part, pc, req, overlapped>>
taskRows == <<task, points, doer, worth, dropped>>
visitRows == <<visit, items, saved, completions, reopened>>
colourRows == <<row, awards, improved, managed>>
groupRows == <<mentorId, groupId, halfDone, edited>>
staffRows == <<taskRows, visitRows, colourRows, groupRows>>
videoRows == <<phase, video, files, job, pruning, broken>>
lessonRows == <<progress, needed, city, certs, owed, sessions, calls>>
streakRows == <<now, studied, streak, active, spent>>
contestRows == <<month, contests, closing, announced>>
chatRows ==
  <<keeper, counter, lasting, sent, approved, rejected, today, warned, lapsed, missed, peak>>
pageRows ==
  <<view, heard, ears, handle, timer, speech, count, shown, posts, turns, graded, disturbed>>
studentRows == <<videoRows, lessonRows, streakRows, contestRows, chatRows, pageRows>>
erasureRows == <<asks, due, erased, found, agreed>>
eventRows == <<events, stored, ready, todo, sending, doubtful>>
dataRows == <<erasureRows, eventRows>>
vars == <<requests, staffRows, studentRows, dataRows>>

Parts == {"tasks", "visits", "colours", "groups", "videos", "lessons", "streaks", "contests",
          "chat", "erasure", "events", "page"}

Init ==
  /\ part \in Parts
  /\ pc = [r \in Requests |-> "idle"]
  /\ req = [r \in Requests |->
              CASE part = "tasks" -> T!NoReq [] part = "visits" -> V!NoReq
                [] part = "colours" -> C!NoReq [] part = "groups" -> G!NoReq
                [] part = "videos" -> U!NoReq [] part = "lessons" -> L!NoReq
                [] part = "streaks" -> S!NoReq [] part = "contests" -> K!NoReq
                [] part = "chat" -> H!NoReq [] part = "erasure" -> E!NoReq
                [] part = "events" -> O!NoReq [] part = "page" -> "none"]
  /\ overlapped = FALSE
  /\ T!Created /\ V!Planned /\ C!NewDay /\ G!Empty
  /\ U!Morning /\ L!Enrolled /\ S!NewStudent /\ K!Season
  /\ H!Unwritten /\ E!NeverAsked /\ O!Silent /\ X!Opened
  \* Where a part that rests can start in several ways, one will do.
  /\ part # "tasks" => task = [status |-> "sent", assignee |-> CHOOSE p \in People : TRUE, ball |-> TRUE]
  /\ part # "chat" => keeper = "rows"
  /\ part # "events" => ready

TaskStep ==
  /\ part = "tasks" /\ \E r \in Requests : T!Step(r)
  /\ UNCHANGED <<part, visitRows, colourRows, groupRows, studentRows, dataRows>>

VisitStep ==
  /\ part = "visits"
  /\ \/ \E r \in Requests : V!Step(r)
     \/ \E text \in Texts : V!AddNotes(text)
  /\ UNCHANGED <<part, taskRows, colourRows, groupRows, studentRows, dataRows>>

ColourStep ==
  /\ part = "colours" /\ \E r \in Requests : C!Step(r)
  /\ UNCHANGED <<part, taskRows, visitRows, groupRows, studentRows, dataRows>>

GroupStep ==
  /\ part = "groups" /\ ((\E r \in Requests : G!Step(r)) \/ G!Other)
  /\ UNCHANGED <<part, taskRows, visitRows, colourRows, studentRows, dataRows>>

VideoStep ==
  /\ part = "videos" /\ ((\E r \in Requests : U!Step(r)) \/ U!Other)
  /\ UNCHANGED <<part, staffRows, lessonRows, streakRows, contestRows, chatRows, pageRows, dataRows>>

LessonStep ==
  /\ part = "lessons" /\ ((\E r \in Requests : L!Step(r)) \/ L!Other)
  /\ UNCHANGED <<part, staffRows, videoRows, streakRows, contestRows, chatRows, pageRows, dataRows>>

StreakStep ==
  /\ part = "streaks" /\ ((\E r \in Requests : S!Step(r)) \/ S!Other)
  /\ UNCHANGED <<part, staffRows, videoRows, lessonRows, contestRows, chatRows, pageRows, dataRows>>

ContestStep ==
  /\ part = "contests" /\ ((\E r \in Requests : K!Step(r)) \/ K!Other)
  /\ UNCHANGED <<part, staffRows, videoRows, lessonRows, streakRows, chatRows, pageRows, dataRows>>

ChatStep ==
  /\ part = "chat" /\ ((\E r \in Requests : H!Step(r)) \/ H!Other)
  /\ UNCHANGED <<part, staffRows, videoRows, lessonRows, streakRows, contestRows, pageRows, dataRows>>

PageStep ==
  /\ part = "page" /\ X!Next
  /\ UNCHANGED <<requests, staffRows, videoRows, lessonRows, streakRows, contestRows, chatRows,
                 dataRows>>

ErasureStep ==
  /\ part = "erasure" /\ ((\E r \in Requests : E!Step(r)) \/ E!Other)
  /\ UNCHANGED <<part, staffRows, studentRows, eventRows>>

EventStep ==
  /\ part = "events" /\ ((\E r \in Requests : O!Step(r)) \/ O!Other)
  /\ UNCHANGED <<part, overlapped, staffRows, studentRows, erasureRows>>

Next ==
  \/ TaskStep \/ VisitStep \/ ColourStep \/ GroupStep
  \/ VideoStep \/ LessonStep \/ StreakStep \/ ContestStep
  \/ ChatStep \/ PageStep \/ ErasureStep \/ EventStep

Spec == Init /\ [][Next]_vars

------------------------------------------------------------------------------
\* The properties are stated and explained in the modules of the parts.

\* The points of a task go once, to the one who did it; a completion keeps the
\* notes of a visit and happens once; the manager is awarded for improvements
\* that took place (tasks.service.ts:233-261, visits.service.ts:272-309,
\* status.service.ts:40-140, 226-259).
StaffWorkOnRecord ==
  /\ T!PaidToDoer
  /\ V!NotesKept /\ V!CompletedOnce
  /\ C!AwardsAreEarned /\ C!PersonalGreenClears

\* What the groups service wrote last agrees: a group and its mentor point at
\* each other, and no student points to a group that was deleted
\* (groups.service.ts:115-152, 209-232, 259-278); users.update and users.create
\* write a person's group without looking (users.service.ts:58-74, 292-348).
GroupsAgree == G!PointersAgree /\ G!NoStudentLeftBehind

\* The row of a video points to a file that is there, and after the nightly
\* deletion no file is left (video-checkin.controller.ts:144-184,
\* video-checkin.service.ts:594-623).
FilesAgree == U!FileBehindRow /\ U!NothingLeftOnDisk

\* Every session counts; a lesson completed at home or approved has one building
\* unless its insertion failed, and the buildings stand in a row without a gap;
\* every certificate is issued once and earned (progress.service.ts:82-122,
\* 378-455, city.service.ts:76-110, certificates.service.ts:198-241).  A passed
\* exam and a bulk run complete lessons that get no building.
WorkCounts ==
  L!CountsEverySession /\ L!BuildingsInOrder /\ L!BuildingsFollow /\ L!OneCertificate

\* A streak stands for as many days with activity, and its shields for whole
\* weeks of them (streak.service.ts:83-185).
StreakIsEarned == S!StreakIsEarned /\ S!ShieldsAreEarned

\* A group is in one contest at a time and starts two a month at most, and a
\* contest is won and announced once (challenge.service.ts:36-73,
\* cron.service.ts:1428-1463); the daily limit of messages holds for a student
\* where Redis counts and for a group where the rows do, nobody is counted out
\* for ever, and every third rejected message earns a warning
\* (chat.service.ts:70-203).
SocialRulesHold ==
  /\ K!OneActivePerTeam /\ K!TwoPerMonth /\ K!WonOnce
  /\ H!WithinLimit /\ H!CountEnds /\ H!RejectionsWarn

\* As long as no call is given up and no recogniser fails late, the page of an
\* oral exam goes by the count of the server, asks for no answer too many and
\* does not listen to its own voice; a result it shows is the server's
\* (OralExamRunner.tsx:193-440).
PageAgrees ==
  X!CountAgrees /\ X!BudgetKept /\ X!EarsShutWhileSpeaking /\ X!ResultIsServers

\* Personal data go only when asked, approved and due (privacy.service.ts:86-242).
ErasedOnlyIfAsked == E!ErasedOnlyIfAsked

\* Every analytics event is in ClickHouse or still to be sent, and there once
\* (analytics.service.ts:830-890, cron.service.ts:619-671).
EventsArrive == O!MarkedIsStored /\ O!StoredOnce

\* What was recorded is not taken back: the assignee of a task that was seen
\* (tasks.service.ts:180-213), a video that was submitted
\* (video-checkin.service.ts:150-265), a lesson that was completed
\* (progress.service.ts:106-122), a request that was withdrawn
\* (privacy.service.ts:105-140).
NothingTakenBack ==
  T!AssigneeStaysOnceSeen /\ U!StatusNeverFalls /\ L!AcademyStays /\ E!FinalStays
==============================================================================
