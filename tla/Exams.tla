-------------------------------- MODULE Exams --------------------------------
(***************************************************************************)
(* The exams of one student: one permission, which is for a lesson's exam, *)
(* a catalogue test or an AI oral exam, and every request that can touch   *)
(* it.  Requests overlap at their awaits, and the server may restart.      *)
(***************************************************************************)
EXTENDS OralExam, WrittenExam

CONSTANT MaxCrashes   \* bound on the restarts of the server

ASSUME CrashAssumption == MaxCrashes \in Nat

VARIABLES
  crashes,    \* how often the server restarted
  overlapped  \* history: two requests were under way at the same time

vars == <<permVars, sessVars, writtenVars, crashes, overlapped>>

Init ==
  /\ PermInit /\ OralInit /\ WrittenInit
  /\ crashes = 0 /\ overlapped = FALSE

\* The server restarts: every request under way is gone, its writes stay.
Crash ==
  /\ crashes < MaxCrashes /\ crashes' = crashes + 1
  /\ ~Quiet
  /\ pc' = [r \in Requests |-> "idle"]
  /\ sid' = [r \in Requests |-> 0]
  /\ turns' = [r \in Requests |-> 0]
  /\ verdict' = [r \in Requests |-> NoVerdict]
  /\ UNCHANGED <<permRest, session, created, answered, academy, earned>>

Request(r) ==
  \/ PermStep(r) /\ UNCHANGED <<sessVars, writtenVars>>
  \/ Oral(r) /\ UNCHANGED writtenVars
  \/ Submit(r) /\ UNCHANGED sessVars

Overlap == \E r, s \in Requests : r # s /\ pc[r] # "idle" /\ pc[s] # "idle"

Next ==
  \/ /\ Grant /\ UNCHANGED <<sessVars, writtenVars, crashes, overlapped>>
  \/ /\ \E r \in Requests : Request(r)
     /\ overlapped' = (overlapped \/ Overlap')
     /\ UNCHANGED crashes
  \/ Crash /\ UNCHANGED overlapped

Spec == Init /\ [][Next]_vars

------------------------------------------------------------------------------
(* Properties.                                                             *)

TypeOK ==
  /\ kind \in Kinds /\ perm \in Permission
  /\ pc \in [Requests -> Steps]
  /\ grants \in 0..MaxGrants /\ cancels \in 0..MaxCancels
  /\ session \in SessionRow /\ created \in 0..MaxSessions
  /\ sid \in [Requests -> 0..MaxSessions]
  /\ turns \in [Requests -> 0..MaxTurns]
  /\ answered \in Nat
  /\ verdict \in [Requests -> Permission]
  /\ crashes \in 0..MaxCrashes
  /\ cancelled \in BOOLEAN /\ academy \in BOOLEAN /\ earned \in BOOLEAN
  /\ overlapped \in BOOLEAN

\* A permission that reads done carries a passing score, and an active one
\* carries nothing of an earlier attempt, whatever was granted, cancelled or
\* decided in between, in whatever order.
StatusTellsResult ==
  /\ perm.status = "done" => Passed(perm.score)
  /\ perm.status \in {"none", "active"} => perm.score = NoScore

\* Session and permission of an oral exam never tell two results: whatever
\* was regranted, cancelled, deleted or graded twice, a finished session and
\* a permission with a result carry the same score (finalizeSession).
VerdictsAgree ==
  session.status = "completed" /\ perm.score # NoScore
    => perm.score = session.score

\* What the rows of permission and session say of each other, in every state
\* and whatever overlaps (grant, cancelPermission, submit, finalizeSession).
Inv == TypeOK /\ StatusTellsResult /\ VerdictsAgree

\* A conversation under way is never thrown away: an active session leaves
\* the table only after it was completed (start deletes by the id it read).
ActiveSessionKept ==
  [][session.status = "active" => session'.id = session.id]_vars

\* Passing the exam of a lesson completes the lesson, however many requests
\* overlap, unless the server stopped in between; and this service
\* completes it by a pass only (submit); staff can do it otherwise, which is in
\* LessonProgress.
PassCompletesLesson ==
  /\ Quiet /\ kind = "lesson" /\ perm.status = "done" /\ crashes = 0 => academy
  /\ academy => earned /\ kind = "lesson"

\* While requests do not overlap, every answer the student got a reply to is
\* in the stored transcript (respond).
NoAnswerLost ==
  ~overlapped /\ session.id # 0 => session.turns >= answered

\* While requests do not overlap, a passed oral exam keeps its transcript for
\* the result screen (getMyActive), through regrants and restarts.
ResultKept ==
  ~overlapped /\ kind = "oral" /\ perm.status = "done"
    => session.status = "completed"

\* While requests do not overlap, what the student said is kept: during the
\* conversation and after it was passed (respond, start, finalizeSession).
TranscriptKept == NoAnswerLost /\ ResultKept

\* While requests do not overlap, a verdict closes an open attempt: it is
\* written to an active permission, or to one that was cancelled under it.
VerdictOnActive ==
  [][perm'.score # NoScore /\ perm' # perm
       => perm.status = "active" \/ cancelled \/ overlapped]_vars

\* An attempt runs to its verdict: it is not thrown away under way, and only
\* an open attempt gets one (start, finalize, submit).
AttemptsEnd == ActiveSessionKept /\ VerdictOnActive

------------------------------------------------------------------------------
(* What a comment promises and the code does not keep.                     *)

\* "Lesson-anchored exams gate lesson completion" (submit), restarts included.
PassSurvivesCrash ==
  Quiet /\ kind = "lesson" /\ perm.status = "done" => academy
=============================================================================
