---------------------------- MODULE ExamPermission ----------------------------
(***************************************************************************)
(* The permission of one student for one exam (exams.service.ts): who      *)
(* grants, regrants and cancels it, and what a verdict writes into it.     *)
(* WrittenExam and OralExam extend this module with the two ways of        *)
(* reaching a verdict, and Exams composes them.  The handlers read the row *)
(* and write it back in separate awaits, and no write looks at what the    *)
(* row holds by then.                                                      *)
(***************************************************************************)
EXTENDS Integers

CONSTANTS
  Requests,    \* HTTP requests that can be in flight at the same time
  Scores,      \* the scores an attempt can get
  Threshold,   \* passThreshold of the exam
  MaxGrants,   \* bound on the grants
  MaxCancels   \* bound on the cancellations

NoScore == -1

ASSUME PermissionAssumption ==
  /\ Scores \subseteq Nat
  /\ Threshold \in Nat
  /\ MaxGrants \in Nat
  /\ MaxCancels \in Nat

VARIABLES
  kind,       \* what the permission is for; never changes
  perm,       \* the row of exam_permissions; passed is FALSE where it is null
  pc,         \* where each request is
  grants,     \* history: how often the permission was granted
  cancels,    \* history: how often it was cancelled
  cancelled   \* history: the current grant was cancelled

permRest == <<kind, perm, grants, cancels, cancelled>>
permVars == <<kind, perm, pc, grants, cancels, cancelled>>

\* A lesson's exam and a catalogue test are written, the third is oral.
Kinds == {"lesson", "test", "oral"}

Steps == {"idle", "grantNext", "cancel",
          "update", "progress",
          "startSession", "startDelete", "startAsk", "respondAsk", "finalizeAsk"}

Permission == [status : {"none", "active", "done", "failed"},
               score  : Scores \union {NoScore},
               passed : BOOLEAN]

Passed(score) == score # NoScore /\ score >= Threshold

Goto(r, step) == pc' = [pc EXCEPT ![r] = step]
At(r, step)   == pc[r] = step
Quiet == \A r \in Requests : At(r, "idle")

PermInit ==
  /\ kind \in Kinds
  /\ perm = [status |-> "none", score |-> NoScore, passed |-> FALSE]
  /\ pc = [r \in Requests |-> "idle"]
  /\ grants = 0 /\ cancels = 0 /\ cancelled = FALSE

------------------------------------------------------------------------------
\* Faulty variant: a regrant keeps the score of the attempt before.
GrantedKeepsScore == [perm EXCEPT !.status = "active"]

\* The upsert of grant and grantNext: active, and nothing of an earlier
\* attempt kept.
Granted == [status |-> "active", score |-> NoScore, passed |-> FALSE]

\* The row a verdict leaves: done or failed with its score.
Decided(pass, score) ==
  [status |-> IF pass THEN "done" ELSE "failed", score |-> score, passed |-> pass]

DoGrant ==
  /\ grants < MaxGrants
  /\ perm' = Granted
  /\ grants' = grants + 1
  /\ cancelled' = FALSE
  /\ UNCHANGED <<kind, cancels>>

\* grant: no look at the present status.
Grant == DoGrant /\ UNCHANGED pc

\* grantNext: walks the catalogue and picks the exam when it is neither
\* passed nor active ...
GrantNextRead(r) ==
  /\ At(r, "idle") /\ kind # "lesson"
  /\ perm.status \notin {"done", "active"} /\ ~perm.passed
  /\ Goto(r, "grantNext")
  /\ UNCHANGED permRest

\* ... and upserts it later.
GrantNextWrite(r) ==
  /\ At(r, "grantNext")
  /\ DoGrant
  /\ Goto(r, "idle")

\* cancelPermission: only an active one ...
CancelRead(r) ==
  /\ At(r, "idle") /\ cancels < MaxCancels
  /\ perm.status = "active"
  /\ Goto(r, "cancel")
  /\ cancels' = cancels + 1
  /\ UNCHANGED <<kind, perm, grants, cancelled>>

\* ... is set to failed, its score and passed untouched.
CancelWrite(r) ==
  /\ At(r, "cancel")
  /\ perm' = [perm EXCEPT !.status = "failed"]
  /\ cancelled' = TRUE
  /\ Goto(r, "idle")
  /\ UNCHANGED <<kind, grants, cancels>>

PermStep(r) ==
  \/ GrantNextRead(r) \/ GrantNextWrite(r) \/ CancelRead(r) \/ CancelWrite(r)

==============================================================================
