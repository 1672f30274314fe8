---------------------------- MODULE WrittenExam ----------------------------
(***************************************************************************)
(* The written exam (ExamsService.submit): the answers are graded at once  *)
(* and, for an exam that belongs to a lesson, a pass completes the lesson. *)
(* The permission and the lesson's progress are two writes without a       *)
(* transaction.                                                            *)
(***************************************************************************)
EXTENDS ExamPermission

CONSTANTS
  Totals   \* how many gradable questions the exam may have, 0 included

ASSUME WrittenAssumption == Totals \subseteq Nat

VARIABLES
  verdict,    \* the verdict each submission has computed
  academy,    \* academyCompleted of the lesson's progress
  earned      \* history: some submission passed

writtenVars == <<verdict, academy, earned>>

NoVerdict == [status |-> "none", score |-> NoScore, passed |-> FALSE]

WrittenInit ==
  /\ verdict = [r \in Requests |-> NoVerdict]
  /\ academy = FALSE /\ earned = FALSE

\* Math.round of the percentage.
Percent(correct, total) == (200 * correct + total) \div (2 * total)

\* The scores an attempt can get are those of every number of right answers.
ASSUME GradesAreScores ==
  \A total \in Totals \ {0} : \A correct \in 0..total :
    Percent(correct, total) \in Scores

\* passed compares the exact ratio, never the rounded score.
Graded(correct, total) ==
  Decided(100 * correct >= Threshold * total, Percent(correct, total))

\* The permission must be active, and an exam without questions is refused.
SubmitRead(r) ==
  /\ At(r, "idle") /\ perm.status = "active"
  /\ \E total \in Totals \ {0} : \E correct \in 0..total :
       verdict' = [verdict EXCEPT ![r] = Graded(correct, total)]
  /\ Goto(r, "update")
  /\ UNCHANGED <<permRest, academy, earned>>

\* The verdict is written by id, whatever the row holds by now.
SubmitUpdate(r) ==
  /\ At(r, "update")
  /\ perm' = verdict[r]
  /\ earned' = (earned \/ verdict[r].status = "done")
  /\ Goto(r, IF verdict[r].status = "done" /\ kind = "lesson"
             THEN "progress" ELSE "idle")
  /\ verdict' = [verdict EXCEPT ![r] =
       IF verdict[r].status = "done" /\ kind = "lesson" THEN @ ELSE NoVerdict]
  /\ UNCHANGED <<kind, grants, cancels, cancelled, academy>>

\* Faulty variant: the upsert keeps what an existing progress row says.
SubmitProgressKeeps(r) ==
  /\ At(r, "progress")
  /\ Goto(r, "idle")
  /\ verdict' = [verdict EXCEPT ![r] = NoVerdict]
  /\ UNCHANGED <<permRest, academy, earned>>

\* "Lesson-anchored exams gate lesson completion."
SubmitProgress(r) ==
  /\ At(r, "progress")
  /\ academy' = TRUE
  /\ Goto(r, "idle")
  /\ verdict' = [verdict EXCEPT ![r] = NoVerdict]
  /\ UNCHANGED <<permRest, earned>>

Submit(r) ==
  /\ kind # "oral"
  /\ SubmitRead(r) \/ SubmitUpdate(r) \/ SubmitProgress(r)
============================================================================
