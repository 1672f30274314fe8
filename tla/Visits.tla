-------------------------------- MODULE Visits --------------------------------
(***************************************************************************)
(* One home visit (visits/visits.service.ts).  Completing it reads the     *)
(* row, has a language model write a report, which takes seconds, and only *)
(* then writes the row; what others saved meanwhile is in its way.         *)
(***************************************************************************)
EXTENDS Integers

CONSTANTS
  Requests,   \* HTTP requests that can be in flight at the same time
  Texts       \* what can be saved as notes

VARIABLES
  visit,      \* the row: status, notes, reported (aiSummary was written)
  items,      \* batches of action items extracted from a report
  pc, req,    \* where each request is, and what it carries
  overlapped, \* history: the row changed between a read and the write
  saved,      \* history: the notes somebody saved last
  completions, \* history: how often the visit was completed
  reopened    \* history: check-ins of a completed visit

state == <<visit, items, saved, completions, reopened>>
vars == <<state, pc, req, overlapped>>

MaxCompletions == 2   \* bound: a visit checked in again can be completed again
NoReq == [was |-> "none"]

Planned ==
  /\ visit = [status |-> "planned", notes |-> "none", reported |-> FALSE]
  /\ items = 0 /\ saved = "none" /\ completions = 0 /\ reopened = 0

Read(r, step, carried) ==
  /\ pc[r] = "idle"
  /\ pc' = [pc EXCEPT ![r] = step]
  /\ req' = [req EXCEPT ![r] = [was |-> visit, given |-> carried, report |-> FALSE]]
  /\ UNCHANGED <<state, overlapped>>

Return(r) ==
  /\ pc' = [pc EXCEPT ![r] = "idle"]
  /\ req' = [req EXCEPT ![r] = NoReq]

Write(r, step, row) ==
  /\ pc[r] = step
  /\ visit' = row
  /\ overlapped' = (overlapped \/ visit # req[r].was)

\* addNotes, and update with notes
AddNotes(text) ==
  /\ visit' = [visit EXCEPT !.notes = text]
  /\ saved' = text
  /\ UNCHANGED <<items, completions, reopened, pc, req, overlapped>>

CancelReads(r) ==
  visit.status \notin {"completed", "cancelled"} /\ Read(r, "cancel", "none")

CancelWrites(r) ==
  /\ Write(r, "cancel", [visit EXCEPT !.status = "cancelled"])
  /\ Return(r)
  /\ UNCHANGED <<items, saved, completions, reopened>>

\* checkin asks for a position but not for a status.
CheckinReads(r) == Read(r, "checkin", "none")

CheckinWrites(r) ==
  /\ Write(r, "checkin", [visit EXCEPT !.status = "in_progress"])
  /\ reopened' = IF visit.status = "completed" THEN reopened + 1 ELSE reopened
  /\ Return(r)
  /\ UNCHANGED <<items, saved, completions>>

\* Faulty variant: any visit can be completed.
CompleteReadsAny(r) ==
  /\ completions < MaxCompletions
  /\ \E text \in Texts \union {"none"} : Read(r, "report", text)

\* complete refuses only a visit that is completed.
CompleteReads(r) ==
  /\ visit.status # "completed" /\ completions < MaxCompletions
  /\ \E text \in Texts \union {"none"} : Read(r, "report", text)

\* The model answers, or the call fails and there is no report.
ReportAnswers(r) ==
  /\ pc[r] = "report"
  /\ pc' = [pc EXCEPT ![r] = "complete"]
  /\ \E ok \in BOOLEAN : req' = [req EXCEPT ![r].report = ok]
  /\ UNCHANGED <<state, overlapped>>

Completed(r, text) ==
  /\ Write(r, "complete", [status |-> "completed", notes |-> text,
                           reported |-> req[r].report])
  /\ completions' = completions + 1
  /\ saved' = IF req[r].given = "none" THEN saved ELSE text
  /\ IF req[r].report
     THEN pc' = [pc EXCEPT ![r] = "items"] /\ UNCHANGED req
     ELSE Return(r)
  /\ UNCHANGED <<items, reopened>>

\* Faulty variant: no notes given clears the notes.
CompleteClearsNotes(r) == Completed(r, req[r].given)

CompleteWrites(r) ==
  Completed(r, IF req[r].given = "none" THEN req[r].was.notes ELSE req[r].given)

\* The items of the report; a failure is swallowed.
Extract(r) ==
  /\ pc[r] = "items"
  /\ items' \in {items, items + 1}
  /\ Return(r)
  /\ UNCHANGED <<visit, saved, completions, reopened, overlapped>>

Step(r) ==
  \/ CancelReads(r) \/ CancelWrites(r) \/ CheckinReads(r) \/ CheckinWrites(r)
  \/ CompleteReads(r) \/ ReportAnswers(r) \/ CompleteWrites(r) \/ Extract(r)

------------------------------------------------------------------------------
\* What somebody saved as notes stays until something else is saved: a
\* completion without notes puts back those it read before the report was
\* written (visits.service.ts:278-297), so nothing may be saved meanwhile.
NotesKept == ~overlapped => visit.notes = saved

\* A visit is completed, and its report read for action items, once, or once
\* more for each check-in that reopened it (visits.service.ts:279).
CompletedOnce ==
  ~overlapped => items <= completions /\ completions <= 1 + reopened
==============================================================================
