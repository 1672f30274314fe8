-------------------------------- MODULE Tasks --------------------------------
(***************************************************************************)
(* One task from its creation to its KPI points (tasks/tasks.service.ts).  *)
(* The creator edits, removes and confirms it, the assignee moves it from  *)
(* sent to done.  Every operation reads the row, checks its status, and    *)
(* writes by id in a later await.                                          *)
(***************************************************************************)
EXTENDS Integers

CONSTANTS
  Requests,   \* HTTP requests that can be in flight at the same time
  People      \* staff and students a task can be given to

VARIABLES
  task,       \* the row: status, assignee, ball (kpiBall > 0)
  points,     \* kpi_scores rows with this taskId, per person
  pc, req,    \* where each request is, and what it carries
  overlapped, \* history: the row changed between a read and the write
  doer,       \* history: who reported the task done
  worth,      \* history: it was confirmed and carried points
  dropped     \* history: the points of a confirmation were not written

state == <<task, points, doer, worth, dropped>>
vars == <<state, pc, req, overlapped>>

MaxPoints == 2   \* bound: confirmations that are paid
NoReq == [was |-> "none"]
Next4 == [sent |-> {"seen", "in_progress"}, seen |-> {"in_progress"},
          in_progress |-> {"done"}, done |-> {}, confirmed |-> {}]

\* create: the task is sent to one person.
Created ==
  /\ \E p \in People, b \in BOOLEAN :
       task = [status |-> "sent", assignee |-> p, ball |-> b]
  /\ points = [p \in People |-> 0]
  /\ doer = "none" /\ worth = FALSE /\ dropped = FALSE

Exists == task.status # "deleted"

Read(r, step, carried) ==
  /\ pc[r] = "idle" /\ Exists
  /\ pc' = [pc EXCEPT ![r] = step]
  /\ req' = [req EXCEPT ![r] = [was |-> task, to |-> carried]]
  /\ UNCHANGED <<state, overlapped>>

Return(r) ==
  /\ pc' = [pc EXCEPT ![r] = "idle"]
  /\ req' = [req EXCEPT ![r] = NoReq]

\* A write by id; of a row that is gone it throws.
Write(r, step, row) ==
  /\ pc[r] = step
  /\ task' = IF Exists THEN row ELSE task
  /\ overlapped' = (overlapped \/ task # req[r].was)

StatusReads(r) ==
  Exists /\ \E to \in Next4[task.status] : Read(r, "status", to)

StatusWrites(r) ==
  /\ Write(r, "status", [task EXCEPT !.status = req[r].to])
  /\ doer' = IF Exists /\ req[r].to = "done" THEN req[r].was.assignee ELSE doer
  /\ Return(r)
  /\ UNCHANGED <<points, worth, dropped>>

\* Faulty variant: the task can be handed on at any time.
EditReadsAny(r) ==
  \E who \in People \union {"keep"}, b \in BOOLEAN : Read(r, "edit", [who |-> who, ball |-> b])

\* The points can be edited at any time, the assignee only while it is sent.
EditReads(r) ==
  \E who \in People \union {"keep"}, b \in BOOLEAN :
    /\ who # "keep" => task.status = "sent"
    /\ Read(r, "edit", [who |-> who, ball |-> b])

EditWrites(r) ==
  LET to == req[r].to IN
  /\ Write(r, "edit", [task EXCEPT !.ball = to.ball,
                                   !.assignee = IF to.who = "keep" THEN @ ELSE to.who])
  /\ Return(r)
  /\ UNCHANGED <<points, doer, worth, dropped>>

RemoveReads(r) == task.status = "sent" /\ Read(r, "remove", "deleted")

RemoveWrites(r) ==
  /\ Write(r, "remove", [task EXCEPT !.status = "deleted"])
  /\ Return(r)
  /\ UNCHANGED <<points, doer, worth, dropped>>

\* Faulty variant: a task already confirmed can be confirmed again.
ConfirmReadsAgain(r) ==
  /\ task.status \in {"done", "confirmed"}
  /\ \A p \in People : points[p] < MaxPoints
  /\ Read(r, "confirm", "confirmed")

ConfirmReads(r) ==
  /\ task.status = "done"
  /\ \A p \in People : points[p] < MaxPoints
  /\ Read(r, "confirm", "confirmed")

ConfirmWrites(r) ==
  /\ Write(r, "confirm", [task EXCEPT !.status = "confirmed"])
  /\ worth' = IF Exists THEN req[r].was.ball ELSE worth
  /\ IF Exists /\ req[r].was.ball
     THEN pc' = [pc EXCEPT ![r] = "pay"] /\ UNCHANGED req
     ELSE Return(r)
  /\ UNCHANGED <<points, doer, dropped>>

ConfirmPays(r) ==
  /\ pc[r] = "pay"
  /\ points' = [points EXCEPT ![req[r].was.assignee] = @ + 1]
  /\ Return(r)
  /\ UNCHANGED <<task, doer, worth, dropped, overlapped>>

\* The insert fails, or the server stops before it: the task stays confirmed,
\* and confirm refuses to run again.
ConfirmFails(r) ==
  /\ pc[r] = "pay"
  /\ dropped' = TRUE
  /\ Return(r)
  /\ UNCHANGED <<task, points, doer, worth, overlapped>>

Step(r) ==
  \/ StatusReads(r) \/ StatusWrites(r)
  \/ EditReads(r) \/ EditWrites(r)
  \/ RemoveReads(r) \/ RemoveWrites(r)
  \/ ConfirmReads(r) \/ ConfirmWrites(r) \/ ConfirmPays(r) \/ ConfirmFails(r)

------------------------------------------------------------------------------
Paying == \E r \in Requests : pc[r] = "pay"

\* Points go once, and to the person who did the task: the confirmation reads
\* assignee and points before it writes (tasks.service.ts:233-257), and nobody
\* else may have been given the task meanwhile.
PaidToDoer ==
  ~overlapped =>
    \A p \in People :
      points[p] = IF p = doer /\ worth /\ ~dropped /\ ~Paying THEN 1 ELSE 0

\* "Cannot change assignedTo once the assignee has interacted"
\* (tasks.service.ts:176-179), as long as no edit was overtaken.
AssigneeStaysOnceSeen ==
  [][~overlapped' /\ task.status # "sent" => task'.assignee = task.assignee]_vars
==============================================================================
