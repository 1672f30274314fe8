------------------------------- MODULE Account -------------------------------
(***************************************************************************)
(* The status of one student's account (users.service.ts and the two       *)
(* transactions of other services that switch accounts off).  Warnings and *)
(* Payments extend this module with the handlers that block and unblock,   *)
(* AccountStatus composes them.  Every handler reads the status and writes *)
(* it in separate awaits, by the user's id alone.                          *)
(***************************************************************************)
EXTENDS Integers

CONSTANT Requests   \* HTTP requests that can be in flight at the same time

VARIABLES
  status,     \* users.status
  pc,         \* where each request is
  will,       \* the status each request is about to write
  held        \* history: blocked for warnings, and nobody has lifted it since

accountVars == <<status, pc, will, held>>

Statuses == {"active", "inactive", "blocked_warning", "blocked_payment"}

\* STATUS_TRANSITIONS: "Valid user status transitions. All others are rejected."
Transitions ==
  [active          |-> {"blocked_warning", "blocked_payment", "inactive"},
   blocked_warning |-> {"active", "blocked_payment", "inactive"},
   blocked_payment |-> {"active", "inactive"},
   inactive        |-> {"active"}]

Steps == {"idle", "adminWrite", "giveCount", "giveBlock",
          "cancelCount", "cancelRead", "cancelWrite", "pay"}

At(r, step) == pc[r] = step
Goto(r, step) == pc' = [pc EXCEPT ![r] = step]

\* The request goes on to write a status, or returns.
Plan(r, step, s) == Goto(r, step) /\ will' = [will EXCEPT ![r] = s]
Return(r) == Plan(r, "idle", "active")

AccountInit ==
  /\ status = "active"
  /\ pc = [r \in Requests |-> "idle"]
  /\ will = [r \in Requests |-> "active"]
  /\ held = FALSE

------------------------------------------------------------------------------
\* updateStatus: the transition is checked against the status it read ...
AdminRead(r) ==
  /\ At(r, "idle")
  /\ \E s \in {"active", "inactive"} :
       /\ s = status \/ s \in Transitions[status]
       /\ Plan(r, "adminWrite", s)
  /\ UNCHANGED <<status, held>>

\* unblock: only a blocked account, and back to active.
UnblockRead(r) ==
  /\ At(r, "idle")
  /\ status \in {"blocked_warning", "blocked_payment"}
  /\ Plan(r, "adminWrite", "active")
  /\ UNCHANGED <<status, held>>

\* ... and the new status is written whatever the account is by now.
AdminWrite(r) ==
  /\ At(r, "adminWrite")
  /\ status' = will[r]
  /\ held' = FALSE
  /\ Return(r)

Admin(r) == AdminRead(r) \/ UnblockRead(r) \/ AdminWrite(r)

\* A tenant is disabled, or a scheduled deletion is executed: one transaction.
Deactivate ==
  /\ status # "inactive"
  /\ status' = "inactive"
  /\ held' = FALSE
  /\ UNCHANGED <<pc, will>>
==============================================================================
