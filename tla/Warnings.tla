------------------------------ MODULE Warnings ------------------------------
(***************************************************************************)
(* Warnings (warnings.service.ts): the limit-th active warning blocks the  *)
(* student, and cancelling back below the limit lifts that block.          *)
(***************************************************************************)
EXTENDS Account

CONSTANTS
  BlockLimit,   \* warningBlockLimit of the tenant
  MaxWarnings   \* bound on the warnings ever given

ASSUME WarningsAssumption ==
  /\ BlockLimit \in Nat \ {0}
  /\ MaxWarnings \in Nat

VARIABLES
  given,      \* how many warnings were ever given, at most MaxWarnings
  warnings    \* how many of them are not cancelled

warningVars == <<given, warnings>>

WarningsInit == given = 0 /\ warnings = 0

GiveCreate(r) ==
  /\ At(r, "idle") /\ given < MaxWarnings
  /\ given' = given + 1 /\ warnings' = warnings + 1
  /\ Goto(r, "giveCount")
  /\ UNCHANGED <<status, will, held>>

\* The active warnings are counted after the new one is in.
GiveCount(r) ==
  /\ At(r, "giveCount")
  /\ IF warnings >= BlockLimit THEN Plan(r, "giveBlock", "blocked_warning")
                               ELSE Return(r)
  /\ UNCHANGED <<status, held, given, warnings>>

\* The block does not ask what the status is.
GiveBlock(r) ==
  /\ At(r, "giveBlock")
  /\ status' = "blocked_warning"
  /\ held' = TRUE
  /\ Return(r)
  /\ UNCHANGED <<given, warnings>>

\* Faulty variant: every cancellation takes one off a stored count.
CancelMarkTwice(r) ==
  /\ At(r, "idle") /\ given > 0
  /\ warnings' = warnings - 1
  /\ Goto(r, "cancelCount")
  /\ UNCHANGED <<status, will, held, given>>

\* cancel does not ask whether the warning was cancelled before.
CancelMark(r) ==
  /\ At(r, "idle") /\ given > 0
  /\ \/ warnings > 0 /\ warnings' = warnings - 1
     \/ warnings < given /\ UNCHANGED warnings
  /\ Goto(r, "cancelCount")
  /\ UNCHANGED <<status, will, held, given>>

\* Faulty variant: below the limit is taken one too low.
CancelCountBelow(r) ==
  /\ At(r, "cancelCount")
  /\ IF warnings < BlockLimit - 1 THEN Goto(r, "cancelRead") ELSE Goto(r, "idle")
  /\ UNCHANGED <<status, will, held, given, warnings>>

CancelCount(r) ==
  /\ At(r, "cancelCount")
  /\ IF warnings < BlockLimit THEN Goto(r, "cancelRead") ELSE Goto(r, "idle")
  /\ UNCHANGED <<status, will, held, given, warnings>>

\* Below the limit: active if the student is blocked for warnings, and
\* otherwise the status it was read as, which is written back too.
CancelRead(r) ==
  /\ At(r, "cancelRead")
  /\ Plan(r, "cancelWrite", IF status = "blocked_warning" THEN "active" ELSE status)
  /\ UNCHANGED <<status, held, given, warnings>>

CancelWrite(r) ==
  /\ At(r, "cancelWrite")
  /\ status' = will[r]
  /\ held' = FALSE
  /\ Return(r)
  /\ UNCHANGED <<given, warnings>>

Warn(r) ==
  \/ GiveCreate(r) \/ GiveCount(r) \/ GiveBlock(r)
  \/ CancelMark(r) \/ CancelCount(r) \/ CancelRead(r) \/ CancelWrite(r)
=============================================================================
