------------------------------ MODULE Payments ------------------------------
(***************************************************************************)
(* Payments (payments.service.ts) and the two cron jobs that enforce them  *)
(* (cron.service.ts): at 23:59 of the payment end day students who have    *)
(* not paid the month are blocked, at 00:03 of every day blocked students  *)
(* with a payment that is due are let in again.                            *)
(*                                                                         *)
(* A payment made today is due from next midnight on.  Of the months       *)
(* before the current one only the payment that came furthest matters.     *)
(***************************************************************************)
EXTENDS Account

VARIABLES
  clock,      \* the hour: "day", "evening" (23:59) or "night" (00:03)
  term,       \* the end day of the month lies ahead, is today, or is past
  paid,       \* the payment of this month and of the months before
  payFor,     \* the month each request pays
  block,      \* where the 23:59 job is
  unblock,    \* where the 00:03 job is
  debt        \* history: the month the student was blocked for and has not paid

paymentVars == <<clock, term, paid, payFor, block, unblock, debt>>
jobVars == <<block, unblock>>

Months == {"this", "before"}
PaymentStates == {"none", "waiting", "due"}

PaymentsInit ==
  /\ clock = "day" /\ term = "ahead"
  /\ paid = [m \in Months |-> "none"]
  /\ payFor = [r \in Requests |-> "this"]
  /\ block = "idle" /\ unblock = "idle"
  /\ debt = "none"

------------------------------------------------------------------------------
\* markPaid: a month that is paid is refused (409) ...
PayRead(r) ==
  /\ At(r, "idle")
  /\ \E m \in Months :
       /\ m = "this" => paid["this"] = "none"
       /\ payFor' = [payFor EXCEPT ![r] = m]
  /\ Goto(r, "pay")
  /\ UNCHANGED <<status, will, held, clock, term, paid, jobVars, debt>>

\* ... and the upsert sets unblockAt to the midnight after paidAt, today.
PayUpsert(r) ==
  /\ At(r, "pay")
  /\ paid' = [paid EXCEPT ![payFor[r]] =
                IF payFor[r] = "before" /\ @ = "due" THEN "due" ELSE "waiting"]
  /\ debt' = IF debt = payFor[r] THEN "none" ELSE debt
  /\ payFor' = [payFor EXCEPT ![r] = "this"]
  /\ Goto(r, "idle")
  /\ UNCHANGED <<status, will, held, clock, term, jobVars>>

Pay(r) == PayRead(r) \/ PayUpsert(r)

------------------------------------------------------------------------------
(* The jobs.  A run that is missed is not made up for.                     *)

\* Faulty variant: the payments of the month before are looked up.
BlockPaidMonthBefore ==
  /\ clock = "evening" /\ term = "today" /\ block = "idle"
  /\ block' = IF paid["before"] = "none" THEN "select" ELSE "done"
  /\ UNCHANGED <<status, held, clock, term, paid, payFor, unblock, debt>>

\* runPaymentBlock on the end day: who has paid this month ...
BlockPaid ==
  /\ clock = "evening" /\ term = "today" /\ block = "idle"
  /\ block' = IF paid["this"] = "none" THEN "select" ELSE "done"
  /\ UNCHANGED <<status, held, clock, term, paid, payFor, unblock, debt>>

\* Faulty variant: everyone who has not paid is selected, active or not.
BlockSelectAll ==
  /\ block = "select"
  /\ block' = "write"
  /\ UNCHANGED <<status, held, clock, term, paid, payFor, unblock, debt>>

\* ... the active ones among the others ...
BlockSelect ==
  /\ block = "select"
  /\ block' = IF status = "active" THEN "write" ELSE "done"
  /\ UNCHANGED <<status, held, clock, term, paid, payFor, unblock, debt>>

\* ... are blocked by their ids, whatever their status is by now.
BlockWrite ==
  /\ block = "write"
  /\ status' = "blocked_payment"
  /\ debt' = IF paid["this"] = "none" THEN "this" ELSE debt
  /\ block' = "done"
  /\ UNCHANGED <<held, clock, term, paid, payFor, unblock>>

\* Faulty variant: only a payment of this month lifts the block.
UnblockSelectThisMonth ==
  /\ clock = "night" /\ unblock = "idle"
  /\ unblock' = IF status = "blocked_payment" /\ paid["this"] = "due"
                THEN "write" ELSE "done"
  /\ UNCHANGED <<status, held, clock, term, paid, payFor, block, debt>>

\* runPaymentUnblock: the blocked students with a due payment of any month.
UnblockSelect ==
  /\ clock = "night" /\ unblock = "idle"
  /\ unblock' = IF status = "blocked_payment" /\ \E m \in Months : paid[m] = "due"
                THEN "write" ELSE "done"
  /\ UNCHANGED <<status, held, clock, term, paid, payFor, block, debt>>

\* The update looks at the status again.
UnblockWrite ==
  /\ unblock = "write"
  /\ status' = IF status = "blocked_payment" THEN "active" ELSE status
  /\ unblock' = "done"
  /\ UNCHANGED <<held, clock, term, paid, payFor, block, debt>>

BlockJob   == BlockPaid \/ BlockSelect \/ BlockWrite
UnblockJob == UnblockSelect \/ UnblockWrite

------------------------------------------------------------------------------
Evening ==
  /\ clock = "day" /\ clock' = "evening"
  /\ block' = IF block = "done" THEN "idle" ELSE block
  /\ UNCHANGED <<term, paid, payFor, unblock, debt>>

\* Midnight: payments become due, and a month may end after its end day; what
\* is being paid was then for a month before.
Midnight ==
  /\ clock = "evening" /\ clock' = "night"
  /\ LET ripe == [m \in Months |-> IF paid[m] = "none" THEN "none" ELSE "due"] IN
       \/ /\ term # "ahead" /\ term' \in {"ahead", "today"}
          /\ debt' = IF debt = "this" THEN "before" ELSE debt
          /\ paid' = [this |-> "none",
                      before |-> IF \E m \in Months : ripe[m] = "due"
                                 THEN "due" ELSE "none"]
          /\ payFor' = [r \in Requests |-> IF At(r, "pay") THEN "before" ELSE payFor[r]]
       \/ /\ term' \in IF term = "ahead" THEN {"ahead", "today"} ELSE {"past"}
          /\ paid' = ripe /\ UNCHANGED <<payFor, debt>>
  /\ UNCHANGED jobVars

\* The night is over once the 00:03 job has run.
Morning ==
  /\ clock = "night" /\ unblock = "done"
  /\ clock' = "day" /\ unblock' = "idle"
  /\ UNCHANGED <<term, paid, payFor, block, debt>>
=============================================================================
