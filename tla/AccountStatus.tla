---------------------------- MODULE AccountStatus ----------------------------
(***************************************************************************)
(* Everything that blocks, unblocks or switches off one student's account: *)
(* warnings, payments with their cron jobs, and administrators.            *)
(***************************************************************************)
EXTENDS Warnings, Payments

VARIABLE overlapped   \* history: two handlers or jobs were under way at once

vars == <<accountVars, warningVars, paymentVars, overlapped>>

Init ==
  /\ AccountInit /\ WarningsInit /\ PaymentsInit
  /\ overlapped = FALSE

Busy == {r \in Requests : pc[r] # "idle"}
JobBusy == block \in {"select", "write"} \/ unblock = "write"
Quiet == Busy = {} /\ ~JobBusy

Overlap ==
  \/ Busy # {} /\ JobBusy
  \/ \E r, s \in Busy : r # s
  \/ block \in {"select", "write"} /\ unblock = "write"

Handler ==
  /\ \/ \E r \in Requests : Admin(r) /\ UNCHANGED <<warningVars, paymentVars>>
     \/ \E r \in Requests : Warn(r) /\ UNCHANGED paymentVars
     \/ \E r \in Requests : Pay(r) /\ UNCHANGED warningVars
     \/ BlockJob /\ UNCHANGED <<pc, will, warningVars>>
  /\ overlapped' = (overlapped \/ Overlap')

NightJob ==
  /\ UnblockJob /\ UNCHANGED <<pc, will, warningVars>>
  /\ overlapped' = (overlapped \/ Overlap')

SwitchOff ==
  /\ Deactivate /\ UNCHANGED <<warningVars, paymentVars>>
  /\ overlapped' = (overlapped \/ ~Quiet)

Time ==
  /\ Evening \/ Midnight \/ Morning
  /\ UNCHANGED <<accountVars, warningVars>>
  /\ overlapped' = (overlapped \/ JobBusy)

Next == Handler \/ NightJob \/ SwitchOff \/ Time

Spec == Init /\ [][Next]_vars

\* Time passes, and the 00:03 job runs every night.
Fairness == WF_vars(Time) /\ WF_vars(NightJob)

FairSpec == Spec /\ Fairness

------------------------------------------------------------------------------
(* Properties.                                                             *)

TypeOK ==
  /\ status \in Statuses
  /\ pc \in [Requests -> Steps]
  /\ will \in [Requests -> Statuses]
  /\ given \in 0..MaxWarnings /\ warnings \in 0..given
  /\ clock \in {"day", "evening", "night"}
  /\ term \in {"ahead", "today", "past"}
  /\ paid \in [Months -> PaymentStates]
  /\ payFor \in [Requests -> Months]
  /\ block \in {"idle", "select", "write", "done"}
  /\ unblock \in {"idle", "write", "done"}
  /\ debt \in Months \union {"none"}
  /\ held \in BOOLEAN /\ overlapped \in BOOLEAN

\* Nobody stays blocked for warnings that were cancelled: while handlers do
\* not overlap, an account that is blocked for warnings has as many as the
\* limit (give and cancel).
WarningBlockHasCause ==
  ~overlapped /\ Quiet /\ status = "blocked_warning" => warnings >= BlockLimit

\* A block for warnings is lifted by a person: while handlers do not overlap,
\* no cron job and no payment lets the student in again, in however many
\* steps (runPaymentBlock selects active accounts only).
WarningBlockHolds == ~overlapped /\ held => status = "blocked_warning"

\* An account is blocked for warnings exactly as long as the warnings and the
\* staff have it so, while handlers do not overlap (give, cancel, the jobs).
Inv == TypeOK /\ WarningBlockHasCause /\ WarningBlockHolds

\* Who has paid the month is not blocked for it, whenever the payment came,
\* as long as it was not recorded while the job ran.
PaidNotBlocked ==
  [][status # "blocked_payment" /\ status' = "blocked_payment" /\ ~overlapped
       => paid["this"] = "none" /\ term = "today"]_vars

\* A payment lifts the block: an account that is blocked for payment and has
\* one recorded is let in again (or switched off, or blocked otherwise),
\* also when the month ends in the same night.
PaymentUnblocks ==
  status = "blocked_payment" /\ (\E m \in Months : paid[m] # "none")
    ~> status # "blocked_payment"

------------------------------------------------------------------------------
(* What comments and documents promise and the code does not keep.         *)

\* docs/use-cases-bpmn.md, 3: a student who has not paid by the end day is
\* blocked, and the block is lifted the night after the payment was recorded.
\* So the 00:03 job lets nobody in who still owes the month.
UnpaidStaysBlocked ==
  [][unblock = "write" /\ status = "blocked_payment" /\ status' = "active"
       => debt = "none"]_vars
==============================================================================
