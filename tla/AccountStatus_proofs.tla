------------------------- MODULE AccountStatus_proofs -------------------------
(* What holds of an account for any number of overlapping requests, any      *)
(* limit and any number of warnings: the types, that a block for warnings    *)
(* has its cause and is lifted by a person, and that nobody is blocked for a *)
(* month that is paid.                                                       *)
EXTENDS AccountStatus, TLAPS

JobStates == {"idle", "select", "write", "done"}

AccountType ==
  /\ status \in Statuses
  /\ pc \in [Requests -> Steps]
  /\ will \in [Requests -> Statuses]

WarningType == given \in 0 .. MaxWarnings /\ warnings \in 0 .. given

PaymentType ==
  /\ clock \in {"day", "evening", "night"} /\ term \in {"ahead", "today", "past"}
  /\ paid \in [Months -> PaymentStates]
  /\ payFor \in [Requests -> Months]
  /\ debt \in Months \union {"none"}

JobType == block \in JobStates /\ unblock \in {"idle", "write", "done"}

Flags == held \in BOOLEAN /\ overlapped \in BOOLEAN

Types == AccountType /\ WarningType /\ PaymentType /\ JobType

LEMMA TypeParts == TypeOK <=> Types /\ Flags
BY DEF TypeOK, Types, AccountType, WarningType, PaymentType, JobType, Flags, JobStates

\* What a request or job that nobody overtook knows of the rows.
Intends ==
  /\ \A r \in Requests : pc[r] = "adminWrite" => will[r] \in {"active", "inactive"}
  /\ \A r \in Requests : pc[r] = "cancelWrite" =>
        will[r] = "active" \/ (will[r] = status /\ status # "blocked_warning")

\* A block for warnings has its cause, or the request that cancelled one is
\* still on its way to lift it.
Caused ==
  /\ \A r \in Requests : pc[r] = "giveBlock" => warnings >= BlockLimit
  /\ status = "blocked_warning" =>
        \/ warnings >= BlockLimit
        \/ \E r \in Requests : pc[r] \in {"cancelCount", "cancelRead", "cancelWrite"}

Holds == held => status = "blocked_warning"

\* The job that goes on to block found nothing paid, and an active account.
Selected ==
  /\ block = "write" => status = "active"
  /\ block \in {"select", "write"} => paid["this"] = "none" /\ term = "today"

Sound == ~Overlap /\ Intends /\ Caused /\ Holds /\ Selected

\* A request that is alone: the others are idle and no job is at work.
Lone(r) == ~JobBusy /\ \A s \in Requests \ {r} : pc[s] = "idle"

LEMMA RequestIsLone ==
  ASSUME NEW r \in Requests, NEW x \in Steps, pc \in [Requests -> Steps],
         Goto(r, x), pc[r] # "idle" \/ x # "idle",
         UNCHANGED <<block, unblock>>, ~Overlap, ~Overlap'
  PROVE  Lone(r)
<1>1. pc' = [pc EXCEPT ![r] = x]
  BY DEF Goto
<1>2. JobBusy' = JobBusy
  BY DEF JobBusy
<1>3. r \in Busy \/ r \in Busy'
  BY <1>1 DEF Busy
<1>4. ~JobBusy
  BY <1>2, <1>3 DEF Overlap
<1>5. ASSUME NEW s \in Requests, s # r PROVE pc[s] = "idle"
  <2>1. pc'[s] = pc[s]
    BY <1>1, <1>5
  <2>2. s \notin Busy \/ s \notin Busy'
    BY <1>3, <1>5 DEF Overlap, Busy
  <2> QED
    BY <2>1, <2>2, <1>5 DEF Busy
<1> QED
  BY <1>4, <1>5 DEF Lone

------------------------------------------------------------------------------
(* The types *)

LEMMA PlanType ==
  ASSUME AccountType, NEW r \in Requests, NEW step \in Steps, NEW s \in Statuses,
         Plan(r, step, s), status' \in Statuses
  PROVE  AccountType'
BY DEF AccountType, Plan, Goto

LEMMA GoType ==
  ASSUME AccountType, NEW r \in Requests, NEW step \in Steps, Goto(r, step),
         UNCHANGED <<status, will>>
  PROVE  AccountType'
BY DEF AccountType, Goto

LEMMA AdminTypes ==
  ASSUME Types, NEW r \in Requests, Admin(r), UNCHANGED <<warningVars, paymentVars>>
  PROVE  Types'
<1>1. WarningType' /\ PaymentType' /\ JobType'
  BY DEF Types, WarningType, PaymentType, JobType, warningVars, paymentVars
<1> {"idle", "adminWrite"} \subseteq Steps /\ {"active", "inactive"} \subseteq Statuses
  BY DEF Steps, Statuses
<1>2. CASE AdminRead(r)
  <2>1. PICK s \in {"active", "inactive"} : Plan(r, "adminWrite", s)
    BY <1>2 DEF AdminRead
  <2> QED
    BY <1>1, <1>2, <2>1, PlanType DEF AdminRead, Types, AccountType
<1>3. CASE UnblockRead(r)
  BY <1>1, <1>3, PlanType DEF UnblockRead, Types, AccountType
<1>4. CASE AdminWrite(r)
  <2>1. status' \in Statuses
    BY <1>4 DEF AdminWrite, Types, AccountType
  <2> QED
    BY <1>1, <1>4, <2>1, PlanType DEF AdminWrite, Return, Types
<1> QED
  BY <1>2, <1>3, <1>4 DEF Admin

LEMMA WarnTypes ==
  ASSUME Types, NEW r \in Requests, Warn(r), UNCHANGED paymentVars
  PROVE  Types'
<1>1. PaymentType' /\ JobType'
  BY DEF Types, PaymentType, JobType, paymentVars
<1>2. {"idle", "giveCount", "giveBlock", "cancelCount", "cancelRead", "cancelWrite"} \subseteq Steps
      /\ {"active", "blocked_warning"} \subseteq Statuses
  BY DEF Steps, Statuses
<1>3. WarningType'
  BY WarningsAssumption DEF Warn, GiveCreate, GiveCount, GiveBlock, CancelMark, CancelCount,
     CancelRead, CancelWrite, Types, WarningType
<1>4. CASE GiveCreate(r) \/ CancelMark(r) \/ CancelCount(r)
  BY <1>1, <1>2, <1>3, <1>4, GoType DEF GiveCreate, CancelMark, CancelCount, Types
<1>5. CASE GiveCount(r) \/ GiveBlock(r) \/ CancelRead(r)
  BY <1>1, <1>2, <1>3, <1>5, PlanType DEF GiveCount, GiveBlock, CancelRead, Return, Types,
     AccountType
<1>6. CASE CancelWrite(r)
  <2>1. status' \in Statuses
    BY <1>6 DEF CancelWrite, Types, AccountType
  <2> QED
    BY <1>1, <1>2, <1>3, <1>6, <2>1, PlanType DEF CancelWrite, Return, Types
<1> QED
  BY <1>4, <1>5, <1>6 DEF Warn

LEMMA PayTypes ==
  ASSUME Types, NEW r \in Requests, Pay(r), UNCHANGED warningVars
  PROVE  Types'
<1>1. WarningType'
  BY DEF Types, WarningType, warningVars
<1>2. {"idle", "pay"} \subseteq Steps
  BY DEF Steps
<1>3. CASE PayRead(r)
  <2>1. PaymentType' /\ JobType'
    BY <1>3 DEF PayRead, jobVars, Types, PaymentType, JobType
  <2> QED
    BY <1>1, <1>2, <1>3, <2>1, GoType DEF PayRead, Types
<1>4. CASE PayUpsert(r)
  <2>1. PICK state \in PaymentStates : paid' = [paid EXCEPT ![payFor[r]] = state]
    BY <1>4 DEF PayUpsert, PaymentStates
  <2>2. "this" \in Months
    BY DEF Months
  <2>3. PaymentType' /\ JobType'
    BY <1>4, <2>1, <2>2 DEF PayUpsert, jobVars, Types, PaymentType, JobType
  <2> QED
    BY <1>1, <1>2, <1>4, <2>3, GoType DEF PayUpsert, Types
<1> QED
  BY <1>3, <1>4 DEF Pay

LEMMA JobTypes ==
  ASSUME Types, BlockJob \/ UnblockJob, UNCHANGED <<pc, will, warningVars>>
  PROVE  Types'
<1>1. WarningType'
  BY DEF Types, WarningType, warningVars
<1>2. status' \in Statuses /\ block' \in JobStates /\ unblock' \in {"idle", "write", "done"}
      /\ debt' \in Months \union {"none"} /\ UNCHANGED <<clock, term, paid, payFor>>
  BY DEF BlockJob, UnblockJob, BlockPaid, BlockSelect, BlockWrite, UnblockSelect, UnblockWrite,
     Types, AccountType, PaymentType, JobType, JobStates, Statuses, Months
<1>3. AccountType' /\ PaymentType' /\ JobType'
  BY <1>2 DEF Types, AccountType, PaymentType, JobType
<1> QED
  BY <1>1, <1>3 DEF Types

LEMMA TimeTypes ==
  ASSUME Types, Evening \/ Midnight \/ Morning, UNCHANGED <<accountVars, warningVars>>
  PROVE  Types'
<1>1. AccountType' /\ WarningType'
  BY DEF Types, AccountType, WarningType, accountVars, warningVars
<1>2. CASE Evening
  BY <1>1, <1>2 DEF Evening, Types, PaymentType, JobType, JobStates
<1>3. CASE Midnight
  <2>1. clock' = "night" /\ UNCHANGED <<block, unblock>>
    BY <1>3 DEF Midnight, jobVars
  <2>2. term' \in {"ahead", "today", "past"} /\ debt' \in Months \union {"none"}
    BY <1>3 DEF Midnight, Types, PaymentType, Months
  <2>3. paid' \in [Months -> PaymentStates]
    BY <1>3 DEF Midnight, Types, PaymentType, Months, PaymentStates
  <2>4. payFor' \in [Requests -> Months]
    BY <1>3 DEF Midnight, Types, PaymentType, Months
  <2> QED
    BY <1>1, <2>1, <2>2, <2>3, <2>4 DEF Types, PaymentType, JobType
<1>4. CASE Morning
  BY <1>1, <1>4 DEF Morning, Types, PaymentType, JobType
<1> QED
  BY <1>2, <1>3, <1>4

LEMMA TypesKept == Types /\ [Next]_vars => Types'
<1> SUFFICES ASSUME Types, [Next]_vars PROVE Types'
  OBVIOUS
<1>1. CASE Handler
  BY <1>1, AdminTypes, WarnTypes, PayTypes, JobTypes DEF Handler
<1>2. CASE NightJob
  BY <1>2, JobTypes DEF NightJob
<1>3. CASE SwitchOff
  BY <1>3 DEF SwitchOff, Deactivate, Statuses, Types, AccountType, WarningType, PaymentType,
     JobType, warningVars, paymentVars
<1>4. CASE Time
  BY <1>4, TimeTypes DEF Time
<1>5. CASE UNCHANGED vars
  BY <1>5 DEF vars, accountVars, warningVars, paymentVars, Types, AccountType, WarningType,
     PaymentType, JobType
<1> QED
  BY <1>1, <1>2, <1>3, <1>4, <1>5 DEF Next


LEMMA FlagsKept ==
  ASSUME Flags, [Next]_vars
  PROVE  Flags'
<1>1. held' \in BOOLEAN
  <2>1. held' = held \/ held' = TRUE \/ held' = FALSE
    <3>1. CASE Handler
      <4>1. ASSUME NEW r \in Requests, Admin(r) PROVE held' = held \/ held' = FALSE
        BY <4>1 DEF Admin, AdminRead, UnblockRead, AdminWrite
      <4>2. ASSUME NEW r \in Requests, Warn(r)
            PROVE  held' = held \/ held' = TRUE \/ held' = FALSE
        BY <4>2, Zenon DEF Warn, GiveCreate, GiveCount, GiveBlock, CancelMark, CancelCount,
           CancelRead, CancelWrite
      <4>3. ASSUME NEW r \in Requests, Pay(r) PROVE held' = held
        BY <4>3 DEF Pay, PayRead, PayUpsert
      <4>4. BlockJob => held' = held
        BY DEF BlockJob, BlockPaid, BlockSelect, BlockWrite
      <4> QED
        BY <3>1, <4>1, <4>2, <4>3, <4>4, Zenon DEF Handler
    <3>2. CASE NightJob
      BY <3>2 DEF NightJob, UnblockJob, UnblockSelect, UnblockWrite
    <3>3. CASE SwitchOff
      BY <3>3, Zenon DEF SwitchOff, Deactivate
    <3>4. CASE Time \/ UNCHANGED vars
      BY <3>4 DEF Time, accountVars, vars
    <3> QED
      BY <3>1, <3>2, <3>3, <3>4, Zenon DEF Next
  <2> QED
    BY <2>1, Zenon DEF Flags
<1>2. overlapped' \in BOOLEAN
  BY Zenon DEF Flags, Next, Handler, NightJob, SwitchOff, Time, vars
<1> QED
  BY <1>1, <1>2 DEF Flags

------------------------------------------------------------------------------
(* What nobody overtook is sound *)

LEMMA AdminSound ==
  ASSUME Types, Sound, NEW r \in Requests, Admin(r), ~Overlap',
         UNCHANGED <<warningVars, paymentVars>>
  PROVE  Sound'
<1>1. /\ pc \in [Requests -> Steps] /\ will \in [Requests -> Statuses]
      /\ UNCHANGED <<warnings, block, unblock, paid, term>>
      /\ {"idle", "adminWrite"} \subseteq Steps
  BY DEF Types, AccountType, warningVars, paymentVars, Steps
<1>2. CASE AdminRead(r) \/ UnblockRead(r)
  <2>1. PICK s \in {"active", "inactive"} :
          /\ pc[r] = "idle" /\ pc' = [pc EXCEPT ![r] = "adminWrite"]
          /\ will' = [will EXCEPT ![r] = s] /\ UNCHANGED <<status, held>>
    BY <1>2 DEF AdminRead, UnblockRead, Plan, Goto, At
  <2>2. Lone(r)
    BY <1>1, <2>1, RequestIsLone DEF Goto, Sound
  <2> QED
    BY <1>1, <2>1, <2>2 DEF Lone, JobBusy, Sound, Intends, Caused, Holds, Selected
<1>3. CASE AdminWrite(r)
  <2>1. /\ pc[r] = "adminWrite" /\ pc' = [pc EXCEPT ![r] = "idle"]
        /\ will' = [will EXCEPT ![r] = "active"] /\ status' = will[r] /\ ~held'
    BY <1>3 DEF AdminWrite, Return, Plan, Goto, At
  <2>2. Lone(r)
    BY <1>1, <2>1, RequestIsLone DEF Goto, Sound
  <2> QED
    BY <1>1, <2>1, <2>2 DEF Lone, JobBusy, Sound, Intends, Caused, Holds, Selected
<1> QED
  BY <1>2, <1>3 DEF Admin

LEMMA WarnSound ==
  ASSUME Types, Sound, NEW r \in Requests, Warn(r), ~Overlap', UNCHANGED paymentVars
  PROVE  Sound'
<1>1. /\ pc \in [Requests -> Steps] /\ will \in [Requests -> Statuses]
      /\ warnings \in Nat /\ BlockLimit \in Nat
      /\ UNCHANGED <<block, unblock, paid, term>>
      /\ {"idle", "giveCount", "giveBlock", "cancelCount", "cancelRead", "cancelWrite"}
           \subseteq Steps
  BY WarningsAssumption DEF Types, AccountType, WarningType, paymentVars, Steps
<1>2. PICK x \in Steps : Goto(r, x) /\ (pc[r] # "idle" \/ x # "idle")
  BY <1>1 DEF Warn, GiveCreate, GiveCount, GiveBlock, CancelMark, CancelCount, CancelRead,
     CancelWrite, Return, Plan, At
<1>3. Lone(r)
  BY <1>1, <1>2, RequestIsLone DEF Sound
<1>4. Selected'
  BY <1>1, <1>3 DEF Lone, JobBusy, Selected
<1>5. \A s \in Requests \ {r} : pc'[s] = "idle"
  BY <1>1, <1>2, <1>3 DEF Lone, Goto
<1>6. CASE GiveCreate(r)
  BY <1>1, <1>3, <1>4, <1>5, <1>6 DEF GiveCreate, At, Goto, Lone, Sound, Intends, Caused, Holds
<1>7. CASE GiveCount(r)
  BY <1>1, <1>3, <1>4, <1>5, <1>7 DEF GiveCount, Return, Plan, At, Goto, Lone, Sound, Intends,
     Caused, Holds
<1>8. CASE GiveBlock(r)
  BY <1>1, <1>3, <1>4, <1>5, <1>8 DEF GiveBlock, Return, Plan, At, Goto, Lone, Sound, Intends,
     Caused, Holds
<1>9. CASE CancelMark(r)
  BY <1>1, <1>3, <1>4, <1>5, <1>9 DEF CancelMark, At, Goto, Lone, Sound, Intends, Caused, Holds
<1>10. CASE CancelCount(r)
  BY <1>1, <1>3, <1>4, <1>5, <1>10 DEF CancelCount, At, Goto, Lone, Sound, Intends, Caused, Holds
<1>11. CASE CancelRead(r)
  BY <1>1, <1>3, <1>4, <1>5, <1>11 DEF CancelRead, Plan, At, Goto, Lone, Sound, Intends, Caused,
     Holds
<1>12. CASE CancelWrite(r)
  BY <1>1, <1>3, <1>4, <1>5, <1>12 DEF CancelWrite, Return, Plan, At, Goto, Lone, Sound, Intends,
     Caused, Holds
<1> QED
  BY <1>6, <1>7, <1>8, <1>9, <1>10, <1>11, <1>12 DEF Warn

LEMMA PaySound ==
  ASSUME Types, Sound, NEW r \in Requests, Pay(r), ~Overlap', UNCHANGED warningVars
  PROVE  Sound'
<1>1. /\ pc \in [Requests -> Steps] /\ {"idle", "pay"} \subseteq Steps
      /\ UNCHANGED <<status, will, held, warnings, block, unblock>>
  BY DEF Types, AccountType, warningVars, Steps, Pay, PayRead, PayUpsert, jobVars
<1>2. PICK x \in {"idle", "pay"} : Goto(r, x) /\ pc[r] \in {"idle", "pay"} /\ pc[r] # x
  BY DEF Pay, PayRead, PayUpsert, At
<1>3. Lone(r)
  BY <1>1, <1>2, RequestIsLone DEF Sound
<1> QED
  BY <1>1, <1>2, <1>3 DEF Goto, Lone, JobBusy, Sound, Intends, Caused, Holds, Selected

\* A job at work has the account to itself, as both jobs never are.
LEMMA JobSound ==
  ASSUME Types, Sound, BlockJob \/ UnblockJob, ~Overlap', UNCHANGED <<pc, will, warningVars>>
  PROVE  Sound'
<1>1. ASSUME JobBusy \/ JobBusy' PROVE \A r \in Requests : pc[r] = "idle"
  BY <1>1 DEF Sound, Overlap, Busy
<1>2. CASE BlockPaid
  BY <1>2 DEF BlockPaid, Sound, Intends, Caused, Holds, Selected, warningVars
<1>3. CASE BlockSelect
  BY <1>3 DEF BlockSelect, Sound, Intends, Caused, Holds, Selected, warningVars
<1>4. CASE BlockWrite
  BY <1>1, <1>4 DEF BlockWrite, JobBusy, Sound, Intends, Caused, Holds, Selected, warningVars
<1>5. CASE UnblockSelect
  BY <1>5 DEF UnblockSelect, Sound, Intends, Caused, Holds, Selected, warningVars
<1>6. CASE UnblockWrite
  <2>1. block \notin {"select", "write"}
    BY <1>6 DEF UnblockWrite, Sound, Overlap
  <2> QED
    BY <1>1, <1>6, <2>1 DEF UnblockWrite, JobBusy, Sound, Intends, Caused, Holds, Selected,
       warningVars
<1> QED
  BY <1>2, <1>3, <1>4, <1>5, <1>6 DEF BlockJob, UnblockJob

LEMMA SoundKept ==
  ASSUME Types, ~overlapped => Sound, [Next]_vars
  PROVE  ~overlapped' => Sound'
<1> SUFFICES ASSUME ~overlapped' PROVE Sound'
  OBVIOUS
<1>1. ~overlapped
  BY Zenon DEF Next, Handler, NightJob, SwitchOff, Time, vars
<1>2. Sound
  BY <1>1
<1>3. CASE Handler
  <2>1. ~Overlap'
    BY <1>3 DEF Handler
  <2> QED
    BY <1>2, <1>3, <2>1, AdminSound, WarnSound, PaySound, JobSound DEF Handler
<1>4. CASE NightJob
  BY <1>2, <1>4, JobSound DEF NightJob
<1>5. CASE SwitchOff
  <2>1. Quiet
    BY <1>5 DEF SwitchOff
  <2>2. status' = "inactive" /\ ~held'
        /\ UNCHANGED <<pc, will, warnings, block, unblock, paid, term>>
    BY <1>5 DEF SwitchOff, Deactivate, warningVars, paymentVars
  <2>3. ~Overlap' /\ block' \notin {"select", "write"} /\ \A r \in Requests : pc'[r] = "idle"
    BY <1>2, <2>1, <2>2 DEF Quiet, Busy, JobBusy, Sound, Overlap
  <2> QED
    BY <2>2, <2>3 DEF Sound, Intends, Caused, Holds, Selected
<1>6. CASE Time
  <2>1. ~JobBusy
    BY <1>6 DEF Time
  <2>2. UNCHANGED <<status, pc, will, held, warnings>>
    BY <1>6 DEF Time, accountVars, warningVars
  <2>3. block' \notin {"select", "write"} /\ unblock' # "write"
    BY <1>6, <2>1 DEF Time, Evening, Midnight, Morning, jobVars, JobBusy
  <2>4. ~Overlap'
    BY <1>2, <2>2, <2>3 DEF Sound, Overlap, Busy, JobBusy
  <2> QED
    BY <1>2, <2>2, <2>3, <2>4 DEF Sound, Intends, Caused, Holds, Selected
<1>7. CASE UNCHANGED vars
  <2>1. UNCHANGED <<status, pc, will, held, warnings, block, unblock, paid, term>>
    BY <1>7 DEF vars, accountVars, warningVars, paymentVars
  <2>2. ~Overlap'
    BY <1>2, <2>1 DEF Sound, Overlap, Busy, JobBusy
  <2> QED
    BY <1>2, <2>1, <2>2 DEF Sound, Intends, Caused, Holds, Selected
<1> QED
  BY <1>3, <1>4, <1>5, <1>6, <1>7 DEF Next

------------------------------------------------------------------------------
(* The theorems *)

IInv == Types /\ Flags /\ (~overlapped => Sound)

LEMMA Start == Init => IInv
<1> SUFFICES ASSUME Init PROVE IInv
  OBVIOUS
<1> USE DEF Init, AccountInit, WarningsInit, PaymentsInit
<1>1. AccountType
  BY DEF AccountType, Statuses, Steps
<1>2. WarningType
  BY WarningsAssumption DEF WarningType
<1>3. PaymentType /\ JobType
  BY DEF PaymentType, JobType, JobStates, Months, PaymentStates
<1>4. Flags
  BY Zenon DEF Flags
<1>5. ~Overlap
  BY DEF Overlap, Busy, JobBusy
<1>6. Intends /\ Caused /\ Holds /\ Selected
  BY DEF Intends, Caused, Holds, Selected
<1> QED
  BY <1>1, <1>2, <1>3, <1>4, <1>5, <1>6 DEF IInv, Types, Sound

LEMMA Step == IInv /\ [Next]_vars => IInv'
BY TypesKept, FlagsKept, SoundKept DEF IInv

LEMMA Always == Spec => []IInv
BY Start, Step, PTL DEF Spec

\* Between handlers the cause of a block for warnings is the warnings alone.
LEMMA InvFollows == IInv => Inv
<1> SUFFICES ASSUME IInv PROVE Inv
  OBVIOUS
<1>1. TypeOK
  BY TypeParts DEF IInv
<1>2. WarningBlockHasCause
  BY DEF IInv, WarningBlockHasCause, Sound, Caused, Quiet, Busy
<1>3. WarningBlockHolds
  BY DEF IInv, WarningBlockHolds, Sound, Holds
<1> QED
  BY <1>1, <1>2, <1>3 DEF Inv

\* Rows and requests keep their types; and, as long as handlers do not overlap,
\* a block for warnings has as many of them as the limit and is lifted by a
\* person only (warnings.service.ts, users.service.ts, the jobs of
\* cron.service.ts), for any limit and any number of requests.
THEOREM InvHolds == Spec => []Inv
BY Always, InvFollows, PTL

\* No step of a request, of staff or of the night blocks for payment; the 23:59
\* job does, and it looked at the payments of the month on its end day.
LEMMA OnlyTheJobBlocks ==
  ASSUME IInv, [Next]_vars, status # "blocked_payment", status' = "blocked_payment", ~overlapped
  PROVE  paid["this"] = "none" /\ term = "today"
<1>1. Sound /\ will \in [Requests -> Statuses]
  BY DEF IInv, Types, AccountType
<1>2. ASSUME NEW r \in Requests, Admin(r) PROVE FALSE
  BY <1>1, <1>2 DEF Sound, Intends, Admin, AdminRead, UnblockRead, AdminWrite, At
<1>3. ASSUME NEW r \in Requests, Warn(r) PROVE FALSE
  BY <1>1, <1>3 DEF Sound, Intends, Warn, GiveCreate, GiveCount, GiveBlock, CancelMark,
     CancelCount, CancelRead, CancelWrite, At
<1>4. ASSUME NEW r \in Requests, Pay(r) PROVE FALSE
  BY <1>4 DEF Pay, PayRead, PayUpsert
<1>5. ~UnblockJob
  BY DEF UnblockJob, UnblockSelect, UnblockWrite
<1>6. ~SwitchOff /\ ~Time /\ ~(UNCHANGED vars)
  BY DEF SwitchOff, Deactivate, Time, accountVars, vars
<1>7. BlockJob
  BY <1>2, <1>3, <1>4, <1>5, <1>6 DEF Next, Handler, NightJob
<1>8. block = "write"
  BY <1>7 DEF BlockJob, BlockPaid, BlockSelect, BlockWrite
<1> QED
  BY <1>1, <1>8 DEF Sound, Selected

\* Who has paid the month is not blocked for it (cron.service.ts:52-100), for
\* any number of requests, as long as none was overtaken.
THEOREM PaidStaysOpen == Spec => PaidNotBlocked
<1>1. IInv /\ [Next]_vars =>
        [status # "blocked_payment" /\ status' = "blocked_payment" /\ ~overlapped
           => paid["this"] = "none" /\ term = "today"]_vars
  BY OnlyTheJobBlocks
<1> QED
  BY <1>1, Always, PTL DEF Spec, PaidNotBlocked
===============================================================================
