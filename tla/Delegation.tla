----------------------------- MODULE Delegation -----------------------------
(***************************************************************************)
(* The delegations offered to one member of staff (delegations.service.ts, *)
(* the interceptor that resolves the active one on every request, and the  *)
(* 00:05 job of cron.service.ts).  create, respond and cancel read a row   *)
(* and write it later by id alone; the job's update asks for the status.   *)
(***************************************************************************)
EXTENDS Integers, FiniteSets

CONSTANTS
  Delegations,   \* delegations that may be offered
  Requests       \* HTTP requests that can be in flight at the same time

ASSUME DelegationsAssumption == Delegations # {}

VARIABLES
  status,      \* delegations.status, "none" before the row exists
  ended,       \* the delegations whose endsAt has passed
  responses,   \* the delegation_responses rows of each
  pc,          \* where each request is
  on,          \* the delegation each request is about
  todo,        \* the writes each request has still to make
  clock,       \* "day", or "night" from midnight until the job has run
  job,         \* where the 00:05 job is
  found,       \* the delegations the job is to announce as completed
  announced,   \* history: those announced as completed
  acted,       \* those an act (a payment, a warning, an award) is on record under
  overlapped   \* history: a row changed between a read and the write by id

rows  == <<status, ended, responses>>
req   == <<pc, on, todo>>
night == <<clock, job, found>>
hist  == <<announced, acted>>
vars  == <<rows, req, night, hist, overlapped>>

Answers == {"accepted", "rejected"}
Closed  == {"rejected", "cancelled", "completed"}
Statuses == {"none", "pending", "active"} \union Closed
Steps == {"idle", "create", "accepted", "rejected", "cancel", "act"}

Active(d) == status[d] = "active"

Nobody == CHOOSE d \in Delegations : TRUE   \* what an idle request is about

Init ==
  /\ status = [d \in Delegations |-> "none"]
  /\ ended = {}
  /\ responses = [d \in Delegations |-> {}]
  /\ pc = [r \in Requests |-> "idle"]
  /\ on = [r \in Requests |-> Nobody]
  /\ todo = [r \in Requests |-> {}]
  /\ clock = "day" /\ job = "idle" /\ found = {}
  /\ announced = {} /\ acted = {}
  /\ overlapped = FALSE

Begin(r, step, d, writes) ==
  /\ pc[r] = "idle"
  /\ pc' = [pc EXCEPT ![r] = step]
  /\ on' = [on EXCEPT ![r] = d]
  /\ todo' = [todo EXCEPT ![r] = writes]
  /\ UNCHANGED <<rows, night, hist>>

\* Faulty variant: the request returns with its first write (Promise.race).
DoneFirst(r, write) ==
  /\ write \in todo[r]
  /\ todo' = [todo EXCEPT ![r] = @ \ {write}]
  /\ pc' = [pc EXCEPT ![r] = "idle"]
  /\ on' = [on EXCEPT ![r] = Nobody]

\* One of the request's writes is done; with the last one it returns.
Done(r, write) ==
  /\ write \in todo[r]
  /\ todo' = [todo EXCEPT ![r] = @ \ {write}]
  /\ IF todo'[r] = {}
     THEN pc' = [pc EXCEPT ![r] = "idle"] /\ on' = [on EXCEPT ![r] = Nobody]
     ELSE UNCHANGED <<pc, on>>

------------------------------------------------------------------------------
\* create: refused while the recipient has an active delegation.
CreateRead(r) ==
  /\ \A d \in Delegations : ~Active(d)
  /\ \E d \in Delegations : status[d] = "none" /\ Begin(r, "create", d, {"status"})

\* endsAt is taken from the request, and may have passed.
CreateWrite(r) ==
  /\ pc[r] = "create"
  /\ Done(r, "status")
  /\ status' = [status EXCEPT ![on[r]] = "pending"]
  /\ ended' \in {ended, ended \union {on[r]}}
  /\ UNCHANGED <<responses, night, hist>>

\* Faulty variant: the end of the delegation is not looked at.
RespondReadLate(r) ==
  \E d \in Delegations, a \in Answers :
    /\ status[d] = "pending"
    /\ Begin(r, a, d, {"status", "response"})

\* respond: only a pending delegation that has not ended.
RespondRead(r) ==
  \E d \in Delegations \ ended, a \in Answers :
    /\ status[d] = "pending"
    /\ Begin(r, a, d, {"status", "response"})

\* Promise.all writes the status and the response in either order.
RespondStatus(r) ==
  /\ pc[r] \in Answers
  /\ Done(r, "status")
  /\ status' = [status EXCEPT ![on[r]] = IF pc[r] = "accepted" THEN "active" ELSE "rejected"]
  /\ UNCHANGED <<ended, responses, night, hist>>

\* Faulty variant: the response that is recorded is always an acceptance.
RespondResponseAccepted(r) ==
  /\ pc[r] \in Answers
  /\ Done(r, "response")
  /\ responses' = [responses EXCEPT ![on[r]] = @ \union {"accepted"}]
  /\ UNCHANGED <<status, ended, night, hist>>

RespondResponse(r) ==
  /\ pc[r] \in Answers
  /\ Done(r, "response")
  /\ responses' = [responses EXCEPT ![on[r]] = @ \union {pc[r]}]
  /\ UNCHANGED <<status, ended, night, hist>>

\* Faulty variant: anything but a cancelled delegation can be cancelled.
CancelReadAny(r) ==
  \E d \in Delegations :
    /\ status[d] \notin {"none", "cancelled"}
    /\ Begin(r, "cancel", d, {"status"})

\* cancel: only a pending or an active delegation.
CancelRead(r) ==
  \E d \in Delegations :
    /\ status[d] \in {"pending", "active"}
    /\ Begin(r, "cancel", d, {"status"})

CancelWrite(r) ==
  /\ pc[r] = "cancel"
  /\ Done(r, "status")
  /\ status' = [status EXCEPT ![on[r]] = "cancelled"]
  /\ UNCHANGED <<ended, responses, night, hist>>

\* Faulty variant: the interceptor finds pending delegations too.
ActReadPending(r) ==
  \E d \in Delegations :
    status[d] \in {"pending", "active"} /\ Begin(r, "act", d, {"act"})

\* The interceptor finds some active delegation, and the handler that runs
\* after it (a warning, a payment) puts its id on record.
ActRead(r) == \E d \in Delegations : Active(d) /\ Begin(r, "act", d, {"act"})

ActWrite(r) ==
  /\ pc[r] = "act"
  /\ Done(r, "act")
  /\ acted' = acted \union {on[r]}
  /\ UNCHANGED <<rows, night, announced>>

\* Two routes put on record the delegation that the body names, for an award in
\* any case and for a payment when the interceptor found none.  Nobody looks at
\* its status, nor at whose it is: the row has only to exist.  (Where an act is
\* on record already another one changes nothing here.)
Claim(d) ==
  /\ status[d] # "none" /\ d \notin acted
  /\ acted' = acted \union {d}
  /\ UNCHANGED <<rows, req, night, announced>>

Read(r) == CreateRead(r) \/ RespondRead(r) \/ CancelRead(r) \/ ActRead(r)
Write(r) ==
  \/ CreateWrite(r) \/ RespondStatus(r) \/ RespondResponse(r)
  \/ CancelWrite(r) \/ ActWrite(r)

------------------------------------------------------------------------------
(* The night.                                                              *)

\* Midnight: the delegations that end on this day have ended.
Midnight ==
  /\ clock = "day" /\ clock' = "night"
  /\ \E more \in SUBSET Delegations : ended' = ended \union more
  /\ UNCHANGED <<status, responses, req, job, found, hist>>

Due == {d \in Delegations : Active(d) /\ d \in ended}

\* runDelegationComplete reads the rows for their events ...
CompleteFind ==
  /\ clock = "night" /\ job = "idle"
  /\ found' = Due
  /\ job' = "update"
  /\ UNCHANGED <<rows, req, clock, hist>>

\* Faulty variant: the update takes the active delegations that go on.
CompleteUpdateOthers ==
  /\ job = "update"
  /\ status' = [d \in Delegations |-> IF Active(d) /\ d \notin ended THEN "completed" ELSE status[d]]
  /\ announced' = announced \union found
  /\ job' = "done" /\ found' = {}
  /\ UNCHANGED <<ended, responses, req, clock, acted>>

\* Faulty variant: nothing is announced.
CompleteUpdateSilent ==
  /\ job = "update"
  /\ status' = [d \in Delegations |-> IF d \in Due THEN "completed" ELSE status[d]]
  /\ job' = "done" /\ found' = {}
  /\ UNCHANGED <<ended, responses, req, clock, hist>>

\* ... and completes those that are due by now.
CompleteUpdate ==
  /\ job = "update"
  /\ status' = [d \in Delegations |-> IF d \in Due THEN "completed" ELSE status[d]]
  /\ announced' = announced \union found
  /\ job' = "done" /\ found' = {}
  /\ UNCHANGED <<ended, responses, req, clock, acted>>

\* The night is over once the job has run.
Morning ==
  /\ clock = "night" /\ job = "done"
  /\ clock' = "day" /\ job' = "idle"
  /\ UNCHANGED <<rows, req, found, hist>>

------------------------------------------------------------------------------
Holds(r, d) == pc[r] # "idle" /\ on[r] = d /\ todo[r] \intersect {"status"} # {}

\* A row changes, or ends, that somebody has read and is to write, or a
\* delegation becomes active while another one is being created.
Overlap ==
  \/ \E r \in Requests, d \in Delegations :
       /\ Holds(r, d) /\ Holds(r, d)'
       /\ status'[d] # status[d] \/ (d \in ended' /\ d \notin ended)
  \/ job = "update" /\ \E d \in found : status'[d] = "cancelled"
  \/ job = "update" /\ job' = "update" /\ Due' # Due

Track == overlapped' = (overlapped \/ Overlap)

Requesting ==
  \/ \E r \in Requests : Read(r) \/ Write(r)
  \/ \E d \in Delegations : Claim(d)
Night == CompleteFind \/ CompleteUpdate \/ Midnight \/ Morning

Next == (Requesting \/ Night) /\ Track

Spec == Init /\ [][Next]_vars

\* Days pass and the job runs every night; requests may hang for ever.
Fairness == WF_vars(Night /\ Track)

FairSpec == Spec /\ Fairness

------------------------------------------------------------------------------
(* Properties.                                                             *)

TypeOK ==
  /\ status \in [Delegations -> Statuses]
  /\ ended \subseteq Delegations
  /\ responses \in [Delegations -> SUBSET Answers]
  /\ pc \in [Requests -> Steps]
  /\ on \in [Requests -> Delegations]
  /\ todo \in [Requests -> SUBSET {"status", "response", "act"}]
  /\ \A r \in Requests : pc[r] = "idle" <=> todo[r] = {}
  /\ clock \in {"day", "night"} /\ job \in {"idle", "update", "done"}
  /\ found \subseteq Delegations /\ announced \subseteq Delegations
  /\ acted \subseteq Delegations /\ overlapped \in BOOLEAN

Settled(d) == \A r \in Requests : ~(pc[r] # "idle" /\ on[r] = d)

\* The recorded response is the one in force, as long as nobody wrote over a
\* row that had changed: a rejected delegation was rejected and nothing else,
\* an active or completed one was accepted and nothing else.
AnswerOnRecord ==
  ~overlapped => \A d \in Delegations : Settled(d) =>
    /\ status[d] \in {"none", "pending"} => responses[d] = {}
    /\ status[d] = "rejected" => responses[d] = {"rejected"}
    /\ status[d] \in {"active", "completed"} => responses[d] = {"accepted"}

\* A delegation that was rejected, cancelled or completed never comes back,
\* with the same exception (cancel, respond, the job).
ClosedForGood ==
  [][~overlapped' => \A d \in Delegations :
       status[d] \in Closed => status'[d] = status[d]]_vars

\* An act is put on record under a delegation that was accepted (the response
\* is on record, or the request that accepts is under way), whatever overlaps
\* and is cancelled meanwhile -- unless the request named the delegation itself,
\* which nobody checks (the interceptor, and the handlers that take its id).
ActsWereAccepted ==
  [][\A d \in acted' \ acted :
       \/ "accepted" \in responses[d]
       \/ \E r \in Requests : pc[r] = "accepted" /\ on[r] = d
       \/ Claim(d)]_vars

\* By day no delegation is in force whose end has passed (respond refuses it,
\* the job completes it), with the same exception.
NoneOutlivesItsEnd ==
  ~overlapped /\ clock = "day" => \A d \in ended : ~Active(d)

\* Giver and recipient are told of exactly the delegations that completed.
CompletionAnnounced ==
  ~overlapped => announced = {d \in Delegations : status[d] = "completed"}

\* Status, response, end and announcement tell one story of a delegation, as
\* long as nobody wrote over a row that had changed (respond, cancel, the job).
RecordsAgree == AnswerOnRecord /\ NoneOutlivesItsEnd /\ CompletionAnnounced

\* Also when it was accepted while the job ran, a delegation that has ended
\* does not stay in force for ever.
EndedIsClosed ==
  \A d \in Delegations : [](d \in ended => <>(status[d] # "active"))
==============================================================================
