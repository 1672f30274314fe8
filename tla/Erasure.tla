------------------------------- MODULE Erasure -------------------------------
(***************************************************************************)
(* The requests of one person to have the personal data removed            *)
(* (privacy/privacy.service.ts).  The person asks and may withdraw, staff  *)
(* approve, and after fourteen days a nightly job removes the data in a    *)
(* transaction.  Every decision is taken on a row read before, and written *)
(* by id.                                                                  *)
(***************************************************************************)
EXTENDS Integers, FiniteSets

CONSTANTS
  Requests,   \* HTTP requests that can be in flight at the same time
  MaxAsks     \* bound: how often the person asks

VARIABLES
  asks,       \* data_deletion_requests.status
  due,        \* the requests whose scheduledFor has passed
  erased,     \* the user row and its traces were made anonymous
  found,      \* what the job read and has still to carry out
  pc, req,    \* where each request is, and what it carries
  overlapped, \* history: a row changed between a read and the write
  agreed      \* history: the requests that staff approved

rows == <<asks, due, erased, found, agreed>>
vars == <<rows, pc, req, overlapped>>

Ids == 1..MaxAsks
Open == {"pending", "scheduled"}
Final == {"cancelled", "completed"}
NoReq == [on |-> 0]

NeverAsked ==
  /\ asks = [i \in Ids |-> "none"]
  /\ due = {} /\ found = {} /\ agreed = {} /\ erased = FALSE

OpenAsks == {i \in Ids : asks[i] \in Open}

Read(r, step, i) ==
  /\ pc[r] = "idle"
  /\ pc' = [pc EXCEPT ![r] = step]
  /\ req' = [req EXCEPT ![r] = [on |-> i, was |-> IF i = 0 THEN "none" ELSE asks[i]]]
  /\ UNCHANGED <<rows, overlapped>>

Return(r) ==
  /\ pc' = [pc EXCEPT ![r] = "idle"]
  /\ req' = [req EXCEPT ![r] = NoReq]

\* A write by id, whatever the row has become.
Write(r, step, status) ==
  LET i == req[r].on IN
  /\ pc[r] = step
  /\ asks' = [asks EXCEPT ![i] = status]
  /\ overlapped' = (overlapped \/ asks[i] # req[r].was)
  /\ Return(r)

\* requestDeletion refuses while a request is open.
AskReads(r) == OpenAsks = {} /\ Read(r, "ask", 0)

AskCreates(r) ==
  /\ pc[r] = "ask"
  /\ \E i \in Ids :
       /\ asks[i] = "none" /\ \A j \in Ids : j < i => asks[j] # "none"
       /\ asks' = [asks EXCEPT ![i] = "pending"]
  /\ overlapped' = (overlapped \/ OpenAsks # {})
  /\ Return(r)
  /\ UNCHANGED <<due, erased, found, agreed>>

\* cancelDeletion finds an open request, approved or not.
CancelReads(r) == \E i \in OpenAsks : Read(r, "cancel", i)

CancelWrites(r) ==
  /\ Write(r, "cancel", "cancelled")
  /\ UNCHANGED <<due, erased, found, agreed>>

\* Faulty variant: whatever is not approved yet can be approved.
ApproveReadsAny(r) ==
  \E i \in Ids : asks[i] \in {"pending", "cancelled"} /\ Read(r, "approve", i)

ApproveReads(r) == \E i \in Ids : asks[i] = "pending" /\ Read(r, "approve", i)

ApproveWrites(r) ==
  /\ agreed' = agreed \union {req[r].on}
  /\ Write(r, "approve", "scheduled")
  /\ UNCHANGED <<due, erased, found>>

Step(r) ==
  \/ AskReads(r) \/ AskCreates(r) \/ CancelReads(r) \/ CancelWrites(r)
  \/ ApproveReads(r) \/ ApproveWrites(r)

------------------------------------------------------------------------------
\* Fourteen days after it was made.
TimePasses ==
  /\ \E i \in Ids \ due : asks[i] # "none" /\ due' = due \union {i}
  /\ UNCHANGED <<asks, erased, found, agreed, pc, req, overlapped>>

\* Faulty variant: the date is not looked at.
DueAnyTime == {i \in Ids : asks[i] = "scheduled"}

Due == {i \in due : asks[i] = "scheduled"}

JobReads ==
  /\ found = {} /\ Due # {}
  /\ found' = Due
  /\ UNCHANGED <<asks, due, erased, agreed, pc, req, overlapped>>

\* executeUserDeletion: all or nothing, but without a second look at the row.
JobErases ==
  \E i \in found :
    /\ erased' = TRUE
    /\ asks' = [asks EXCEPT ![i] = "completed"]
    /\ found' = found \ {i}
    /\ overlapped' = (overlapped \/ asks[i] # "scheduled")
    /\ UNCHANGED <<due, agreed, pc, req>>

\* The transaction is rolled back; another night tries again.
JobFails ==
  \E i \in found :
    /\ found' = found \ {i}
    /\ UNCHANGED <<asks, due, erased, agreed, pc, req, overlapped>>

Other == TimePasses \/ JobReads \/ JobErases \/ JobFails

------------------------------------------------------------------------------
\* Data are removed only for a request that was made, approved, not withdrawn
\* and fourteen days old (privacy.service.ts:86-140, 198-242), however often
\* the person asked and withdrew before, and there is one request at a time.
ErasedOnlyIfAsked ==
  ~overlapped =>
    /\ erased => \E i \in due \intersect agreed : asks[i] = "completed"
    /\ Cardinality(OpenAsks) <= 1

\* A request that was withdrawn or carried out stays so: the approval and the
\* job may hold it in their hands (privacy.service.ts:128-140, 198-206).
FinalStays ==
  [][\A i \in Ids : asks[i] \in Final => overlapped' \/ asks'[i] = asks[i]]_<<asks, overlapped>>
==============================================================================
