-------------------------- MODULE Delegation_proofs --------------------------
(* What holds of delegations for every number of them and every number of    *)
(* overlapping requests: the types, that what the interceptor finds was      *)
(* accepted, and that the rows agree unless one was written over.            *)
EXTENDS Delegation, TLAPS

Writes == {"status", "response", "act"}

Requested ==
  /\ pc \in [Requests -> Steps]
  /\ on \in [Requests -> Delegations]
  /\ todo \in [Requests -> SUBSET Writes]
  /\ \A r \in Requests : pc[r] = "idle" <=> todo[r] = {}

Recorded ==
  /\ status \in [Delegations -> Statuses]
  /\ ended \subseteq Delegations
  /\ responses \in [Delegations -> SUBSET Answers]

Nightly ==
  /\ clock \in {"day", "night"} /\ job \in {"idle", "update", "done"}
  /\ found \subseteq Delegations /\ announced \subseteq Delegations
  /\ acted \subseteq Delegations

State == Requested /\ Recorded /\ Nightly

LEMMA StateIsType == TypeOK <=> State /\ overlapped \in BOOLEAN
BY DEF TypeOK, State, Requested, Recorded, Nightly, Writes

LEMMA NobodyType == ASSUME NEW d \in Delegations PROVE Nobody \in Delegations
BY DEF Nobody

\* Beginning a request, and one of its writes, leave the requests well formed.
LEMMA BeginType ==
  ASSUME State, NEW r \in Requests, NEW step \in Steps \ {"idle"},
         NEW d \in Delegations, NEW writes \in SUBSET Writes, writes # {},
         Begin(r, step, d, writes)
  PROVE  Requested' /\ UNCHANGED <<rows, night, hist>>
<1>1. /\ pc' = [pc EXCEPT ![r] = step] /\ on' = [on EXCEPT ![r] = d]
      /\ todo' = [todo EXCEPT ![r] = writes] /\ UNCHANGED <<rows, night, hist>>
  BY DEF Begin
<1> QED
  BY <1>1 DEF State, Requested

LEMMA DoneType ==
  ASSUME State, NEW r \in Requests, NEW w, Done(r, w)
  PROVE  Requested'
<1>1. /\ w \in todo[r] /\ todo' = [todo EXCEPT ![r] = todo[r] \ {w}]
      /\ IF todo'[r] = {}
         THEN pc' = [pc EXCEPT ![r] = "idle"] /\ on' = [on EXCEPT ![r] = Nobody]
         ELSE UNCHANGED <<pc, on>>
  BY DEF Done
<1>2. on[r] \in Delegations /\ Nobody \in Delegations
  BY NobodyType DEF State, Requested
<1>3. "idle" \in Steps /\ pc[r] # "idle"
  BY <1>1 DEF State, Requested, Steps
<1>4. CASE todo'[r] = {}
  BY <1>1, <1>2, <1>3, <1>4 DEF State, Requested
<1>5. CASE todo'[r] # {}
  BY <1>1, <1>2, <1>3, <1>5 DEF State, Requested
<1> QED
  BY <1>4, <1>5

\* One step per action: the types.
LEMMA ReadType ==
  ASSUME State, NEW r \in Requests, Read(r)
  PROVE  State'
<1>1. Requested' /\ UNCHANGED <<rows, night, hist>>
  <2>1. CASE CreateRead(r)
    BY <2>1, BeginType DEF CreateRead, Steps, Writes
  <2>2. CASE RespondRead(r)
    BY <2>2, BeginType DEF RespondRead, Steps, Writes, Answers
  <2>3. CASE CancelRead(r)
    BY <2>3, BeginType DEF CancelRead, Steps, Writes
  <2>4. CASE ActRead(r)
    BY <2>4, BeginType DEF ActRead, Steps, Writes
  <2> QED
    BY <2>1, <2>2, <2>3, <2>4 DEF Read
<1> QED
  BY <1>1 DEF State, Recorded, Nightly, rows, night, hist

LEMMA WriteType ==
  ASSUME State, NEW r \in Requests, Write(r)
  PROVE  State'
<1>1. on[r] \in Delegations /\ Recorded /\ Nightly
  BY DEF State, Requested
<1>2. ASSUME CreateWrite(r) PROVE State'
  BY <1>1, <1>2, DoneType DEF CreateWrite, State, Recorded, Nightly, night, hist, Statuses
<1>3. ASSUME RespondStatus(r) PROVE State'
  BY <1>1, <1>3, DoneType DEF RespondStatus, State, Recorded, Nightly, night, hist, Statuses, Closed
<1>4. ASSUME RespondResponse(r) PROVE State'
  BY <1>1, <1>4, DoneType DEF RespondResponse, State, Recorded, Nightly, night, hist
<1>5. ASSUME CancelWrite(r) PROVE State'
  BY <1>1, <1>5, DoneType DEF CancelWrite, State, Recorded, Nightly, night, hist, Statuses, Closed
<1>6. ASSUME ActWrite(r) PROVE State'
  BY <1>1, <1>6, DoneType DEF ActWrite, State, Recorded, Nightly, rows, night
<1> QED
  BY <1>2, <1>3, <1>4, <1>5, <1>6 DEF Write

LEMMA ClaimType ==
  ASSUME State, NEW d \in Delegations, Claim(d)
  PROVE  State' /\ UNCHANGED <<rows, req, night, announced>>
BY DEF Claim, State, Requested, Recorded, Nightly, rows, req, night

LEMMA NightType ==
  ASSUME State, Night
  PROVE  State' /\ UNCHANGED <<req, responses, acted>>
<1>1. ASSUME CompleteFind PROVE State' /\ UNCHANGED <<req, responses, acted>>
  BY <1>1 DEF CompleteFind, State, Requested, Recorded, Nightly, rows, req, hist, Due
<1>2. ASSUME CompleteUpdate PROVE State' /\ UNCHANGED <<req, responses, acted>>
  BY <1>2 DEF CompleteUpdate, State, Requested, Recorded, Nightly, req, Statuses, Closed
<1>3. ASSUME Midnight PROVE State' /\ UNCHANGED <<req, responses, acted>>
  BY <1>3 DEF Midnight, State, Requested, Recorded, Nightly, req, hist
<1>4. ASSUME Morning PROVE State' /\ UNCHANGED <<req, responses, acted>>
  BY <1>4 DEF Morning, State, Requested, Recorded, Nightly, rows, req, hist
<1> QED
  BY <1>1, <1>2, <1>3, <1>4 DEF Night

------------------------------------------------------------------------------
(* Acceptance.  A delegation counts as accepted once the response is on      *)
(* record or is still to be written by a request that accepts; this is       *)
(* stable, holds of every active delegation, and so of every one that the    *)
(* interceptor found for some request.                                       *)

Accepting(r, d) == pc[r] = "accepted" /\ on[r] = d /\ "response" \in todo[r]

Accepted(d) ==
  "accepted" \in responses[d] \/ \E r \in Requests : Accepting(r, d)

Accounted ==
  /\ \A d \in Delegations : Active(d) => Accepted(d)
  /\ \A r \in Requests : pc[r] \in {"act", "accepted"} => Accepted(on[r])

Inv == State /\ Accounted

\* Acceptance is stable while requests begin.
LEMMA BeginAccounted ==
  ASSUME Inv, NEW r \in Requests, NEW step \in Steps \ {"idle"},
         NEW d \in Delegations, NEW writes \in SUBSET Writes, writes # {},
         Begin(r, step, d, writes),
         step = "act" => Accepted(d),
         step = "accepted" => "response" \in writes
  PROVE  Accounted'
<1>1. /\ pc[r] = "idle" /\ pc' = [pc EXCEPT ![r] = step]
      /\ on' = [on EXCEPT ![r] = d] /\ todo' = [todo EXCEPT ![r] = writes]
      /\ UNCHANGED <<status, responses, acted>>
  BY DEF Begin, rows, hist
<1>2. /\ pc \in [Requests -> Steps] /\ on \in [Requests -> Delegations]
      /\ todo \in [Requests -> SUBSET Writes]
  BY DEF Inv, State, Requested
<1>3. ASSUME NEW e \in Delegations, Accepted(e) PROVE Accepted(e)'
  <2>1. ASSUME NEW s \in Requests, Accepting(s, e) PROVE Accepting(s, e)'
    <3>1. s # r
      BY <1>1, <2>1 DEF Accepting
    <3> QED
      BY <1>1, <1>2, <2>1, <3>1 DEF Accepting
  <2> QED
    BY <1>1, <1>3, <2>1 DEF Accepted
<1>4. ASSUME NEW s \in Requests, pc'[s] \in {"act", "accepted"} PROVE Accepted(on[s])'
  <2>1. CASE s # r
    <3>1. on'[s] = on[s] /\ pc[s] \in {"act", "accepted"} /\ on[s] \in Delegations
      BY <1>1, <1>2, <1>4, <2>1
    <3> QED
      BY <3>1, <1>3 DEF Inv, Accounted, Accepted, Accepting
  <2>2. CASE s = r
    <3>1. on'[r] = d /\ pc'[r] = step /\ todo'[r] = writes
      BY <1>1, <1>2
    <3>2. CASE step = "act"
      BY <3>1, <3>2, <2>2, <1>3 DEF Accepted, Accepting
    <3>3. CASE step = "accepted"
      BY <3>1, <3>3, <2>2 DEF Accepted, Accepting
    <3> QED
      BY <3>1, <3>2, <3>3, <1>4, <2>2
  <2> QED
    BY <2>1, <2>2
<1>5. \A e \in Delegations : Active(e)' => Accepted(e)
  BY <1>1 DEF Inv, Accounted, Active
<1> QED
  BY <1>3, <1>4, <1>5 DEF Accounted

\* A write takes acceptance from nobody, if the response an accepting request
\* writes is recorded.
LEMMA DoneKeepsAccepted ==
  ASSUME Inv, NEW r \in Requests, NEW w, Done(r, w),
         \A e \in Delegations : responses[e] \subseteq responses'[e],
         pc[r] = "accepted" /\ w = "response" => "accepted" \in responses'[on[r]],
         NEW d \in Delegations, Accepted(d)
  PROVE  Accepted(d)'
<1>1. /\ todo' = [todo EXCEPT ![r] = todo[r] \ {w}]
      /\ IF todo'[r] = {}
         THEN pc' = [pc EXCEPT ![r] = "idle"] /\ on' = [on EXCEPT ![r] = Nobody]
         ELSE UNCHANGED <<pc, on>>
  BY DEF Done
<1>2. /\ pc \in [Requests -> Steps] /\ on \in [Requests -> Delegations]
      /\ todo \in [Requests -> SUBSET Writes]
  BY DEF Inv, State, Requested
<1>3. CASE "accepted" \in responses[d]
  BY <1>3 DEF Accepted
<1>4. ASSUME NEW s \in Requests, Accepting(s, d) PROVE Accepted(d)'
  <2>1. CASE s # r
    <3>1. Accepting(s, d)'
      BY <1>1, <1>2, <1>4, <2>1 DEF Accepting
    <3> QED
      BY <3>1 DEF Accepted
  <2>2. CASE s = r /\ w = "response"
    BY <1>4, <2>2 DEF Accepting, Accepted
  <2>3. CASE s = r /\ w # "response"
    <3>1. "response" \in todo'[r]
      BY <1>1, <1>2, <1>4, <2>3 DEF Accepting
    <3>2. Accepting(r, d)'
      BY <1>1, <1>4, <2>3, <3>1 DEF Accepting
    <3> QED
      BY <3>2 DEF Accepted
  <2> QED
    BY <2>1, <2>2, <2>3
<1> QED
  BY <1>3, <1>4 DEF Accepted

\* A request that goes on after a write is about the delegation it was about.
LEMMA DoneKeepsOthers ==
  ASSUME Inv, NEW r \in Requests, NEW w, Done(r, w),
         NEW s \in Requests, pc'[s] \in {"act", "accepted"}
  PROVE  pc[s] = pc'[s] /\ on'[s] = on[s] /\ on[s] \in Delegations
<1>1. /\ IF todo'[r] = {}
         THEN pc' = [pc EXCEPT ![r] = "idle"] /\ on' = [on EXCEPT ![r] = Nobody]
         ELSE UNCHANGED <<pc, on>>
  BY DEF Done
<1>2. pc \in [Requests -> Steps] /\ on \in [Requests -> Delegations]
  BY DEF Inv, State, Requested
<1>3. CASE todo'[r] = {}
  BY <1>1, <1>2, <1>3
<1>4. CASE todo'[r] # {}
  BY <1>1, <1>2, <1>4
<1> QED
  BY <1>3, <1>4

LEMMA ReadAccounted ==
  ASSUME Inv, NEW r \in Requests, Read(r)
  PROVE  Accounted'
<1>1. ASSUME CreateRead(r) PROVE Accounted'
  BY <1>1, BeginAccounted DEF CreateRead, Steps, Writes
<1>2. ASSUME RespondRead(r) PROVE Accounted'
  BY <1>2, BeginAccounted DEF RespondRead, Steps, Writes, Answers
<1>3. ASSUME CancelRead(r) PROVE Accounted'
  BY <1>3, BeginAccounted DEF CancelRead, Steps, Writes
<1>4. ASSUME ActRead(r) PROVE Accounted'
  <2>1. PICK d \in Delegations : Active(d) /\ Begin(r, "act", d, {"act"})
    BY <1>4 DEF ActRead
  <2>2. Accepted(d)
    BY <2>1 DEF Inv, Accounted
  <2> QED
    BY <2>1, <2>2, BeginAccounted DEF Steps, Writes
<1> QED
  BY <1>1, <1>2, <1>3, <1>4 DEF Read

LEMMA WriteAccounted ==
  ASSUME Inv, NEW r \in Requests, Write(r)
  PROVE  Accounted'
<1>1. /\ on[r] \in Delegations /\ responses \in [Delegations -> SUBSET Answers]
      /\ status \in [Delegations -> Statuses]
  BY DEF Inv, State, Requested, Recorded
<1>2. PICK w : Done(r, w) /\ (pc[r] = "accepted" /\ w = "response" => RespondResponse(r))
  BY DEF Write, CreateWrite, RespondStatus, RespondResponse, CancelWrite, ActWrite, Answers
<1>3. \A e \in Delegations : responses[e] \subseteq responses'[e]
  BY <1>1 DEF Write, CreateWrite, RespondStatus, RespondResponse, CancelWrite, ActWrite, rows
<1>4. pc[r] = "accepted" /\ w = "response" => "accepted" \in responses'[on[r]]
  BY <1>1, <1>2 DEF RespondResponse
<1>5. \A d \in Delegations : Accepted(d) => Accepted(d)'
  BY <1>2, <1>3, <1>4, DoneKeepsAccepted
<1>6. ASSUME NEW d \in Delegations, Active(d)' PROVE Accepted(d)
  <2>1. CASE Active(d)
    BY <2>1 DEF Inv, Accounted
  <2>2. CASE ~Active(d)
    <3>1. pc[r] = "accepted" /\ d = on[r]
      BY <1>1, <1>6, <2>2 DEF Active, Write, CreateWrite, RespondStatus, RespondResponse, CancelWrite, ActWrite, rows
    <3> QED
      BY <3>1 DEF Inv, Accounted
  <2> QED
    BY <2>1, <2>2
<1>7. ASSUME NEW s \in Requests, pc'[s] \in {"act", "accepted"} PROVE Accepted(on[s])'
  <2>1. pc[s] = pc'[s] /\ on'[s] = on[s] /\ on[s] \in Delegations
    BY <1>2, <1>7, DoneKeepsOthers
  <2>2. Accepted(on[s])
    BY <1>7, <2>1 DEF Inv, Accounted
  <2> QED
    BY <1>5, <2>1, <2>2 DEF Accepted, Accepting
<1> QED
  BY <1>5, <1>6, <1>7 DEF Accounted

LEMMA NightAccounted ==
  ASSUME Inv, Night
  PROVE  Accounted'
<1>1. UNCHANGED <<req, responses, acted>>
  BY NightType DEF Inv
<1>2. \A d \in Delegations : Active(d)' => Active(d)
  BY DEF Night, CompleteFind, CompleteUpdate, Midnight, Morning, Active, rows
<1> QED
  BY <1>1, <1>2 DEF Inv, Accounted, Accepted, Accepting, req

\* The invariant is inductive.
LEMMA InvInductive == Spec => []Inv
<1>1. ASSUME Init PROVE Inv
  <2>1. Nobody \in Delegations
    BY DelegationsAssumption, NobodyType
  <2>2. State
    BY <1>1, <2>1 DEF Init, State, Requested, Recorded, Nightly, Steps, Statuses, Writes
  <2>3. Accounted
    BY <1>1 DEF Init, Accounted, Active
  <2> QED
    BY <2>2, <2>3 DEF Inv
<1>2. ASSUME Inv, [Next]_vars PROVE Inv'
  <2>1. ASSUME NEW r \in Requests, Read(r) \/ Write(r) PROVE Inv'
    BY <1>2, <2>1, ReadType, WriteType, ReadAccounted, WriteAccounted DEF Inv
  <2>2. ASSUME Night PROVE Inv'
    BY <1>2, <2>2, NightType, NightAccounted DEF Inv
  <2>3. ASSUME NEW d \in Delegations, Claim(d) PROVE Inv'
    BY <1>2, <2>3, ClaimType DEF rows, req, Inv, Accounted, Accepted, Accepting, Active
  <2>4. ASSUME UNCHANGED vars PROVE Inv'
    BY <1>2, <2>4 DEF vars, rows, req, night, hist, Inv, State, Requested, Recorded, Nightly,
                      Accounted, Accepted, Accepting, Active
  <2> QED
    BY <1>2, <2>1, <2>2, <2>3, <2>4 DEF Next, Requesting
<1> QED
  BY <1>1, <1>2, PTL DEF Spec

\* Every variable of the delegations stays in its type.
THEOREM TypeCorrect == Spec => []TypeOK
<1>1. Init => overlapped \in BOOLEAN
  BY DEF Init
<1>2. overlapped \in BOOLEAN /\ [Next]_vars => (overlapped \in BOOLEAN)'
  BY DEF Next, Track, vars
<1>3. Inv /\ overlapped \in BOOLEAN => TypeOK
  BY StateIsType DEF Inv
<1> QED
  BY <1>1, <1>2, <1>3, InvInductive, PTL DEF Spec

\* Every step puts on record only delegations that were accepted, whatever
\* overlaps, unless it is a request that names the delegation itself.
LEMMA StepActsAccepted ==
  ASSUME Inv, [Next]_vars, NEW d \in acted' \ acted
  PROVE  \/ "accepted" \in responses[d]
         \/ \E r \in Requests : pc[r] = "accepted" /\ on[r] = d
         \/ Claim(d)
<1>1. CASE UNCHANGED vars
  BY <1>1 DEF vars, hist
<1>2. ASSUME NEW r \in Requests, Read(r) PROVE FALSE
  BY <1>2 DEF Read, CreateRead, RespondRead, CancelRead, ActRead, Begin, hist
<1>3. ASSUME NEW r \in Requests, Write(r) PROVE Accepted(d)
  <2>1. pc[r] = "act" /\ d = on[r]
    BY <1>3 DEF Write, CreateWrite, RespondStatus, RespondResponse, CancelWrite, ActWrite, hist
  <2> QED
    BY <2>1 DEF Inv, Accounted
<1>4. ASSUME NEW e \in Delegations, Claim(e) PROVE Claim(d)
  <2>1. d = e
    BY <1>4 DEF Claim
  <2> QED
    BY <1>4, <2>1
<1>5. CASE Night
  BY <1>5, NightType DEF Inv
<1> QED
  BY <1>1, <1>2, <1>3, <1>4, <1>5 DEF Next, Requesting, Accepted, Accepting

\* What the interceptor finds and a handler puts on record was accepted (it finds
\* active delegations only, and only an acceptance makes one), whatever overlaps.
\* The delegations that a request names itself are outside the theorem.
THEOREM FoundWasAccepted == Spec => ActsWereAccepted
<1>1. Inv /\ [Next]_vars =>
        [\A d \in acted' \ acted :
           \/ "accepted" \in responses[d]
           \/ \E r \in Requests : pc[r] = "accepted" /\ on[r] = d
           \/ Claim(d)]_vars
  BY StepActsAccepted
<1> QED
  BY <1>1, InvInductive, PTL DEF Spec, ActsWereAccepted

------------------------------------------------------------------------------
(* Agreement.  As long as nobody wrote over a row that had changed, what a   *)
(* request has read and is to write back still stands.  Two requests that    *)
(* hold the same row cannot both write it unnoticed; so whoever writes the   *)
(* status is the only one who answers, and his response is the only one.     *)

Outcome == [accepted |-> {"active", "completed"}, rejected |-> {"rejected"}]

\* What a request read of the status it is to write still stands.
HeldStands ==
  \A r \in Requests : "status" \in todo[r] =>
    /\ pc[r] = "create" => status[on[r]] = "none"
    /\ pc[r] \in Answers => status[on[r]] = "pending" /\ on[r] \notin ended
    /\ pc[r] = "cancel" => status[on[r]] \in {"pending", "active"}

\* A request that answers has its response on record, or is to write it.
Told ==
  \A r \in Requests :
    pc[r] \in Answers => "response" \in todo[r] \/ pc[r] \in responses[on[r]]

Answering(r, a, d) == pc[r] = a /\ on[r] = d

\* Who answers an undecided delegation has not written its status, and nobody
\* else has left a response.
Undecided(d) ==
  status[d] \in {"none", "pending"} =>
    /\ \A r \in Requests, a \in Answers : Answering(r, a, d) => "status" \in todo[r]
    /\ \A a \in responses[d] : \E r \in Requests : Answering(r, a, d) /\ "status" \in todo[r]

\* A delegation was decided by the one answer that is on record or is to be
\* written.
Decided(d) ==
  \A a \in Answers : status[d] \in Outcome[a] =>
    /\ responses[d] \subseteq {a}
    /\ \A r \in Requests, b \in Answers : Answering(r, b, d) => b = a
    /\ a \in responses[d] \/ \E r \in Requests : Answering(r, a, d) /\ "response" \in todo[r]

Sound == HeldStands /\ \A d \in Delegations : Undecided(d) /\ Decided(d)

\* By day, and once the job has run, no delegation is overdue; while the job
\* runs it has found those that are.
Punctual ==
  /\ clock = "day" \/ job = "done" => Due = {}
  /\ job = "update" => found = Due
  /\ announced = {d \in Delegations : status[d] = "completed"}

Agreed ==
  /\ State
  /\ Told
  /\ clock = "day" => job = "idle"
  /\ overlapped \in BOOLEAN
  /\ ~overlapped => Sound /\ Punctual

\* What beginning a request does to the requests.
LEMMA BeginMoves ==
  ASSUME State, NEW r \in Requests, NEW step \in Steps \ {"idle"},
         NEW d \in Delegations, NEW writes \in SUBSET Writes, Begin(r, step, d, writes)
  PROVE  /\ pc[r] = "idle" /\ pc'[r] = step /\ on'[r] = d /\ todo'[r] = writes
         /\ \A s \in Requests \ {r} : pc'[s] = pc[s] /\ on'[s] = on[s] /\ todo'[s] = todo[s]
         /\ UNCHANGED <<status, ended, responses, clock, job, found, announced>>
BY DEF Begin, State, Requested, rows, night, hist

\* What one of its writes does to them.
LEMMA DoneMoves ==
  ASSUME State, NEW r \in Requests, NEW w, Done(r, w)
  PROVE  /\ w \in todo[r] /\ pc[r] # "idle" /\ todo'[r] = todo[r] \ {w}
         /\ todo'[r] # {} => pc'[r] = pc[r] /\ on'[r] = on[r]
         /\ todo'[r] = {} => pc'[r] = "idle"
         /\ \A s \in Requests \ {r} : pc'[s] = pc[s] /\ on'[s] = on[s] /\ todo'[s] = todo[s]
<1>1. /\ w \in todo[r] /\ todo' = [todo EXCEPT ![r] = todo[r] \ {w}]
      /\ IF todo'[r] = {}
         THEN pc' = [pc EXCEPT ![r] = "idle"] /\ on' = [on EXCEPT ![r] = Nobody]
         ELSE UNCHANGED <<pc, on>>
  BY DEF Done
<1>2. CASE todo'[r] = {}
  BY <1>1, <1>2 DEF State, Requested
<1>3. CASE todo'[r] # {}
  BY <1>1, <1>3 DEF State, Requested
<1> QED
  BY <1>2, <1>3

\* A row that somebody held before and after a step did not change.
LEMMA HeldUntouched ==
  ASSUME State, Track, ~overlapped', NEW r \in Requests,
         "status" \in todo[r], "status" \in todo'[r],
         pc[r] # "idle", pc'[r] = pc[r], on'[r] = on[r]
  PROVE  status'[on[r]] = status[on[r]] /\ (on[r] \in ended' => on[r] \in ended)
<1>1. on[r] \in Delegations /\ Holds(r, on[r]) /\ Holds(r, on[r])'
  BY DEF Holds, State, Requested
<1> QED
  BY <1>1 DEF Track, Overlap

\* A request that begins.
LEMMA ReadSound ==
  ASSUME Agreed, NEW r \in Requests, Read(r)
  PROVE  /\ Told'
         /\ UNCHANGED <<status, ended, responses, clock, job, found, announced>>
         /\ ~overlapped => Sound'
<1>1. PICK step \in Steps \ {"idle"}, d \in Delegations, writes \in SUBSET Writes :
        /\ Begin(r, step, d, writes)
        /\ step = "create" => status[d] = "none"
        /\ step \in Answers => status[d] = "pending" /\ d \notin ended /\ writes = {"status", "response"}
        /\ step = "cancel" => status[d] \in {"pending", "active"}
  <2>1. ASSUME CreateRead(r) PROVE \E d \in Delegations : status[d] = "none" /\ Begin(r, "create", d, {"status"})
    BY <2>1 DEF CreateRead
  <2>2. ASSUME RespondRead(r) PROVE \E d \in Delegations \ ended, a \in Answers : status[d] = "pending" /\ Begin(r, a, d, {"status", "response"})
    BY <2>2 DEF RespondRead
  <2>3. ASSUME CancelRead(r) PROVE \E d \in Delegations : status[d] \in {"pending", "active"} /\ Begin(r, "cancel", d, {"status"})
    BY <2>3 DEF CancelRead
  <2>4. ASSUME ActRead(r) PROVE \E d \in Delegations : Begin(r, "act", d, {"act"})
    BY <2>4 DEF ActRead
  <2> QED
    BY <2>1, <2>2, <2>3, <2>4 DEF Read, Steps, Writes, Answers
<1>2. /\ pc[r] = "idle" /\ pc'[r] = step /\ on'[r] = d /\ todo'[r] = writes
      /\ \A s \in Requests \ {r} : pc'[s] = pc[s] /\ on'[s] = on[s] /\ todo'[s] = todo[s]
      /\ UNCHANGED <<status, ended, responses, clock, job, found, announced>>
  BY <1>1, BeginMoves DEF Agreed
<1>3. Told'
  BY <1>1, <1>2 DEF Agreed, Told
<1>4. ASSUME ~overlapped PROVE HeldStands'
  BY <1>1, <1>2, <1>4 DEF Agreed, Sound, HeldStands
<1>5. ASSUME ~overlapped, NEW e \in Delegations PROVE Undecided(e)'
  <2>1. Undecided(e)
    BY <1>5 DEF Agreed, Sound
  <2>2. ASSUME NEW s \in Requests, NEW a \in Answers, Answering(s, a, e) PROVE Answering(s, a, e)' /\ todo'[s] = todo[s]
    BY <1>2, <2>2 DEF Answering, Answers
  <2>3. \A s \in Requests \ {r}, a \in Answers : Answering(s, a, e)' => Answering(s, a, e)
    BY <1>2 DEF Answering
  <2>4. responses[e] \subseteq Answers
    BY DEF Agreed, State, Recorded
  <2>5. \A a \in Answers : Answering(r, a, e)' => "status" \in todo'[r]
    BY <1>1, <1>2 DEF Answering
  <2>6. \A s \in Requests \ {r} : todo'[s] = todo[s]
    BY <1>2
  <2> QED
    BY <1>2, <2>1, <2>2, <2>3, <2>4, <2>5, <2>6 DEF Undecided
<1>6. ASSUME ~overlapped, NEW e \in Delegations PROVE Decided(e)'
  <2>1. Decided(e)
    BY <1>6 DEF Agreed, Sound
  <2>2. ASSUME NEW s \in Requests, NEW a \in Answers, Answering(s, a, e) PROVE Answering(s, a, e)' /\ todo'[s] = todo[s]
    BY <1>2, <2>2 DEF Answering, Answers
  <2>3. ASSUME NEW a \in Answers, status[e] \in Outcome[a], NEW s \in Requests, NEW b \in Answers, Answering(s, b, e)'
        PROVE  Answering(s, b, e)
    <3>1. status[e] # "pending"
      BY <2>3 DEF Outcome, Answers
    <3>2. s # r
      BY <1>1, <1>2, <2>3, <3>1 DEF Answering
    <3> QED
      BY <1>2, <2>3, <3>2 DEF Answering
  <2> QED
    BY <1>2, <2>1, <2>2, <2>3 DEF Decided
<1> QED
  BY <1>2, <1>3, <1>4, <1>5, <1>6 DEF Sound

\* A write of a request: what the requests that are still under way hold of the
\* rows stands, if the write changes no response.
LEMMA WriteHeld ==
  ASSUME Agreed, NEW r \in Requests, NEW w, Done(r, w), Track, ~overlapped'
  PROVE  HeldStands'
<1>1. /\ w \in todo[r] /\ pc[r] # "idle" /\ todo'[r] = todo[r] \ {w}
      /\ todo'[r] # {} => pc'[r] = pc[r] /\ on'[r] = on[r]
      /\ \A s \in Requests \ {r} : pc'[s] = pc[s] /\ on'[s] = on[s] /\ todo'[s] = todo[s]
  BY DoneMoves DEF Agreed
<1>2. HeldStands
  BY DEF Track, Agreed, Sound
<1>3. ASSUME NEW s \in Requests, "status" \in todo'[s]
      PROVE  /\ "status" \in todo[s] /\ pc[s] # "idle" /\ pc'[s] = pc[s] /\ on'[s] = on[s]
             /\ status'[on[s]] = status[on[s]] /\ (on[s] \in ended' => on[s] \in ended)
  <2>1. "status" \in todo[s] /\ pc'[s] = pc[s] /\ on'[s] = on[s]
    BY <1>1, <1>3
  <2>2. pc[s] # "idle"
    BY <2>1 DEF Agreed, State, Requested
  <2> QED
    BY <1>3, <2>1, <2>2, HeldUntouched DEF Agreed
<1> QED
  BY <1>2, <1>3 DEF HeldStands

\* It takes no answer from another delegation.
LEMMA WriteElsewhere ==
  ASSUME Agreed, NEW r \in Requests, NEW w, Done(r, w), ~overlapped,
         NEW d \in Delegations, status'[d] = status[d], responses'[d] = responses[d],
         pc[r] \in Answers => d # on[r]
  PROVE  Undecided(d)' /\ Decided(d)'
<1>1. /\ pc[r] # "idle"
      /\ todo'[r] # {} => pc'[r] = pc[r] /\ on'[r] = on[r]
      /\ todo'[r] = {} => pc'[r] = "idle"
      /\ \A s \in Requests \ {r} : pc'[s] = pc[s] /\ on'[s] = on[s] /\ todo'[s] = todo[s]
  BY DoneMoves DEF Agreed
<1>2. ASSUME NEW s \in Requests, NEW a \in Answers
      PROVE  /\ Answering(s, a, d)' <=> Answering(s, a, d)
             /\ Answering(s, a, d) => todo'[s] = todo[s]
  <2>1. CASE s = r
    BY <1>1, <2>1 DEF Answering, Answers
  <2>2. CASE s # r
    BY <1>1, <2>2 DEF Answering
  <2> QED
    BY <2>1, <2>2
<1>3. Undecided(d) /\ Decided(d) /\ responses[d] \subseteq Answers
  BY DEF Agreed, Sound, State, Recorded
<1>4. Undecided(d)'
  BY <1>2, <1>3 DEF Undecided
<1>5. Decided(d)'
  BY <1>2, <1>3 DEF Decided
<1> QED
  BY <1>4, <1>5

\* Who writes the status of a delegation unnoticed is the only one who holds it.
LEMMA LoneWriter ==
  ASSUME Agreed, NEW r \in Requests, Done(r, "status"), Track, ~overlapped',
         status'[on[r]] # status[on[r]],
         NEW s \in Requests, "status" \in todo[s], on[s] = on[r]
  PROVE  s = r
<1> SUFFICES ASSUME s # r PROVE FALSE
  OBVIOUS
<1>1. pc'[s] = pc[s] /\ on'[s] = on[s] /\ todo'[s] = todo[s]
  BY DoneMoves DEF Agreed
<1>2. pc[s] # "idle"
  BY DEF Agreed, State, Requested
<1> QED
  BY <1>1, <1>2, HeldUntouched DEF Agreed

\* One lemma per write.
LEMMA CreateSound ==
  ASSUME Agreed, NEW r \in Requests, CreateWrite(r), Track, ~overlapped'
  PROVE  \A d \in Delegations : Undecided(d)' /\ Decided(d)'
<1>1. /\ pc[r] = "create" /\ Done(r, "status") /\ "status" \in todo[r]
      /\ status' = [status EXCEPT ![on[r]] = "pending"] /\ responses' = responses
  BY DEF CreateWrite, Done
<1>2. /\ ~overlapped /\ Sound /\ status \in [Delegations -> Statuses] /\ on[r] \in Delegations
      /\ responses \in [Delegations -> SUBSET Answers]
  BY DEF Track, Agreed, State, Recorded, Requested
<1>0. PICK d \in Delegations : d = on[r]
  BY <1>2
<1>3. status[d] = "none"
  BY <1>0, <1>1, <1>2 DEF Sound, HeldStands
<1>4. ASSUME NEW s \in Requests, NEW a \in Answers PROVE ~ Answering(s, a, d)
  <2>1. Answering(s, a, d) => "status" \in todo[s]
    BY <1>2, <1>3 DEF Sound, Undecided
  <2> QED
    BY <1>2, <1>3, <2>1 DEF Sound, HeldStands, Answering
<1>5. responses[d] = {}
  BY <1>2, <1>3, <1>4 DEF Sound, Undecided
<1>6. ASSUME NEW s \in Requests, NEW a \in Answers PROVE ~ Answering(s, a, d)'
  <2>1. pc'[s] # "idle" => pc'[s] = pc[s] /\ on'[s] = on[s]
    BY <1>1, DoneMoves DEF Agreed
  <2> QED
    BY <1>4, <2>1 DEF Answering, Answers
<1>7. status'[d] = "pending" /\ responses'[d] = {}
  BY <1>0, <1>1, <1>2, <1>5
<1>8. Undecided(d)' /\ Decided(d)'
  <2>1. \A a \in Answers : status'[d] \notin Outcome[a]
    BY <1>7 DEF Outcome, Answers
  <2> QED
    BY <1>6, <1>7, <2>1 DEF Undecided, Decided
<1>9. ASSUME NEW e \in Delegations, e # d PROVE Undecided(e)' /\ Decided(e)'
  BY <1>0, <1>1, <1>2, <1>9, WriteElsewhere
<1> QED
  BY <1>8, <1>9

LEMMA RespondStatusSound ==
  ASSUME Agreed, NEW r \in Requests, RespondStatus(r), Track, ~overlapped'
  PROVE  \A d \in Delegations : Undecided(d)' /\ Decided(d)'
<1>1. /\ pc[r] \in Answers /\ Done(r, "status") /\ "status" \in todo[r] /\ responses' = responses
      /\ status' = [status EXCEPT ![on[r]] = IF pc[r] = "accepted" THEN "active" ELSE "rejected"]
  BY DEF RespondStatus, Done
<1>2. /\ ~overlapped /\ Sound /\ status \in [Delegations -> Statuses] /\ on[r] \in Delegations
      /\ responses \in [Delegations -> SUBSET Answers]
  BY DEF Track, Agreed, State, Recorded, Requested
<1>3. PICK d \in Delegations, a \in Answers : d = on[r] /\ a = pc[r]
  BY <1>1, <1>2
<1>4. status[d] = "pending"
  BY <1>1, <1>2, <1>3 DEF Sound, HeldStands
<1>5. /\ status'[d] \in Outcome[a] /\ status'[d] # "pending" /\ status'[d] # "none"
      /\ \A b \in Answers : status'[d] \in Outcome[b] => b = a
  BY <1>1, <1>2, <1>3 DEF Outcome, Answers
<1>6. ASSUME NEW s \in Requests, NEW b \in Answers, Answering(s, b, d) PROVE s = r /\ b = a
  <2>1. "status" \in todo[s] /\ on[s] = d
    BY <1>2, <1>4, <1>6 DEF Sound, Undecided, Answering
  <2> QED
    BY <1>1, <1>3, <1>4, <1>5, <1>6, <2>1, LoneWriter DEF Answering
<1>7. responses[d] \subseteq {a}
  BY <1>2, <1>4, <1>6 DEF Sound, Undecided
<1>8. /\ todo'[r] = todo[r] \ {"status"}
      /\ todo'[r] # {} => pc'[r] = pc[r] /\ on'[r] = on[r]
      /\ \A s \in Requests : pc'[s] # "idle" => pc'[s] = pc[s] /\ on'[s] = on[s]
  BY <1>1, DoneMoves DEF Agreed
<1>9. a \in responses[d] \/ (Answering(r, a, d) /\ "response" \in todo[r])
  BY <1>1, <1>3 DEF Agreed, Told, Answering
<1>10. a \in responses'[d] \/ (Answering(r, a, d)' /\ "response" \in todo'[r])
  BY <1>1, <1>8, <1>9 DEF Answering
<1>11. \A s \in Requests, b \in Answers : Answering(s, b, d)' => b = a
  BY <1>6, <1>8 DEF Answering, Answers
<1>12. Undecided(d)' /\ Decided(d)'
  BY <1>1, <1>5, <1>7, <1>10, <1>11 DEF Undecided, Decided
<1>13. ASSUME NEW e \in Delegations, e # d PROVE Undecided(e)' /\ Decided(e)'
  BY <1>1, <1>2, <1>3, <1>13, WriteElsewhere
<1> QED
  BY <1>12, <1>13

LEMMA RespondResponseSound ==
  ASSUME Agreed, NEW r \in Requests, RespondResponse(r), ~overlapped
  PROVE  \A d \in Delegations : Undecided(d)' /\ Decided(d)'
<1>1. /\ pc[r] \in Answers /\ Done(r, "response") /\ status' = status
      /\ responses' = [responses EXCEPT ![on[r]] = @ \union {pc[r]}]
  BY DEF RespondResponse
<1>2. Sound /\ on[r] \in Delegations /\ responses \in [Delegations -> SUBSET Answers]
  BY DEF Agreed, State, Recorded, Requested
<1>3. PICK d \in Delegations, a \in Answers : d = on[r] /\ a = pc[r]
  BY <1>1, <1>2
<1>4. responses'[d] = responses[d] \union {a} /\ Answering(r, a, d)
  BY <1>1, <1>2, <1>3 DEF Answering
<1>5. /\ todo'[r] = todo[r] \ {"response"}
      /\ todo'[r] # {} => pc'[r] = pc[r] /\ on'[r] = on[r]
      /\ todo'[r] = {} => pc'[r] = "idle"
      /\ \A s \in Requests \ {r} : pc'[s] = pc[s] /\ on'[s] = on[s] /\ todo'[s] = todo[s]
  BY <1>1, DoneMoves DEF Agreed
<1>6. ASSUME NEW s \in Requests, NEW b \in Answers, Answering(s, b, d)'
      PROVE  Answering(s, b, d) /\ ("status" \in todo[s] => "status" \in todo'[s])
  <2>1. CASE s = r
    BY <1>5, <1>6, <2>1 DEF Answering, Answers
  <2>2. CASE s # r
    BY <1>5, <1>6, <2>2 DEF Answering
  <2> QED
    BY <2>1, <2>2
<1>7. ASSUME NEW s \in Requests, NEW b \in Answers, Answering(s, b, d), "status" \in todo[s]
      PROVE  Answering(s, b, d)' /\ "status" \in todo'[s]
  <2>1. CASE s = r
    <3>1. "status" \in todo'[r]
      BY <1>5, <1>7, <2>1
    <3> QED
      BY <1>5, <1>7, <2>1, <3>1 DEF Answering
  <2>2. CASE s # r
    BY <1>5, <1>7, <2>2 DEF Answering
  <2> QED
    BY <2>1, <2>2
<1>8. Undecided(d) /\ Decided(d) /\ responses[d] \subseteq Answers
  BY <1>2 DEF Sound
<1>9. Undecided(d)'
  BY <1>1, <1>4, <1>6, <1>7, <1>8 DEF Undecided
<1>10. Decided(d)'
  BY <1>1, <1>4, <1>6, <1>8 DEF Decided
<1>11. ASSUME NEW e \in Delegations, e # d PROVE Undecided(e)' /\ Decided(e)'
  BY <1>1, <1>2, <1>3, <1>11, WriteElsewhere
<1> QED
  BY <1>9, <1>10, <1>11

LEMMA CancelSound ==
  ASSUME Agreed, NEW r \in Requests, CancelWrite(r), ~overlapped
  PROVE  \A d \in Delegations : Undecided(d)' /\ Decided(d)'
<1>1. /\ pc[r] = "cancel" /\ Done(r, "status") /\ responses' = responses
      /\ status' = [status EXCEPT ![on[r]] = "cancelled"]
  BY DEF CancelWrite
<1>2. Sound /\ on[r] \in Delegations /\ status \in [Delegations -> Statuses]
  BY DEF Agreed, State, Recorded, Requested
<1>3. ASSUME NEW d \in Delegations, status'[d] = "cancelled" PROVE Undecided(d)' /\ Decided(d)'
  BY <1>3 DEF Undecided, Decided, Outcome, Answers
<1>4. ASSUME NEW d \in Delegations, d # on[r] PROVE Undecided(d)' /\ Decided(d)'
  <2>1. pc[r] \notin Answers
    BY <1>1 DEF Answers
  <2> QED
    BY <1>1, <1>2, <1>4, <2>1, WriteElsewhere
<1> QED
  BY <1>1, <1>2, <1>3, <1>4

LEMMA ActSound ==
  ASSUME Agreed, NEW r \in Requests, ActWrite(r), ~overlapped
  PROVE  \A d \in Delegations : Undecided(d)' /\ Decided(d)'
<1>1. pc[r] \notin Answers /\ Done(r, "act") /\ UNCHANGED <<status, responses>>
  BY DEF ActWrite, rows, Answers
<1> QED
  BY <1>1, WriteElsewhere

\* A write keeps the agreement of the requests with the rows.
LEMMA WriteSound ==
  ASSUME Agreed, NEW r \in Requests, Write(r), Track
  PROVE  Told' /\ (~overlapped' => Sound')
<1>1. Told'
  <2>1. PICK w : Done(r, w) /\ (w = "response" /\ pc[r] \in Answers => RespondResponse(r))
    BY DEF Write, CreateWrite, RespondStatus, RespondResponse, CancelWrite, ActWrite, Answers
  <2>2. /\ todo'[r] = todo[r] \ {w}
        /\ todo'[r] # {} => pc'[r] = pc[r] /\ on'[r] = on[r]
        /\ todo'[r] = {} => pc'[r] = "idle"
        /\ \A s \in Requests \ {r} : pc'[s] = pc[s] /\ on'[s] = on[s] /\ todo'[s] = todo[s]
    BY <2>1, DoneMoves DEF Agreed
  <2>3. /\ responses \in [Delegations -> SUBSET Answers] /\ on \in [Requests -> Delegations]
        /\ \A d \in Delegations : responses[d] \subseteq responses'[d]
    BY DEF Agreed, State, Recorded, Requested, Write, CreateWrite, RespondStatus, RespondResponse,
           CancelWrite, ActWrite, rows
  <2>4. ASSUME NEW s \in Requests, pc'[s] \in Answers PROVE "response" \in todo'[s] \/ pc'[s] \in responses'[on'[s]]
    <3>1. pc'[s] = pc[s] /\ on'[s] = on[s]
      BY <2>2, <2>4 DEF Answers
    <3>2. "response" \in todo[s] \/ pc[s] \in responses'[on[s]]
      BY <2>3, <2>4, <3>1 DEF Agreed, Told
    <3>3. CASE s = r /\ w = "response"
      BY <2>1, <2>3, <2>4, <3>1, <3>3 DEF RespondResponse
    <3>4. CASE ~ (s = r /\ w = "response")
      BY <2>2, <3>1, <3>2, <3>4
    <3> QED
      BY <3>3, <3>4
  <2> QED
    BY <2>4 DEF Told
<1>2. ASSUME ~overlapped' PROVE Sound'
  <2>1. ~overlapped
    BY <1>2 DEF Track
  <2>2. \E w : Done(r, w)
    BY DEF Write, CreateWrite, RespondStatus, RespondResponse, CancelWrite, ActWrite
  <2>3. HeldStands'
    BY <1>2, <2>2, WriteHeld
  <2>4. \A d \in Delegations : Undecided(d)' /\ Decided(d)'
    BY <1>2, <2>1, CreateSound, RespondStatusSound, RespondResponseSound, CancelSound, ActSound DEF Write
  <2> QED
    BY <2>3, <2>4 DEF Sound
<1> QED
  BY <1>1, <1>2

\* A step of the night changes no response and no request; it completes active
\* delegations, and those alone.
LEMMA NightSound ==
  ASSUME Agreed, Night, Track, ~overlapped'
  PROVE  Sound'
<1>1. /\ UNCHANGED <<pc, on, todo, responses>> /\ ~overlapped /\ Sound
      /\ status \in [Delegations -> Statuses] /\ on \in [Requests -> Delegations]
  BY NightType DEF Agreed, req, Track, State, Recorded, Requested
<1>2. \A d \in Delegations : status'[d] = status[d] \/ (status[d] = "active" /\ status'[d] = "completed")
  BY <1>1 DEF Night, CompleteFind, CompleteUpdate, Midnight, Morning, rows, Due, Active
<1>3. HeldStands'
  <2>1. ASSUME NEW s \in Requests, "status" \in todo[s]
        PROVE  status'[on[s]] = status[on[s]] /\ (on[s] \in ended' => on[s] \in ended)
    <3>1. pc[s] # "idle"
      BY <2>1 DEF Agreed, State, Requested
    <3> QED
      BY <1>1, <2>1, <3>1, HeldUntouched DEF Agreed
  <2> QED
    BY <1>1, <2>1 DEF Sound, HeldStands
<1>4. ASSUME NEW d \in Delegations PROVE Undecided(d)' /\ Decided(d)'
  <2>1. Undecided(d) /\ Decided(d)
    BY <1>1 DEF Sound
  <2>2. \A s \in Requests, a \in Answers : Answering(s, a, d)' <=> Answering(s, a, d)
    BY <1>1 DEF Answering
  <2>3. status'[d] \in {"none", "pending"} => status[d] \in {"none", "pending"}
    BY <1>2
  <2>4. \A a \in Answers : status'[d] \in Outcome[a] => status[d] \in Outcome[a]
    BY <1>2 DEF Outcome, Answers
  <2>5. Undecided(d)'
    BY <1>1, <2>1, <2>2, <2>3 DEF Undecided, Answering
  <2>6. Decided(d)'
    BY <1>1, <2>1, <2>2, <2>4 DEF Decided, Answering
  <2> QED
    BY <2>5, <2>6
<1> QED
  BY <1>3, <1>4 DEF Sound

\* A step of the night leaves it punctual.
LEMMA NightPunctual ==
  ASSUME Agreed, Night, Track, ~overlapped'
  PROVE  Punctual'
<1>1. /\ ~overlapped /\ Punctual /\ status \in [Delegations -> Statuses]
      /\ job \in {"idle", "update", "done"} /\ clock \in {"day", "night"}
      /\ clock = "day" => job = "idle"
  BY DEF Agreed, Track, State, Recorded, Nightly
<1>2. CASE CompleteFind
  BY <1>1, <1>2 DEF CompleteFind, Punctual, Due, Active, rows, hist
<1>3. CASE CompleteUpdate
  <2>1. \A d \in Delegations : status'[d] = IF d \in Due THEN "completed" ELSE status[d]
    BY <1>3 DEF CompleteUpdate
  <2>2. found = Due /\ announced' = announced \union found /\ job' = "done" /\ ended' = ended
    BY <1>1, <1>3 DEF CompleteUpdate, Punctual
  <2>3. Due' = {}
    BY <2>1, <2>2 DEF Due, Active
  <2>4. announced' = {d \in Delegations : status'[d] = "completed"}
    BY <1>1, <2>1, <2>2 DEF Punctual, Due
  <2> QED
    BY <2>2, <2>3, <2>4 DEF Punctual
<1>4. CASE Midnight
  BY <1>1, <1>4 DEF Midnight, Punctual, hist
<1>5. CASE Morning
  BY <1>1, <1>5 DEF Morning, Punctual, Due, Active, rows, hist
<1> QED
  BY <1>2, <1>3, <1>4, <1>5 DEF Night

\* So does a write: what becomes active has not ended, and what is closed was
\* not completed.
LEMMA WritePunctual ==
  ASSUME Agreed, NEW r \in Requests, Write(r), Track, ~overlapped'
  PROVE  Punctual'
<1>1. /\ ~overlapped /\ Punctual /\ Sound /\ status \in [Delegations -> Statuses]
      /\ on[r] \in Delegations /\ job \in {"idle", "update", "done"}
  BY DEF Agreed, Track, State, Recorded, Requested, Nightly
<1>2. UNCHANGED <<clock, job, found, announced>>
  BY DEF Write, CreateWrite, RespondStatus, RespondResponse, CancelWrite, ActWrite, night, hist
<1>3. /\ \A d \in Delegations \ {on[r]} : status'[d] = status[d] /\ (d \in ended' <=> d \in ended)
      /\ status'[on[r]] = "active" => status[on[r]] = "active" \/ on[r] \notin ended'
      /\ on[r] \in ended' => on[r] \in ended \/ status'[on[r]] # "active"
      /\ status'[on[r]] = "completed" <=> status[on[r]] = "completed"
  <2>1. CASE CreateWrite(r)
    BY <1>1, <2>1 DEF CreateWrite, Done, Sound, HeldStands
  <2>2. CASE RespondStatus(r)
    <3>1. status[on[r]] = "pending" /\ on[r] \notin ended /\ ended' = ended
      BY <1>1, <2>2 DEF RespondStatus, Done, Sound, HeldStands
    <3>2. /\ \A d \in Delegations \ {on[r]} : status'[d] = status[d]
          /\ status'[on[r]] \in {"active", "rejected"}
      BY <1>1, <2>2 DEF RespondStatus
    <3> QED
      BY <3>1, <3>2
  <2>3. CASE RespondResponse(r)
    BY <1>1, <2>3 DEF RespondResponse
  <2>4. CASE CancelWrite(r)
    BY <1>1, <2>4 DEF CancelWrite, Done, Sound, HeldStands
  <2>5. CASE ActWrite(r)
    BY <1>1, <2>5 DEF ActWrite, rows
  <2> QED
    BY <2>1, <2>2, <2>3, <2>4, <2>5 DEF Write
<1>4. Due' \subseteq Due
  BY <1>1, <1>3 DEF Due, Active
<1>5. announced' = {d \in Delegations : status'[d] = "completed"}
  BY <1>1, <1>2, <1>3 DEF Punctual
<1>6. job' = "update" => found' = Due'
  BY <1>1, <1>2 DEF Punctual, Track, Overlap
<1> QED
  BY <1>1, <1>2, <1>4, <1>5, <1>6 DEF Punctual

\* The agreement is inductive.
LEMMA AgreedStart == Init => Agreed
<1> SUFFICES ASSUME Init PROVE Agreed
  OBVIOUS
<1>1. State
  <2>1. Nobody \in Delegations
    BY DelegationsAssumption, NobodyType
  <2> QED
    BY <2>1 DEF Init, State, Requested, Recorded, Nightly, Steps, Statuses, Writes
<1>2. Told /\ HeldStands
  BY DEF Init, Told, HeldStands, Answers
<1>3. ASSUME NEW d \in Delegations PROVE Undecided(d) /\ Decided(d)
  BY DEF Init, Undecided, Decided, Outcome, Answers, Answering
<1>4. Punctual
  BY DEF Init, Punctual, Due, Active
<1> QED
  BY <1>1, <1>2, <1>3, <1>4 DEF Init, Agreed, Sound

LEMMA AgreedKept ==
  ASSUME Agreed, [Next]_vars
  PROVE  Agreed'
<1>1. ASSUME NEW r \in Requests, Read(r), Track PROVE Agreed'
  <2>1. State' /\ overlapped' \in BOOLEAN
    BY <1>1, ReadType DEF Agreed, Track
  <2>2. Told' /\ UNCHANGED <<status, ended, clock, job, found, announced>> /\ (~overlapped => Sound')
    BY <1>1, ReadSound
  <2>3. ASSUME ~overlapped' PROVE Sound' /\ Punctual'
    BY <1>1, <2>2, <2>3 DEF Agreed, Track, Punctual, Due, Active
  <2> QED
    BY <2>1, <2>2, <2>3 DEF Agreed
<1>2. ASSUME NEW r \in Requests, Write(r), Track PROVE Agreed'
  <2>1. State' /\ overlapped' \in BOOLEAN
    BY <1>2, WriteType DEF Agreed, Track
  <2>2. Told' /\ (~overlapped' => Sound')
    BY <1>2, WriteSound
  <2>3. ~overlapped' => Punctual'
    BY <1>2, WritePunctual
  <2>4. UNCHANGED <<clock, job>>
    BY <1>2 DEF Write, CreateWrite, RespondStatus, RespondResponse, CancelWrite, ActWrite, night
  <2> QED
    BY <2>1, <2>2, <2>3, <2>4 DEF Agreed
<1>3. ASSUME Night, Track PROVE Agreed'
  <2>1. State' /\ overlapped' \in BOOLEAN /\ UNCHANGED <<pc, on, todo, responses>>
    BY <1>3, NightType DEF Agreed, Track, req
  <2>2. Told'
    BY <2>1 DEF Agreed, Told
  <2>3. (clock = "day" => job = "idle")'
    BY <1>3 DEF Agreed, Night, CompleteFind, CompleteUpdate, Midnight, Morning
  <2>4. ~overlapped' => Sound' /\ Punctual'
    BY <1>3, NightSound, NightPunctual
  <2> QED
    BY <2>1, <2>2, <2>3, <2>4 DEF Agreed
<1>4. ASSUME NEW d \in Delegations, Claim(d), Track PROVE Agreed'
  <2>1. State' /\ overlapped' \in BOOLEAN /\ UNCHANGED <<rows, req, night, announced>>
    BY <1>4, ClaimType DEF Agreed, Track
  <2>2. UNCHANGED <<pc, on, todo, status, ended, responses, clock, job, found, announced>>
    BY <2>1 DEF rows, req, night
  <2>3. (~overlapped' => ~overlapped)
    BY <1>4 DEF Track
  <2> QED
    BY <2>1, <2>2, <2>3 DEF Agreed, Told, Sound,
      HeldStands, Undecided, Decided, Answering, Punctual, Due, Active
<1>5. ASSUME UNCHANGED vars PROVE Agreed'
  BY <1>5 DEF vars, rows, req, night, hist, Agreed, State, Requested, Recorded, Nightly, Told, Sound,
    HeldStands, Undecided, Decided, Answering, Punctual, Due, Active
<1> QED
  BY <1>1, <1>2, <1>3, <1>4, <1>5 DEF Next, Requesting

\* The agreement gives the story that status, response, end and announcement tell.
LEMMA AgreedTells == Agreed => RecordsAgree
<1> SUFFICES ASSUME Agreed, ~overlapped PROVE RecordsAgree
  BY DEF RecordsAgree, AnswerOnRecord, NoneOutlivesItsEnd, CompletionAnnounced
<1>1. Sound /\ Punctual /\ responses \in [Delegations -> SUBSET Answers]
  BY DEF Agreed, State, Recorded
<1>2. ASSUME NEW d \in Delegations, Settled(d)
      PROVE  /\ status[d] \in {"none", "pending"} => responses[d] = {}
             /\ \A a \in Answers : status[d] \in Outcome[a] => responses[d] = {a}
  <2>1. \A r \in Requests, a \in Answers : ~ Answering(r, a, d)
    BY <1>2 DEF Settled, Answering, Answers
  <2>2. status[d] \in {"none", "pending"} => responses[d] = {}
    BY <1>1, <2>1 DEF Sound, Undecided
  <2>3. \A a \in Answers : status[d] \in Outcome[a] => responses[d] = {a}
    BY <1>1, <2>1 DEF Sound, Decided
  <2> QED
    BY <2>2, <2>3
<1>3. AnswerOnRecord
  <2>1. "accepted" \in Answers /\ "rejected" \in Answers /\ Outcome["accepted"] = {"active", "completed"}
        /\ Outcome["rejected"] = {"rejected"}
    BY DEF Answers, Outcome
  <2> QED
    BY <1>2, <2>1 DEF AnswerOnRecord
<1>4. NoneOutlivesItsEnd
  BY <1>1 DEF NoneOutlivesItsEnd, Punctual, Due, Agreed, State, Recorded
<1>5. CompletionAnnounced
  BY <1>1 DEF CompletionAnnounced, Punctual
<1> QED
  BY <1>3, <1>4, <1>5 DEF RecordsAgree

\* A closed delegation stays closed: what is written over is what was read.
LEMMA ClosedStays ==
  ASSUME Agreed, [Next]_vars, ~overlapped', NEW d \in Delegations, status[d] \in Closed
  PROVE  status'[d] = status[d]
<1>1. CASE UNCHANGED vars
  BY <1>1 DEF vars, rows
<1>2. ASSUME NEW r \in Requests, Read(r) PROVE status'[d] = status[d]
  BY <1>2, ReadSound
<1>3. ASSUME NEW r \in Requests, Write(r), Track PROVE status'[d] = status[d]
  <2>1. HeldStands /\ status \in [Delegations -> Statuses] /\ on[r] \in Delegations
    BY <1>3 DEF Track, Agreed, Sound, State, Recorded, Requested
  <2>2. CASE CreateWrite(r)
    BY <2>1, <2>2 DEF CreateWrite, Done, HeldStands, Closed
  <2>3. CASE RespondStatus(r)
    <3>1. status[on[r]] = "pending"
      BY <2>1, <2>3 DEF RespondStatus, Done, HeldStands
    <3>2. d # on[r]
      BY <3>1 DEF Closed
    <3> QED
      BY <2>1, <2>3, <3>2 DEF RespondStatus
  <2>4. CASE CancelWrite(r)
    BY <2>1, <2>4 DEF CancelWrite, Done, HeldStands, Closed
  <2>5. CASE RespondResponse(r) \/ ActWrite(r)
    BY <2>5 DEF RespondResponse, ActWrite, rows
  <2> QED
    BY <1>3, <2>2, <2>3, <2>4, <2>5 DEF Write
<1>4. CASE Night
  BY <1>4 DEF Night, CompleteFind, CompleteUpdate, Midnight, Morning, rows, Due, Active, Closed, Agreed, State, Recorded
<1>5. ASSUME NEW e \in Delegations, Claim(e) PROVE status'[d] = status[d]
  BY <1>5 DEF Claim, rows
<1> QED
  BY <1>1, <1>2, <1>3, <1>4, <1>5 DEF Next, Requesting

\* Status, response, end and announcement of a delegation tell one story, for
\* any number of delegations and requests, as long as nobody wrote over a row
\* that had changed (respond, cancel, the 00:05 job).
THEOREM RecordsTellOneStory == Spec => []RecordsAgree
<1> QED
  BY AgreedStart, AgreedKept, AgreedTells, PTL DEF Spec

\* A delegation that was rejected, cancelled or completed never comes back, with
\* the same exception.
THEOREM ClosedIsFinal == Spec => ClosedForGood
<1>1. Agreed /\ [Next]_vars => [~overlapped' => \A d \in Delegations :
                                   status[d] \in Closed => status'[d] = status[d]]_vars
  BY ClosedStays
<1> QED
  BY <1>1, AgreedStart, AgreedKept, PTL DEF Spec, ClosedForGood
==============================================================================
