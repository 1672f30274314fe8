--------------------------- MODULE BranchDay_proofs ---------------------------
(* What holds of a day in a branch for every number of requests, people,     *)
(* rows and days.  Each theorem is about one part of the branch: at work the *)
(* part keeps its own inductive invariant, and while another part is at work *)
(* its rows stand as they stood in the morning.                              *)
EXTENDS BranchDay, FiniteSetTheorems, WellFoundedInduction, TLAPS

------------------------------------------------------------------------------
\* Lemmas about numbers and sets.

Smaller == {ss \in Nat \X Nat : ss[1] < ss[2]}

\* A set of natural numbers that is not empty has a least member.
LEMMA LeastMember ==
  ASSUME NEW A \in SUBSET Nat, A # {}
  PROVE  \E n \in A : \A m \in A : n <= m
<1>1. IsWellFoundedOn(Smaller, Nat)
  BY NatLessThanWellFounded DEF OpToRel, Smaller
<1>2. PICK n \in A : \A m \in A : ~ (<<m, n>> \in Smaller)
  BY <1>1, WFMin
<1>3. \A m \in A : <<m, n>> \in Smaller <=> m < n
  BY DEF Smaller
<1>4. ASSUME NEW m \in A PROVE n <= m
  <2>1. ~ (m < n) /\ m \in Nat /\ n \in Nat
    BY <1>2, <1>3
  <2> QED
    BY <2>1
<1> QED
  BY <1>4

\* A set without two different members has one at most.
LEMMA AtMostOne ==
  ASSUME NEW A, \A x, y \in A : x = y
  PROVE  Cardinality(A) <= 1
<1>1. CASE A = {}
  BY <1>1, FS_EmptySet
<1>2. ASSUME NEW x \in A PROVE Cardinality(A) <= 1
  <2>1. A = {x}
    OBVIOUS
  <2>2. Cardinality({x}) = 1
    BY FS_Singleton
  <2> QED
    BY <2>1, <2>2
<1> QED
  BY <1>1, <1>2

\* What counting one further does to quotient and remainder.
LEMMA NextMultiple ==
  ASSUME NEW n \in Nat, NEW k \in Nat \ {0}
  PROVE  /\ (n + 1) % k = 0 => n % k = k - 1 /\ (n + 1) \div k = n \div k + 1
         /\ (n + 1) % k # 0 => (n + 1) % k = (n % k) + 1 /\ (n + 1) \div k = n \div k
OBVIOUS

\* A positive multiple of k is at least k.
LEMMA FirstMultiple ==
  ASSUME NEW n \in Nat \ {0}, NEW k \in Nat \ {0}, n % k = 0
  PROVE  n >= k
OBVIOUS

------------------------------------------------------------------------------
\* Analytics events (Outbox).

\* A step of the branch is a step of the part at work.
LEMMA EventsMove ==
  ASSUME [Next]_vars
  PROVE  /\ part' = part
         /\ part = "events" => \/ \E r \in Requests : O!Step(r)
                               \/ O!Other
                               \/ UNCHANGED <<events, stored, ready, todo, sending, doubtful, pc, req>>
         /\ part # "events" => UNCHANGED <<events, stored, ready, todo, sending, doubtful>>
<1>1. CASE Next
  <2>1. CASE EventStep
    BY <2>1 DEF EventStep
  <2> QED
    BY <1>1, <2>1 DEF Next, TaskStep, VisitStep, ColourStep, GroupStep, VideoStep, LessonStep,
      StreakStep, ContestStep, ChatStep, PageStep, ErasureStep, requests, dataRows, eventRows
<1>2. CASE UNCHANGED vars
  BY <1>2 DEF vars, requests, dataRows, eventRows
<1> QED
  BY <1>1, <1>2

OutboxTypes ==
  /\ events \in [O!Ids -> {"none", "waiting", "synced"}]
  /\ stored \in [O!Ids -> Nat]
  /\ todo \in SUBSET O!Ids
  /\ sending \in {"idle", "insert", "mark"}
  /\ sending # "idle" <=> todo # {}
  /\ pc \in [Requests -> {"idle", "insert", "mark"}]
  /\ req \in [Requests -> [event : 0..MaxEvents]]
  /\ \A r \in Requests : pc[r] # "idle" => req[r].event \in O!Ids

\* Some promise of logEvent has e in hand.
Held(e) == \E r \in Requests : pc[r] # "idle" /\ req[r].event = e

\* What a sender is about to mark has arrived.
AboutToMark ==
  /\ \A r \in Requests : pc[r] = "mark" => stored[req[r].event] > 0
  /\ sending = "mark" => stored[O!First] > 0

\* What has no row yet is in nobody's hands and did not arrive.
NothingBeforeItsRow ==
  \A e \in O!Ids : events[e] = "none" =>
    stored[e] = 0 /\ e \notin todo /\ ~ Held(e)

\* An event without doubt has one sender at most, and arrives when that sender
\* inserts it.
OneSender ==
  \A e \in O!Ids \ doubtful :
    /\ \A r, s \in Requests :
         pc[r] # "idle" /\ pc[s] # "idle" /\ req[r].event = e /\ req[s].event = e => r = s
    /\ e \in todo => ~ Held(e)
    /\ \A r \in Requests : pc[r] = "insert" /\ req[r].event = e => stored[e] = 0
    /\ e \in todo /\ ~ (sending = "mark" /\ e = O!First) => stored[e] = 0
    /\ events[e] = "waiting" /\ e \notin todo /\ ~ Held(e) => stored[e] = 0

OutboxInv ==
  OutboxTypes /\ O!MarkedIsStored /\ AboutToMark /\ NothingBeforeItsRow /\ OneSender /\ O!StoredOnce

\* Events wait for the first call of logEvent, or are on their way.
EventsInv == IF part = "events" THEN OutboxInv ELSE O!Silent

\* The row the job handles is one of those it read.
LEMMA FirstInTodo ==
  ASSUME OutboxTypes, todo # {}
  PROVE  O!First \in todo
<1>1. todo \in SUBSET Nat
  BY BranchDayAssumption DEF OutboxTypes, O!Ids
<1>2. \E e \in todo : \A d \in todo : e <= d
  BY <1>1, LeastMember
<1> QED
  BY <1>2 DEF O!First

\* In the morning no event was posted.
LEMMA EventsStart == Init => EventsInv
<1> SUFFICES ASSUME Init PROVE EventsInv
  OBVIOUS
<1>1. O!Silent
  BY DEF Init
<1>2. ASSUME part = "events" PROVE OutboxInv
  <2>1. pc = [r \in Requests |-> "idle"] /\ req = [r \in Requests |-> [event |-> 0]]
    BY <1>2 DEF Init, O!NoReq
  <2> QED
    BY <1>1, <2>1, BranchDayAssumption DEF O!Silent, OutboxInv, OutboxTypes, AboutToMark,
      NothingBeforeItsRow, OneSender, Held, O!MarkedIsStored, O!StoredOnce
<1> QED
  BY <1>1, <1>2 DEF EventsInv

\* A request that logs an event, inserts it and marks it keeps the outbox consistent.
LEMMA RequestsPost ==
  ASSUME OutboxInv, NEW r \in Requests, O!Step(r)
  PROVE  OutboxInv'
<1>1. O!First' = O!First /\ todo' = todo /\ sending' = sending
  BY DEF O!Step, O!LogCreates, O!Inserts, O!InsertFails, O!Marks, O!MarkFails, O!First
<1> USE <1>1 DEF OutboxInv, OutboxTypes, O!MarkedIsStored, AboutToMark, NothingBeforeItsRow, OneSender,
       O!StoredOnce, Held
<1>2. CASE O!LogCreates(r)
  <2>1. PICK e \in O!Ids :
          /\ pc[r] = "idle" /\ events[e] = "none"
          /\ events' = [events EXCEPT ![e] = "waiting"]
          /\ IF ready
             THEN pc' = [pc EXCEPT ![r] = "insert"] /\ req' = [req EXCEPT ![r] = [event |-> e]]
             ELSE UNCHANGED <<pc, req>>
          /\ UNCHANGED <<stored, doubtful>>
    BY <1>2 DEF O!LogCreates, O!Row
  <2>2. stored[e] = 0 /\ e \notin todo /\ ~ Held(e)
    BY <2>1
  <2>3. CASE ready
    <3>1. pc' = [pc EXCEPT ![r] = "insert"] /\ req' = [req EXCEPT ![r] = [event |-> e]]
      BY <2>1, <2>3
    <3>2. [event |-> e] \in [event : 0..MaxEvents]
      BY BranchDayAssumption DEF O!Ids
    <3>3. OutboxTypes'
      BY <2>1, <3>1, <3>2
    <3>4. O!MarkedIsStored' /\ O!StoredOnce' /\ AboutToMark' /\ NothingBeforeItsRow'
      BY <2>1, <2>2, <3>1
    <3>5. OneSender'
      BY <2>1, <2>2, <3>1
    <3> QED
      BY <3>3, <3>4, <3>5
  <2>4. CASE ~ ready
    BY <2>1, <2>2, <2>4
  <2> QED
    BY <2>3, <2>4
<1>3. CASE O!Inserts(r)
  <2> USE <1>3 DEF O!Inserts, O!Insert
  <2>1. OutboxTypes'
    OBVIOUS
  <2>2. O!MarkedIsStored' /\ O!StoredOnce'
    OBVIOUS
  <2>3. AboutToMark'
    OBVIOUS
  <2>4. NothingBeforeItsRow'
    OBVIOUS
  <2>5. OneSender'
    OBVIOUS
  <2> QED
    BY <2>1, <2>2, <2>3, <2>4, <2>5
<1>4. CASE O!InsertFails(r)
  <2> USE <1>4 DEF O!InsertFails, O!Unanswered, O!Return, O!NoReq
  <2>1. OutboxTypes'
    BY BranchDayAssumption
  <2>2. O!MarkedIsStored' /\ O!StoredOnce'
    OBVIOUS
  <2>3. AboutToMark'
    <3>1. \A e \in O!Ids : stored'[e] >= stored[e] /\ stored'[e] \in Nat
      OBVIOUS
    <3>2. sending = "mark" => O!First \in O!Ids
      BY FirstInTodo
    <3> QED
      BY <3>1, <3>2
  <2>4. NothingBeforeItsRow'
    OBVIOUS
  <2>5. OneSender'
    OBVIOUS
  <2> QED
    BY <2>1, <2>2, <2>3, <2>4, <2>5
<1>5. CASE O!Marks(r)
  <2> USE <1>5 DEF O!Marks, O!Return, O!NoReq
  <2>1. OutboxTypes'
    BY BranchDayAssumption
  <2>2. O!MarkedIsStored' /\ O!StoredOnce' /\ AboutToMark' /\ NothingBeforeItsRow'
    OBVIOUS
  <2>3. OneSender'
    OBVIOUS
  <2> QED
    BY <2>1, <2>2, <2>3
<1>6. CASE O!MarkFails(r)
  <2> USE <1>6 DEF O!MarkFails, O!Return, O!NoReq
  <2>1. OutboxTypes'
    BY BranchDayAssumption
  <2>2. O!MarkedIsStored' /\ O!StoredOnce'
    OBVIOUS
  <2>3. AboutToMark'
    OBVIOUS
  <2>4. NothingBeforeItsRow'
    OBVIOUS
  <2>5. OneSender'
    OBVIOUS
  <2> QED
    BY <2>1, <2>2, <2>3, <2>4, <2>5
<1> QED
  BY <1>2, <1>3, <1>4, <1>5, <1>6 DEF O!Step

\* The events in hand are those the job or a request holds.
LEMMA InHandIsHeld == ASSUME NEW e PROVE e \in O!InHand <=> Held(e)
BY DEF O!InHand, Held

\* So does the job that sends the waiting events.
LEMMA JobPosts ==
  ASSUME OutboxInv, O!Other
  PROVE  OutboxInv'
<1> USE DEF OutboxInv, OutboxTypes, O!MarkedIsStored, AboutToMark, NothingBeforeItsRow, OneSender,
       O!StoredOnce
<1>1. CASE O!MirrorCreates
  <2>1. PICK e \in O!Ids : events[e] = "none" /\ events' = [events EXCEPT ![e] = "waiting"]
    BY <1>1 DEF O!MirrorCreates, O!Row
  <2>2. O!First' = O!First /\ \A d : Held(d)' <=> Held(d)
    BY <1>1 DEF O!MirrorCreates, O!First, Held
  <2> QED
    BY <1>1, <2>1, <2>2 DEF O!MirrorCreates
<1>2. CASE O!JobReads
  <2>1. /\ O!Oldest \subseteq {e \in O!Ids : events[e] = "waiting"}
        /\ todo = {} /\ todo' = O!Oldest /\ todo' # {}
        /\ sending' = "insert"
        /\ doubtful' = doubtful \union (todo' \intersect O!InHand)
        /\ UNCHANGED <<events, stored, pc, req>>
    BY <1>2 DEF O!JobReads, O!Oldest
  <2>2. \A e : e \in doubtful' <=> e \in doubtful \/ (e \in todo' /\ Held(e))
    <3>1. \A e : e \in O!InHand <=> Held(e)
      BY InHandIsHeld
    <3>2. doubtful' = doubtful \union (todo' \intersect O!InHand)
      BY <2>1
    <3> QED
      BY <3>1, <3>2
  <2>3. \A d : Held(d)' <=> Held(d)
    BY <2>1 DEF Held
  <2>4. todo' \subseteq O!Ids /\ \A e \in todo' : events[e] = "waiting"
    BY <2>1
  <2>5. O!MarkedIsStored' /\ O!StoredOnce' /\ AboutToMark' /\ NothingBeforeItsRow' /\ OutboxTypes'
    <3> HIDE DEF OneSender
    <3> QED
      BY <2>1, <2>2, <2>3, <2>4
  <2>6. OneSender'
    BY <2>1, <2>2, <2>3, <2>4 DEF Held
  <2> QED
    BY <2>5, <2>6
<1> DEFINE f == O!First
<1>3. sending # "idle" => f \in todo /\ f \in O!Ids
  BY FirstInTodo
<1> HIDE DEF f
<1>4. CASE O!JobInserts
  <2>1. /\ sending = "insert" /\ sending' = "mark" /\ O!First' = f
        /\ stored' = [stored EXCEPT ![f] = @ + 1]
        /\ UNCHANGED <<events, todo, pc, req, doubtful>>
    BY <1>4 DEF O!JobInserts, O!Insert, f, O!First
  <2>2. \A d : Held(d)' <=> Held(d)
    BY <2>1 DEF Held
  <2>3. \A e \in todo : e \notin doubtful => stored[e] = 0
    BY <2>1
  <2>4. OneSender'
    BY <1>3, <2>1, <2>2, <2>3 DEF Held
  <2> QED
    BY <1>3, <2>1, <2>2, <2>3, <2>4
<1>5. CASE O!JobInsertFails
  <2>1. /\ sending = "insert" /\ todo' = todo \ {f} /\ sending' \in {"idle", "insert"}
        /\ sending' = "idle" <=> todo = {f}
        /\ stored' \in {stored, [stored EXCEPT ![f] = @ + 1]}
        /\ doubtful' = doubtful \union {f}
        /\ UNCHANGED <<events, pc, req>>
    BY <1>5 DEF O!JobInsertFails, O!Unanswered, O!NextRow, f
  <2>2. \A d : Held(d)' <=> Held(d)
    BY <2>1 DEF Held
  <2>3. \A e \in O!Ids : stored'[e] \in Nat /\ stored'[e] >= stored[e] /\ (e # f => stored'[e] = stored[e])
    BY <1>3, <2>1
  <2>4. stored' \in [O!Ids -> Nat]
    BY <1>3, <2>1
  <2>5. OneSender'
    BY <1>3, <2>1, <2>2, <2>3
  <2> QED
    BY <1>3, <2>1, <2>2, <2>3, <2>4, <2>5
<1>6. CASE O!JobMarks
  <2>1. /\ sending = "mark" /\ todo' = todo \ {f} /\ sending' \in {"idle", "insert"}
        /\ sending' = "idle" <=> todo = {f}
        /\ events' = [events EXCEPT ![f] = "synced"] /\ stored[f] > 0
        /\ UNCHANGED <<stored, pc, req, doubtful>>
    BY <1>6 DEF O!JobMarks, O!NextRow, f
  <2>2. \A d : Held(d)' <=> Held(d)
    BY <2>1 DEF Held
  <2>3. OneSender'
    BY <1>3, <2>1, <2>2 DEF f
  <2> QED
    BY <1>3, <2>1, <2>2, <2>3
<1>7. CASE O!JobMarkFails
  <2>1. /\ sending = "mark" /\ todo' = todo \ {f} /\ sending' \in {"idle", "insert"}
        /\ sending' = "idle" <=> todo = {f}
        /\ doubtful' = doubtful \union {f}
        /\ UNCHANGED <<events, stored, pc, req>>
    BY <1>7 DEF O!JobMarkFails, O!NextRow, f
  <2>2. \A d : Held(d)' <=> Held(d)
    BY <2>1 DEF Held
  <2>3. OneSender'
    BY <1>3, <2>1, <2>2 DEF f
  <2> QED
    BY <1>3, <2>1, <2>2, <2>3
<1>8. CASE O!Restart
  <2>1. /\ todo' = {} /\ sending' = "idle" /\ UNCHANGED <<events, stored>>
        /\ pc' = [r \in Requests |-> "idle"] /\ req' = [r \in Requests |-> [event |-> 0]]
    BY <1>8 DEF O!Restart, O!NoReq
  <2>2. \A e : Held(e) \/ (sending = "mark" /\ e = f) \/ e \in doubtful => e \in doubtful'
    BY <1>8, InHandIsHeld DEF O!Restart, f
  <2>3. \A d : ~ Held(d)'
    BY <2>1 DEF Held
  <2>4. OneSender'
    BY <2>1, <2>2, <2>3 DEF f
  <2>5. OutboxTypes'
    BY <2>1, BranchDayAssumption
  <2> QED
    BY <2>1, <2>2, <2>3, <2>4, <2>5
<1> QED
  BY <1>1, <1>2, <1>4, <1>5, <1>6, <1>7, <1>8 DEF O!Other

\* Whatever fails or overlaps, an event is marked only when ClickHouse has it,
\* and one without doubt is there at most once.
THEOREM AnalyticsArrive == Spec => []EventsArrive
<1>1. EventsInv /\ [Next]_vars => EventsInv'
  <2> SUFFICES ASSUME EventsInv, [Next]_vars PROVE EventsInv'
    OBVIOUS
  <2>1. CASE part = "events"
    <3>1. CASE UNCHANGED <<events, stored, ready, todo, sending, doubtful, pc, req>>
      BY <2>1, <3>1, EventsMove DEF EventsInv, OutboxInv, OutboxTypes, O!MarkedIsStored, AboutToMark,
        NothingBeforeItsRow, OneSender, O!StoredOnce, Held, O!First
    <3> QED
      BY <2>1, <3>1, EventsMove, RequestsPost, JobPosts DEF EventsInv
  <2>2. CASE part # "events"
    BY <2>2, EventsMove DEF EventsInv, O!Silent
  <2> QED
    BY <2>1, <2>2
<1>2. EventsInv => EventsArrive
  BY DEF EventsInv, OutboxInv, O!Silent, EventsArrive, O!MarkedIsStored, O!StoredOnce
<1> QED
  BY EventsStart, <1>1, <1>2, PTL DEF Spec

------------------------------------------------------------------------------
\* Requests to remove personal data (Erasure).

\* At work the requests and the job move; while another part works the rows stand.
LEMMA ErasureMove ==
  ASSUME [Next]_vars
  PROVE  /\ part' = part
         /\ part = "erasure" => \/ \E r \in Requests : E!Step(r)
                                \/ E!Other
                                \/ UNCHANGED <<asks, due, erased, found, agreed, pc, req, overlapped>>
         /\ part # "erasure" => UNCHANGED <<asks, due, erased, found, agreed>>
<1>1. CASE Next
  <2>1. CASE ErasureStep
    BY <2>1 DEF ErasureStep
  <2> QED
    BY <1>1, <2>1 DEF Next, TaskStep, VisitStep, ColourStep, GroupStep, VideoStep, LessonStep,
      StreakStep, ContestStep, ChatStep, PageStep, EventStep, requests, dataRows, erasureRows
<1>2. CASE UNCHANGED vars
  BY <1>2 DEF vars, requests, dataRows, erasureRows
<1> QED
  BY <1>1, <1>2

AskStatus == {"none", "pending", "scheduled", "cancelled", "completed"}

ErasureTypes ==
  /\ asks \in [E!Ids -> AskStatus]
  /\ due \in SUBSET E!Ids /\ found \in SUBSET E!Ids /\ agreed \in SUBSET E!Ids
  /\ erased \in BOOLEAN
  /\ pc \in [Requests -> {"idle", "ask", "cancel", "approve"}]
  /\ req \in [Requests -> [on : 0..MaxAsks] \union [on : 0..MaxAsks, was : AskStatus]]
  /\ overlapped \in BOOLEAN

\* What a request read before it cancels or approves.
HeldAsks ==
  \A r \in Requests :
    /\ pc[r] = "cancel" => req[r].on \in E!Ids /\ req[r].was \in E!Open
    /\ pc[r] = "approve" => req[r].on \in E!Ids /\ req[r].was = "pending"

\* What is approved was approved by staff, and what was carried out was due.
CarriedOut ==
  /\ found \subseteq due
  /\ ~ overlapped => \A i \in E!Ids : asks[i] = "scheduled" => i \in agreed
  /\ ~ overlapped /\ erased => \E i \in due \intersect agreed : asks[i] = "completed"

OneOpen == ~ overlapped => \A i, j \in E!OpenAsks : i = j

ErasureInv == ErasureTypes /\ HeldAsks /\ CarriedOut /\ OneOpen

\* Either the person may ask, or no request was ever made.
AsksInv == IF part = "erasure" THEN ErasureInv ELSE E!NeverAsked

\* In the morning nobody asked.
LEMMA AsksStart == Init => AsksInv
<1> SUFFICES ASSUME Init PROVE AsksInv
  OBVIOUS
<1>1. E!NeverAsked
  BY DEF Init
<1>2. ASSUME part = "erasure" PROVE ErasureInv
  <2>1. pc = [r \in Requests |-> "idle"] /\ req = [r \in Requests |-> [on |-> 0]] /\ overlapped = FALSE
    BY <1>2 DEF Init, E!NoReq
  <2>2. [on |-> 0] \in [on : 0..MaxAsks]
    BY BranchDayAssumption
  <2>3. ErasureTypes
    BY <1>1, <2>1, <2>2 DEF E!NeverAsked, ErasureTypes, AskStatus
  <2>4. HeldAsks /\ CarriedOut /\ OneOpen
    BY <1>1, <2>1 DEF E!NeverAsked, HeldAsks, CarriedOut, OneOpen, E!OpenAsks, E!Open
  <2> QED
    BY <2>3, <2>4 DEF ErasureInv
<1> QED
  BY <1>1, <1>2 DEF AsksInv

\* An instance counts as the branch does.
LEMMA ErasureCounts == \A A : E!Cardinality(A) = Cardinality(A)
BY DEF E!Cardinality, Cardinality

\* Every step on the requests to erase keeps the invariant.
LEMMA ErasureKept ==
  ASSUME ErasureInv, (\E r \in Requests : E!Step(r)) \/ E!Other
  PROVE  ErasureInv'
<1> USE DEF ErasureInv, ErasureTypes, HeldAsks, CarriedOut, OneOpen, E!OpenAsks, E!Open, AskStatus
<1>1. ASSUME NEW r \in Requests, E!AskReads(r) PROVE ErasureInv'
  BY <1>1, BranchDayAssumption DEF E!AskReads, E!Read, E!rows
<1>2. ASSUME NEW r \in Requests, E!AskCreates(r) PROVE ErasureInv'
  <2>1. PICK i \in E!Ids : asks[i] = "none" /\ asks' = [asks EXCEPT ![i] = "pending"]
    BY <1>2 DEF E!AskCreates
  <2>2. ErasureTypes'
    BY <1>2, <2>1, BranchDayAssumption DEF E!AskCreates, E!Return, E!NoReq
  <2>3. HeldAsks' /\ CarriedOut'
    BY <1>2, <2>1 DEF E!AskCreates, E!Return, E!NoReq
  <2>4. OneOpen'
    BY <1>2, <2>1 DEF E!AskCreates
  <2> QED
    BY <2>2, <2>3, <2>4
<1>3. ASSUME NEW r \in Requests, E!CancelReads(r) PROVE ErasureInv'
  BY <1>3, BranchDayAssumption DEF E!CancelReads, E!Read, E!rows, E!Ids
<1>4. ASSUME NEW r \in Requests, E!CancelWrites(r) PROVE ErasureInv'
  BY <1>4, BranchDayAssumption DEF E!CancelWrites, E!Write, E!Return, E!NoReq
<1>5. ASSUME NEW r \in Requests, E!ApproveReads(r) PROVE ErasureInv'
  BY <1>5, BranchDayAssumption DEF E!ApproveReads, E!Read, E!rows, E!Ids
<1>6. ASSUME NEW r \in Requests, E!ApproveWrites(r) PROVE ErasureInv'
  <2>1. ErasureTypes'
    BY <1>6, BranchDayAssumption DEF E!ApproveWrites, E!Write, E!Return, E!NoReq
  <2>2. HeldAsks'
    BY <1>6 DEF E!ApproveWrites, E!Write, E!Return, E!NoReq
  <2>3. CarriedOut'
    BY <1>6 DEF E!ApproveWrites, E!Write
  <2>4. OneOpen'
    BY <1>6 DEF E!ApproveWrites, E!Write
  <2> QED
    BY <2>1, <2>2, <2>3, <2>4
<1>7. CASE E!Other
  <2>1. CASE E!TimePasses
    BY <2>1 DEF E!TimePasses
  <2>2. CASE E!JobReads
    BY <2>2 DEF E!JobReads, E!Due
  <2>3. CASE E!JobErases
    <3>1. PICK i \in found :
            /\ erased' = TRUE /\ asks' = [asks EXCEPT ![i] = "completed"] /\ found' = found \ {i}
            /\ overlapped' = (overlapped \/ asks[i] # "scheduled")
            /\ UNCHANGED <<due, agreed, pc, req>>
      BY <2>3 DEF E!JobErases
    <3>2. ErasureTypes' /\ HeldAsks' /\ OneOpen'
      BY <3>1
    <3>3. CarriedOut'
      BY <3>1
    <3> QED
      BY <3>2, <3>3
  <2>4. CASE E!JobFails
    BY <2>4 DEF E!JobFails
  <2> QED
    BY <1>7, <2>1, <2>2, <2>3, <2>4 DEF E!Other
<1> QED
  BY <1>1, <1>2, <1>3, <1>4, <1>5, <1>6, <1>7 DEF E!Step

\* The invariant is inductive.
LEMMA AsksNext == AsksInv /\ [Next]_vars => AsksInv'
<1> SUFFICES ASSUME AsksInv, [Next]_vars PROVE AsksInv'
  OBVIOUS
<1>1. CASE part = "erasure"
  <2>1. CASE UNCHANGED <<asks, due, erased, found, agreed, pc, req, overlapped>>
    BY <1>1, <2>1, ErasureMove DEF AsksInv, ErasureInv, ErasureTypes, HeldAsks, CarriedOut,
      OneOpen, E!OpenAsks
  <2> QED
    BY <1>1, <2>1, ErasureMove, ErasureKept DEF AsksInv
<1>2. CASE part # "erasure"
  BY <1>2, ErasureMove DEF AsksInv, E!NeverAsked
<1> QED
  BY <1>1, <1>2

\* Personal data go only for a request that was approved, not withdrawn and due,
\* and one request is open at a time.
THEOREM DataGoWhenAsked == Spec => []ErasedOnlyIfAsked
<1>1. AsksInv /\ [Next]_vars => AsksInv'
  BY AsksNext
<1>2. AsksInv => ErasedOnlyIfAsked
  <2> SUFFICES ASSUME AsksInv, ~ overlapped PROVE ErasedOnlyIfAsked
    BY DEF ErasedOnlyIfAsked, E!ErasedOnlyIfAsked
  <2>1. \A i, j \in E!OpenAsks : i = j
    BY DEF AsksInv, ErasureInv, OneOpen, E!NeverAsked, E!OpenAsks, E!Open
  <2>2. Cardinality(E!OpenAsks) <= 1
    BY <2>1, AtMostOne
  <2>3. erased => \E i \in due \intersect agreed : asks[i] = "completed"
    BY DEF AsksInv, ErasureInv, CarriedOut, E!NeverAsked
  <2> QED
    BY <2>2, <2>3, ErasureCounts DEF ErasedOnlyIfAsked, E!ErasedOnlyIfAsked
<1> QED
  BY AsksStart, <1>1, <1>2, PTL DEF Spec

------------------------------------------------------------------------------
\* A task and its points (Tasks).

\* Which steps change tasks.
LEMMA TasksMove ==
  ASSUME [Next]_vars
  PROVE  /\ part' = part
         /\ part = "tasks" => \/ \E r \in Requests : T!Step(r)
                              \/ UNCHANGED <<task, points, doer, worth, dropped, pc, req, overlapped>>
         /\ part # "tasks" => UNCHANGED <<task, points, doer, worth, dropped>>
<1>1. CASE Next
  <2>1. CASE TaskStep
    BY <2>1 DEF TaskStep
  <2> QED
    BY <1>1, <2>1 DEF Next, VisitStep, ColourStep, GroupStep, VideoStep, LessonStep, StreakStep,
      ContestStep, ChatStep, PageStep, ErasureStep, EventStep, requests, staffRows, taskRows
<1>2. CASE UNCHANGED vars
  BY <1>2 DEF vars, requests, staffRows, taskRows
<1> QED
  BY <1>1, <1>2

TaskRow ==
  [status : {"sent", "seen", "in_progress", "done", "confirmed", "deleted"},
   assignee : People, ball : BOOLEAN]

TaskTypes ==
  /\ task \in TaskRow
  /\ points \in [People -> Nat]
  /\ worth \in BOOLEAN /\ dropped \in BOOLEAN /\ overlapped \in BOOLEAN
  /\ pc \in [Requests -> {"idle", "status", "edit", "remove", "confirm", "pay"}]
  /\ DOMAIN req = Requests

\* What a request read, and may do with a task that is still like that.
HeldTasks ==
  \A r \in Requests :
    LET q == req[r] IN
    /\ pc[r] # "idle" => q.was \in TaskRow /\ q.was.status # "deleted"
    /\ pc[r] = "status" => q.was.status \in {"sent", "seen", "in_progress"}
                           /\ q.to \in T!Next4[q.was.status]
    /\ pc[r] = "edit" => /\ q.to.ball \in BOOLEAN
                         /\ q.to.who # "keep" => q.to.who \in People /\ q.was.status = "sent"
    /\ pc[r] = "remove" => q.was.status = "sent"
    /\ pc[r] = "confirm" => q.was.status = "done"

\* From the report on, the task stays with the one who did it, and the points
\* are on their way, gone, or lost.
PaidOnce ==
  /\ task.status \in {"done", "confirmed"} => doer = task.assignee
  /\ task.status # "confirmed" => ~ worth /\ ~ T!Paying
  /\ \A r, s \in Requests : pc[r] = "pay" /\ pc[s] = "pay" => r = s
  /\ \A r \in Requests : pc[r] = "pay" => worth /\ ~ dropped /\ req[r].was.assignee = doer
  /\ dropped => worth
  /\ \A p \in People : points[p] = IF p = doer /\ worth /\ ~ dropped /\ ~ T!Paying THEN 1 ELSE 0

TaskInv == TaskTypes /\ HeldTasks /\ (~ overlapped => PaidOnce)

TasksInv == IF part = "tasks" THEN TaskInv ELSE T!Created

\* The day begins without a task.
LEMMA TasksStart == Init => TasksInv
<1> SUFFICES ASSUME Init PROVE TasksInv
  OBVIOUS
<1>1. T!Created
  BY DEF Init
<1>2. ASSUME part = "tasks" PROVE TaskInv
  <2>1. pc = [r \in Requests |-> "idle"] /\ DOMAIN req = Requests /\ overlapped = FALSE
    BY DEF Init
  <2>2. task \in TaskRow /\ task.status = "sent"
    BY <1>1 DEF T!Created, TaskRow
  <2>3. TaskTypes /\ HeldTasks
    BY <1>1, <2>1, <2>2 DEF T!Created, TaskTypes, HeldTasks
  <2>4. PaidOnce
    BY <1>1, <2>1, <2>2 DEF T!Created, PaidOnce, T!Paying
  <2> QED
    BY <2>3, <2>4 DEF TaskInv
<1> QED
  BY <1>1, <1>2 DEF TasksInv

\* Every step on a task keeps the invariant.
LEMMA TasksKept ==
  ASSUME TaskInv, NEW r \in Requests, T!Step(r)
  PROVE  TaskInv'
<1> USE DEF TaskInv, TaskTypes, TaskRow, HeldTasks, PaidOnce, T!Paying
<1>1. CASE T!StatusReads(r) \/ T!EditReads(r) \/ T!RemoveReads(r) \/ T!ConfirmReads(r)
  <2> USE DEF T!Read, T!Exists, T!state
  <2>1. CASE T!StatusReads(r)
    BY <2>1 DEF T!StatusReads, T!Next4
  <2>2. CASE T!EditReads(r)
    BY <2>2 DEF T!EditReads
  <2>3. CASE T!RemoveReads(r)
    BY <2>3 DEF T!RemoveReads
  <2>4. CASE T!ConfirmReads(r)
    BY <2>4 DEF T!ConfirmReads
  <2> QED
    BY <1>1, <2>1, <2>2, <2>3, <2>4
<1>2. CASE T!StatusWrites(r)
  <2> USE DEF T!StatusWrites, T!Write, T!Return, T!Exists, T!NoReq
  <2>1. req[r].to \in {"seen", "in_progress", "done"}
    BY <1>2 DEF T!Next4
  <2>2. TaskTypes' /\ HeldTasks'
    BY <1>2, <2>1
  <2>3. ~ overlapped' => PaidOnce'
    BY <1>2, <2>1
  <2> QED
    BY <2>2, <2>3
<1>3. CASE T!EditWrites(r)
  BY <1>3 DEF T!EditWrites, T!Write, T!Return, T!Exists, T!NoReq
<1>4. CASE T!RemoveWrites(r)
  <2> USE <1>4 DEF T!RemoveWrites, T!Write, T!Return, T!Exists, T!NoReq
  <2>1. TaskTypes' /\ HeldTasks'
    OBVIOUS
  <2>2. ~ overlapped' => PaidOnce'
    OBVIOUS
  <2> QED
    BY <2>1, <2>2
<1>5. CASE T!ConfirmWrites(r)
  <2> USE DEF T!ConfirmWrites, T!Write, T!Return, T!Exists, T!NoReq
  <2>1. CASE T!Exists /\ req[r].was.ball
    <3>1. TaskTypes' /\ HeldTasks'
      BY <1>5, <2>1
    <3>2. ~ overlapped' => PaidOnce'
      BY <1>5, <2>1
    <3> QED
      BY <3>1, <3>2
  <2>2. CASE ~ (T!Exists /\ req[r].was.ball)
    <3>1. TaskTypes' /\ HeldTasks'
      BY <1>5, <2>2
    <3>2. ~ overlapped' => PaidOnce'
      BY <1>5, <2>2
    <3> QED
      BY <3>1, <3>2
  <2> QED
    BY <2>1, <2>2
<1>6. CASE T!ConfirmPays(r)
  BY <1>6 DEF T!ConfirmPays, T!Return, T!NoReq
<1>7. CASE T!ConfirmFails(r)
  BY <1>7 DEF T!ConfirmFails, T!Return, T!NoReq
<1> QED
  BY <1>1, <1>2, <1>3, <1>4, <1>5, <1>6, <1>7 DEF T!Step

------------------------------------------------------------------------------
\* A home visit (Visits).

\* Which steps change visits.
LEMMA VisitsMove ==
  ASSUME [Next]_vars
  PROVE  /\ part' = part
         /\ part = "visits" => \/ \E r \in Requests : V!Step(r)
                               \/ \E text \in Texts : V!AddNotes(text)
                               \/ UNCHANGED <<visit, items, saved, completions, reopened, pc, req, overlapped>>
         /\ part # "visits" => UNCHANGED <<visit, items, saved, completions, reopened>>
<1>1. CASE Next
  <2>1. CASE VisitStep
    BY <2>1 DEF VisitStep
  <2> QED
    BY <1>1, <2>1 DEF Next, TaskStep, ColourStep, GroupStep, VideoStep, LessonStep, StreakStep,
      ContestStep, ChatStep, PageStep, ErasureStep, EventStep, requests, staffRows, visitRows
<1>2. CASE UNCHANGED vars
  BY <1>2 DEF vars, requests, staffRows, visitRows
<1> QED
  BY <1>1, <1>2

VisitStatus == {"planned", "in_progress", "completed", "cancelled"}

VisitRow == [status : VisitStatus, notes : Texts \union {"none"}, reported : BOOLEAN]

VisitTypes ==
  /\ visit \in VisitRow
  /\ items \in Nat /\ completions \in Nat /\ reopened \in Nat /\ overlapped \in BOOLEAN
  /\ pc \in [Requests -> {"idle", "cancel", "checkin", "report", "complete", "items"}]
  /\ DOMAIN req = Requests

\* The requests whose report is still to be read for action items.
Extracting == {r \in Requests : pc[r] = "items"}

\* A visit that is completed or cancelled is neither completed nor cancelled by
\* a request that read it as it is.
HeldVisits ==
  \A r \in Requests :
    /\ pc[r] # "idle" => req[r] \in [was : VisitRow, given : Texts \union {"none"}, report : BOOLEAN]
    /\ pc[r] = "cancel" => req[r].was.status \notin {"completed", "cancelled"}
    /\ pc[r] \in {"report", "complete"} => req[r].was.status # "completed"

\* Every completion but the last was followed by the check-in that reopened it.
Completions ==
  completions = reopened + (IF visit.status = "completed" THEN 1 ELSE 0)

VisitInv ==
  /\ VisitTypes /\ HeldVisits /\ IsFiniteSet(Extracting)
  /\ ~ overlapped => /\ V!NotesKept /\ Completions
                     /\ items + Cardinality(Extracting) <= completions

VisitsInv == IF part = "visits" THEN VisitInv ELSE V!Planned

\* The day begins without a visit.
LEMMA VisitsStart == Init => VisitsInv
<1> SUFFICES ASSUME Init PROVE VisitsInv
  OBVIOUS
<1>1. V!Planned
  BY DEF Init
<1>2. ASSUME part = "visits" PROVE VisitInv
  <2>1. pc = [r \in Requests |-> "idle"] /\ DOMAIN req = Requests /\ overlapped = FALSE
    BY DEF Init
  <2>2. Extracting = {}
    BY <2>1 DEF Extracting
  <2>3. IsFiniteSet(Extracting) /\ Cardinality(Extracting) = 0
    BY <2>2, FS_EmptySet
  <2>4. VisitTypes /\ HeldVisits
    BY <1>1, <2>1 DEF V!Planned, VisitTypes, VisitRow, VisitStatus, HeldVisits
  <2>5. V!NotesKept /\ Completions /\ items = 0 /\ completions = 0
    BY <1>1 DEF V!Planned, V!NotesKept, Completions
  <2> QED
    BY <2>3, <2>4, <2>5 DEF VisitInv
<1> QED
  BY <1>1, <1>2 DEF VisitsInv

\* Every step on a visit keeps the invariant.
LEMMA VisitsKept ==
  ASSUME VisitInv, \/ \E r \in Requests : V!Step(r)
                   \/ \E text \in Texts : V!AddNotes(text)
  PROVE  VisitInv'
<1> USE DEF VisitInv, VisitTypes, VisitRow, VisitStatus, HeldVisits, V!NotesKept, Completions
<1> DEFINE n == Cardinality(Extracting)
<1>1. n \in Nat
  BY FS_CardinalityType
<1>2. ASSUME NEW r \in Requests, V!CancelReads(r) \/ V!CheckinReads(r) \/ V!CompleteReads(r)
      PROVE  VisitInv'
  <2>1. Extracting' = Extracting
    BY <1>2 DEF V!CancelReads, V!CheckinReads, V!CompleteReads, V!Read, Extracting
  <2> USE <2>1 DEF V!Read, V!state
  <2>2. CASE V!CancelReads(r)
    BY <2>2 DEF V!CancelReads
  <2>3. CASE V!CheckinReads(r)
    BY <2>3 DEF V!CheckinReads
  <2>4. CASE V!CompleteReads(r)
    BY <2>4 DEF V!CompleteReads
  <2> QED
    BY <1>2, <2>2, <2>3, <2>4
<1>3. ASSUME NEW r \in Requests, V!CancelWrites(r) PROVE VisitInv'
  <2>1. Extracting' = Extracting
    BY <1>3 DEF V!CancelWrites, V!Write, V!Return, Extracting
  <2> QED
    BY <1>3, <2>1 DEF V!CancelWrites, V!Write, V!Return, V!NoReq
<1>4. ASSUME NEW r \in Requests, V!CheckinWrites(r) PROVE VisitInv'
  <2>1. Extracting' = Extracting
    BY <1>4 DEF V!CheckinWrites, V!Write, V!Return, Extracting
  <2> QED
    BY <1>4, <2>1 DEF V!CheckinWrites, V!Write, V!Return, V!NoReq
<1>5. ASSUME NEW r \in Requests, V!ReportAnswers(r) PROVE VisitInv'
  <2>1. Extracting' = Extracting
    BY <1>5 DEF V!ReportAnswers, Extracting
  <2> QED
    BY <1>5, <2>1 DEF V!ReportAnswers, V!state
<1>6. ASSUME NEW r \in Requests, V!CompleteWrites(r) PROVE VisitInv'
  <2> USE DEF V!CompleteWrites, V!Completed, V!Write, V!Return, V!NoReq
  <2>1. CASE req[r].report
    <3>1. Extracting' = Extracting \union {r} /\ r \notin Extracting
      BY <1>6, <2>1 DEF Extracting
    <3>2. IsFiniteSet(Extracting') /\ Cardinality(Extracting') = n + 1
      BY <3>1, FS_AddElement DEF n
    <3> QED
      BY <1>1, <1>6, <2>1, <3>2 DEF n
  <2>2. CASE ~ req[r].report
    <3>1. Extracting' = Extracting
      BY <1>6, <2>2 DEF Extracting
    <3>2. VisitTypes' /\ HeldVisits'
      BY <1>6, <2>2
    <3>3. ~ overlapped' => visit = req[r].was /\ ~ overlapped
      BY <1>6
    <3>4. items' = items /\ reopened' = reopened /\ completions' = completions + 1
      BY <1>6
    <3>5. ~ overlapped' => V!NotesKept'
      BY <1>6, <2>2, <3>3
    <3>6. ~ overlapped' => Completions'
      BY <1>6, <3>3, <3>4
    <3> QED
      BY <1>1, <3>1, <3>2, <3>3, <3>4, <3>5, <3>6
  <2> QED
    BY <2>1, <2>2
<1>7. ASSUME NEW r \in Requests, V!Extract(r) PROVE VisitInv'
  <2>1. Extracting' = Extracting \ {r} /\ r \in Extracting
    BY <1>7 DEF V!Extract, V!Return, Extracting
  <2>2. IsFiniteSet(Extracting') /\ Cardinality(Extracting') = n - 1
    BY <2>1, FS_RemoveElement DEF n
  <2> QED
    BY <1>1, <1>7, <2>2 DEF V!Extract, V!Return, V!NoReq, n
<1>8. ASSUME NEW text \in Texts, V!AddNotes(text) PROVE VisitInv'
  <2>1. Extracting' = Extracting
    BY <1>8 DEF V!AddNotes, Extracting
  <2> QED
    BY <1>8, <2>1 DEF V!AddNotes
<1> QED
  BY <1>2, <1>3, <1>4, <1>5, <1>6, <1>7, <1>8 DEF V!Step

------------------------------------------------------------------------------
\* The colours of a student and the manager's points (StatusColours).

\* Which steps change the colours of the status page.
LEMMA ColoursMove ==
  ASSUME [Next]_vars
  PROVE  /\ part' = part
         /\ part = "colours" => \/ \E r \in Requests : C!Step(r)
                                \/ UNCHANGED <<row, awards, improved, managed, pc, req, overlapped>>
         /\ part # "colours" => UNCHANGED <<row, awards, improved, managed>>
<1>1. CASE Next
  <2>1. CASE ColourStep
    BY <2>1 DEF ColourStep
  <2> QED
    BY <1>1, <2>1 DEF Next, TaskStep, VisitStep, GroupStep, VideoStep, LessonStep, StreakStep,
      ContestStep, ChatStep, PageStep, ErasureStep, EventStep, requests, staffRows, colourRows
<1>2. CASE UNCHANGED vars
  BY <1>2 DEF vars, requests, staffRows, colourRows
<1> QED
  BY <1>1, <1>2

ColourRow == [english : BOOLEAN, personal : BOOLEAN, critical : C!Colours \union {"none"}]

ColourTypes ==
  /\ row \in ColourRow
  /\ awards \in [C!Better -> Nat] /\ improved \in [C!Better -> Nat]
  /\ managed \in BOOLEAN /\ overlapped \in BOOLEAN
  /\ pc \in [Requests -> {"idle", "personal", "english", "critical", "award"}]
  /\ DOMAIN req = Requests

\* What a setter read, and the colour it sets.
HeldColours ==
  \A r \in Requests :
    /\ pc[r] # "idle" => req[r].was \in ColourRow
    /\ pc[r] \in {"personal", "english"} => req[r].colour \in BOOLEAN
    /\ pc[r] \in {"critical", "award"} => req[r].colour \in C!Colours
    /\ pc[r] = "award" => <<req[r].was.critical, req[r].colour>> \in C!Better

\* The requests that made an improvement and have still to award it.
Awarding(b) == {r \in Requests : pc[r] = "award" /\ <<req[r].was.critical, req[r].colour>> = b}

\* An award is given or on its way for an improvement of its own.
Earned ==
  /\ \A b \in C!Better : IsFiniteSet(Awarding(b))
  /\ ~ overlapped =>
       \A b \in C!Better : awards[b] + Cardinality(Awarding(b)) <= improved[b]

ColourInv == ColourTypes /\ HeldColours /\ Earned /\ C!PersonalGreenClears

ColoursInv == IF part = "colours" THEN ColourInv ELSE C!NewDay

\* The day begins with nobody coloured.
LEMMA ColoursStart == Init => ColoursInv
<1> SUFFICES ASSUME Init PROVE ColoursInv
  OBVIOUS
<1>1. C!NewDay
  BY DEF Init
<1>2. ASSUME part = "colours" PROVE ColourInv
  <2>1. pc = [r \in Requests |-> "idle"] /\ DOMAIN req = Requests /\ overlapped = FALSE
    BY DEF Init
  <2>2. ColourTypes /\ HeldColours /\ C!PersonalGreenClears
    BY <1>1, <2>1 DEF C!NewDay, ColourTypes, ColourRow, HeldColours, C!PersonalGreenClears
  <2>3. ASSUME NEW b \in C!Better
        PROVE  IsFiniteSet(Awarding(b)) /\ awards[b] + Cardinality(Awarding(b)) <= improved[b]
    <3>1. Awarding(b) = {}
      BY <2>1 DEF Awarding
    <3> QED
      BY <1>1, <3>1, FS_EmptySet DEF C!NewDay
  <2> QED
    BY <2>2, <2>3 DEF ColourInv, Earned
<1> QED
  BY <1>1, <1>2 DEF ColoursInv

\* Every step on the colours keeps the invariant.
LEMMA ColoursKept ==
  ASSUME ColourInv, NEW r \in Requests, C!Step(r)
  PROVE  ColourInv'
<1> USE DEF ColourInv, ColourTypes, ColourRow, HeldColours, C!PersonalGreenClears
<1>1. ASSUME NEW b \in C!Better PROVE IsFiniteSet(Awarding(b)) /\ Cardinality(Awarding(b)) \in Nat
  BY FS_CardinalityType DEF Earned
<1>2. CASE C!PersonalReads(r) \/ C!EnglishReads(r) \/ C!CriticalReads(r)
  <2>1. \A b : Awarding(b)' = Awarding(b)
    BY <1>2 DEF C!PersonalReads, C!EnglishReads, C!CriticalReads, C!Read, Awarding
  <2>2. UNCHANGED <<row, awards, improved, managed, overlapped>>
    BY <1>2 DEF C!PersonalReads, C!EnglishReads, C!CriticalReads, C!Read, C!state
  <2>3. Earned'
    BY <2>1, <2>2 DEF Earned
  <2>4. HeldColours' /\ ColourTypes'
    BY <1>2, <2>2 DEF C!PersonalReads, C!EnglishReads, C!CriticalReads, C!Read
  <2> QED
    BY <2>2, <2>3, <2>4
<1>3. CASE C!PersonalWrites(r) \/ C!EnglishWrites(r)
  <2> USE DEF C!PersonalWrites, C!EnglishWrites, C!Upsert, C!Return, C!NoReq
  <2>1. \A b : Awarding(b)' = Awarding(b)
    BY <1>3 DEF Awarding
  <2>2. Earned'
    BY <1>3, <2>1 DEF Earned
  <2>3. HeldColours'
    BY <1>3
  <2>4. PICK english \in BOOLEAN, personal \in BOOLEAN, rule \in BOOLEAN :
          /\ row' = [english |-> english, personal |-> personal, critical |-> C!AutoGreen(r, rule)]
          /\ managed' = (managed /\ ~ rule)
          /\ personal => rule \/ row.personal
          /\ UNCHANGED <<awards, improved>>
    BY <1>3
  <2>5. C!AutoGreen(r, rule) \in {row.critical, "yashil"}
    BY DEF C!AutoGreen
  <2>6. ColourTypes'
    BY <1>3, <2>4, <2>5 DEF C!Colours
  <2>7. ~ overlapped' => row = req[r].was /\ ~ overlapped
    BY <1>3
  <2>8. C!PersonalGreenClears'
    BY <2>4, <2>7 DEF C!AutoGreen
  <2> QED
    BY <2>2, <2>3, <2>6, <2>8
<1>4. CASE C!CriticalWrites(r)
  <2> DEFINE c == req[r].colour
             seen == <<req[r].was.critical, c>>
             made == <<row.critical, c>>
  <2>1. /\ pc[r] = "critical" /\ row' = [row EXCEPT !.critical = c]
        /\ overlapped' = (overlapped \/ row # req[r].was)
        /\ improved' = IF made \in C!Better THEN [improved EXCEPT ![made] = @ + 1] ELSE improved
        /\ managed' = TRUE /\ awards' = awards
    BY <1>4 DEF C!CriticalWrites, C!Upsert
  <2>2. ~ overlapped' => ~ overlapped /\ seen = made
    BY <2>1
  <2>3. c \in C!Colours
    BY <2>1
  <2> HIDE DEF c, made
  <2>4. CASE seen \in C!Better
    <3>1. pc' = [pc EXCEPT ![r] = "award"] /\ req' = req
      BY <1>4, <2>4 DEF C!CriticalWrites, C!Before, c
    <3>2. ASSUME NEW b \in C!Better
          PROVE  /\ IsFiniteSet(Awarding(b)')
                 /\ ~ overlapped' => awards'[b] + Cardinality(Awarding(b)') <= improved'[b]
      <4>1. CASE b = seen
        <5>1. Awarding(b)' = Awarding(b) \union {r} /\ r \notin Awarding(b)
          BY <2>1, <3>1, <4>1 DEF Awarding, c
        <5>2. IsFiniteSet(Awarding(b)') /\ Cardinality(Awarding(b)') = Cardinality(Awarding(b)) + 1
          BY <1>1, <5>1, FS_AddElement
        <5>3. ~ overlapped' => improved'[b] = improved[b] + 1
          BY <2>1, <2>2, <4>1
        <5> QED
          BY <1>1, <2>1, <2>2, <5>2, <5>3 DEF Earned
      <4>2. CASE b # seen
        <5>1. Awarding(b)' = Awarding(b)
          BY <2>1, <3>1, <4>2 DEF Awarding, c
        <5>2. improved'[b] >= improved[b]
          BY <2>1
        <5> QED
          BY <1>1, <2>1, <2>2, <5>1, <5>2 DEF Earned
      <4> QED
        BY <4>1, <4>2
    <3>3. Earned'
      BY <3>2 DEF Earned
    <3>4. ColourTypes' /\ HeldColours' /\ C!PersonalGreenClears'
      BY <2>1, <2>3, <2>4, <3>1 DEF c
    <3> QED
      BY <3>3, <3>4
  <2>5. CASE seen \notin C!Better
    <3>1. pc' = [pc EXCEPT ![r] = "idle"] /\ req' = [req EXCEPT ![r] = [was |-> "none"]]
      BY <1>4, <2>5 DEF C!CriticalWrites, C!Before, C!Return, C!NoReq, c
    <3>2. \A b \in C!Better : Awarding(b)' = Awarding(b) /\ improved'[b] >= improved[b]
      BY <2>1, <3>1 DEF Awarding
    <3>3. Earned'
      BY <1>1, <2>1, <2>2, <3>2 DEF Earned
    <3>4. ColourTypes' /\ HeldColours' /\ C!PersonalGreenClears'
      BY <2>1, <2>3, <3>1
    <3> QED
      BY <3>3, <3>4
  <2> QED
    BY <2>4, <2>5
<1>5. CASE C!Award(r)
  <2> DEFINE seen == <<req[r].was.critical, req[r].colour>>
  <2>1. /\ pc[r] = "award" /\ seen \in C!Better
        /\ awards' \in {awards, [awards EXCEPT ![seen] = @ + 1]}
        /\ pc' = [pc EXCEPT ![r] = "idle"] /\ req' = [req EXCEPT ![r] = [was |-> "none"]]
        /\ UNCHANGED <<row, improved, managed, overlapped>>
    BY <1>5 DEF C!Award, C!Before, C!Return, C!NoReq
  <2>2. ASSUME NEW b \in C!Better
        PROVE  /\ IsFiniteSet(Awarding(b)')
               /\ ~ overlapped' => awards'[b] + Cardinality(Awarding(b)') <= improved'[b]
    <3>1. CASE b = seen
      <4>1. Awarding(b)' = Awarding(b) \ {r} /\ r \in Awarding(b)
        BY <2>1, <3>1 DEF Awarding
      <4>2. IsFiniteSet(Awarding(b)') /\ Cardinality(Awarding(b)') = Cardinality(Awarding(b)) - 1
        BY <1>1, <4>1, FS_RemoveElement
      <4>3. awards'[b] \in {awards[b], awards[b] + 1}
        BY <2>1, <3>1
      <4> QED
        BY <1>1, <2>1, <4>2, <4>3 DEF Earned
    <3>2. CASE b # seen
      <4>1. Awarding(b)' = Awarding(b)
        BY <2>1, <3>2 DEF Awarding
      <4>2. awards'[b] = awards[b]
        BY <2>1, <3>2
      <4> QED
        BY <1>1, <2>1, <4>1, <4>2 DEF Earned
    <3> QED
      BY <3>1, <3>2
  <2>3. Earned'
    BY <2>2 DEF Earned
  <2>4. ColourTypes' /\ HeldColours' /\ C!PersonalGreenClears'
    BY <2>1
  <2> QED
    BY <2>3, <2>4
<1> QED
  BY <1>2, <1>3, <1>4, <1>5 DEF C!Step

\* The invariant of the tasks is inductive.
LEMMA TasksNext == TasksInv /\ [Next]_vars => TasksInv'
<1> SUFFICES ASSUME TasksInv, [Next]_vars PROVE TasksInv'
  OBVIOUS
<1>1. CASE part = "tasks"
  <2>1. CASE UNCHANGED <<task, points, doer, worth, dropped, pc, req, overlapped>>
    BY <1>1, <2>1, TasksMove DEF TasksInv, TaskInv, TaskTypes, HeldTasks, PaidOnce, T!Paying
  <2> QED
    BY <1>1, <2>1, TasksMove, TasksKept DEF TasksInv
<1>2. CASE part # "tasks"
  BY <1>2, TasksMove DEF TasksInv, T!Created
<1> QED
  BY <1>1, <1>2

\* Points of a task go once and to the one who did it; a visit keeps its notes
\* and is completed once; a manager is awarded for what he improved, and a green
\* personal colour clears critical.
THEOREM StaffWork == Spec => []StaffWorkOnRecord
<1>1. TasksInv /\ [Next]_vars => TasksInv'
  BY TasksNext
<1>2. VisitsInv /\ [Next]_vars => VisitsInv'
  <2> SUFFICES ASSUME VisitsInv, [Next]_vars PROVE VisitsInv'
    OBVIOUS
  <2>1. CASE part = "visits"
    <3>1. CASE UNCHANGED <<visit, items, saved, completions, reopened, pc, req, overlapped>>
      BY <2>1, <3>1, VisitsMove DEF VisitsInv, VisitInv, VisitTypes, HeldVisits, Extracting, Completions,
        V!NotesKept
    <3> QED
      BY <2>1, <3>1, VisitsMove, VisitsKept DEF VisitsInv
  <2>2. CASE part # "visits"
    BY <2>2, VisitsMove DEF VisitsInv, V!Planned
  <2> QED
    BY <2>1, <2>2
<1>3. ColoursInv /\ [Next]_vars => ColoursInv'
  <2> SUFFICES ASSUME ColoursInv, [Next]_vars PROVE ColoursInv'
    OBVIOUS
  <2>1. CASE part = "colours"
    <3>1. CASE UNCHANGED <<row, awards, improved, managed, pc, req, overlapped>>
      BY <2>1, <3>1, ColoursMove DEF ColoursInv, ColourInv, ColourTypes, HeldColours, Earned, Awarding,
        C!PersonalGreenClears
    <3> QED
      BY <2>1, <3>1, ColoursMove, ColoursKept DEF ColoursInv
  <2>2. CASE part # "colours"
    BY <2>2, ColoursMove DEF ColoursInv, C!NewDay
  <2> QED
    BY <2>1, <2>2
<1>4. TasksInv => T!PaidToDoer
  BY DEF TasksInv, TaskInv, PaidOnce, T!Created, T!PaidToDoer
<1>5. VisitsInv => V!NotesKept /\ V!CompletedOnce
  <2>1. CASE part = "visits"
    <3>1. IsFiniteSet(Extracting) => Cardinality(Extracting) \in Nat
      BY FS_CardinalityType
    <3> QED
      BY <2>1, <3>1 DEF VisitsInv, VisitInv, VisitTypes, Completions, V!CompletedOnce, V!NotesKept
  <2>2. CASE part # "visits"
    BY <2>2 DEF VisitsInv, V!Planned, V!CompletedOnce, V!NotesKept
  <2> QED
    BY <2>1, <2>2
<1>6. ColoursInv => C!AwardsAreEarned /\ C!PersonalGreenClears
  <2>1. CASE part = "colours"
    <3>1. \A b \in C!Better : IsFiniteSet(Awarding(b)) => Cardinality(Awarding(b)) \in Nat
      BY FS_CardinalityType
    <3> QED
      BY <2>1, <3>1 DEF ColoursInv, ColourInv, ColourTypes, Earned, C!AwardsAreEarned
  <2>2. CASE part # "colours"
    BY <2>2 DEF ColoursInv, C!NewDay, C!AwardsAreEarned, C!PersonalGreenClears
  <2> QED
    BY <2>1, <2>2
<1> QED
  BY TasksStart, VisitsStart, ColoursStart, <1>1, <1>2, <1>3, <1>4, <1>5, <1>6, PTL
  DEF Spec, StaffWorkOnRecord

------------------------------------------------------------------------------
\* The video of a slot and its files (VideoCheckin).

\* Which steps change a video and its file.
LEMMA VideosMove ==
  ASSUME [Next]_vars
  PROVE  /\ part' = part
         /\ part = "videos" => \/ \E r \in Requests : U!Step(r)
                               \/ U!Other
                               \/ UNCHANGED <<phase, video, files, job, pruning, broken, pc, req, overlapped>>
         /\ part # "videos" => UNCHANGED <<phase, video, files, job, pruning, broken>>
<1>1. CASE Next
  <2>1. CASE VideoStep
    BY <2>1 DEF VideoStep
  <2> QED
    BY <1>1, <2>1 DEF Next, TaskStep, VisitStep, ColourStep, GroupStep, LessonStep, StreakStep,
      ContestStep, ChatStep, PageStep, ErasureStep, EventStep, requests, studentRows, videoRows
<1>2. CASE UNCHANGED vars
  BY <1>2 DEF vars, requests, studentRows, videoRows
<1> QED
  BY <1>1, <1>2

VideoRow ==
  [status : {"none", "missed", "late", "submitted"},
   path : Requests \union Formats \union {"none"}, by : Requests \union {"nobody"}]

VideoTypes ==
  /\ phase \in 1..4
  /\ video \in VideoRow
  /\ files \subseteq Requests \union Formats
  /\ job \in [step : {"waits", "listed", "looked", "done"}, was : VideoRow]
  /\ pruning \in {"idle", "files", "rows"}
  /\ broken \in BOOLEAN /\ overlapped \in BOOLEAN
  /\ pc \in [Requests -> {"idle", "arrived", "lookedUp", "removed", "saved", "renamed", "done"}]
  /\ DOMAIN req = Requests
  /\ \A r \in Requests :
       pc[r] # "idle" => req[r] \in [status : {"late", "submitted"}, final : Formats, was : VideoRow]

Written == {"saved", "renamed", "done"}

\* A row is as the upload that wrote it left it, or as the job marked it.
Attributed(v) ==
  /\ v.by \in Requests => pc[v.by] \in Written
  /\ v.path \in Requests => v.path = v.by
  /\ ~ overlapped /\ v.by \in Requests /\ v.path \in Formats => pc[v.by] = "done"
  /\ v.status = "missed" => job.step = "done"

RowsAttributed ==
  /\ Attributed(video)
  /\ \A r \in Requests : pc[r] # "idle" => Attributed(req[r].was)

\* On the day after tomorrow the uploads and the job of the slot are over.
Late ==
  /\ phase = 4 => ~ U!Uploading /\ job.step = "done"
  /\ pruning # "idle" => phase = 4
  /\ job.step = "looked" => job.was.status \notin U!Submitted

\* An upload keeps its file until it is renamed, and loses that name then.
OwnFile ==
  \A r \in Requests :
    /\ pc[r] \in {"arrived", "lookedUp", "removed"} => r \in files
    /\ U!Undisturbed /\ pc[r] \in {"renamed", "done"} => r \notin files

\* Somebody deleted the file f on the way to write the row.
Replacing(f) == \E s \in Requests : pc[s] = "removed" /\ req[s].was.path = f

\* Nothing the row points to is missing, but for a moment.
NothingMissing ==
  /\ pruning = "idle" =>
       \/ video.path \in files \union {"none"}
       \/ Replacing(video.path)
       \/ video.path \in Requests /\ pc[video.path] = "renamed"
  /\ \A r \in Requests : pc[r] = "renamed" /\ video.path = r =>
       req[r].final \in files \/ Replacing(req[r].final)

\* Nothing is on the disk that no upload and no row accounts for.
NothingExtra ==
  /\ \A r \in Requests : pc[r] = "removed" /\ video = req[r].was => video.path \notin files
  /\ \A f \in files :
       \/ f = video.path
       \/ f \in Requests /\ pc[f] \in {"arrived", "lookedUp", "removed", "saved"}
       \/ \E r \in Requests : pc[r] = "renamed" /\ req[r].final = f
  /\ pruning # "idle" => files = {}

VideoInv ==
  /\ VideoTypes /\ RowsAttributed /\ Late /\ OwnFile
  /\ U!Undisturbed => NothingMissing /\ NothingExtra

VideosInv == IF part = "videos" THEN VideoInv ELSE U!Morning

\* The places of an upload are different places.
LEMMA PhaseNames ==
  /\ Len(U!Phases) = 4
  /\ \A p \in 1..4 : /\ U!Phases[p] = "old" <=> p = 4
                     /\ U!Phases[p] \in {"onTime", "late"} <=> p \in {1, 2}
BY DEF U!Phases

\* The day begins without a file on the disk.
LEMMA VideosStart == Init => VideosInv
<1> SUFFICES ASSUME Init PROVE VideosInv
  OBVIOUS
<1>1. U!Morning
  BY DEF Init
<1>2. ASSUME part = "videos" PROVE VideoInv
  <2>1. pc = [r \in Requests |-> "idle"] /\ DOMAIN req = Requests /\ overlapped = FALSE
    BY DEF Init
  <2>2. video = [status |-> "none", path |-> "none", by |-> "nobody"] /\ video \in VideoRow
    BY <1>1 DEF U!Morning, U!NoFile, VideoRow
  <2>3. VideoTypes
    <3>1. /\ phase = 1 /\ files = {} /\ job = [step |-> "waits", was |-> video]
          /\ pruning = "idle" /\ broken = FALSE
      BY <1>1 DEF U!Morning
    <3>2. job \in [step : {"waits", "listed", "looked", "done"}, was : VideoRow]
      BY <2>2, <3>1
    <3>3. phase \in 1..4
      BY <3>1
    <3>4. files \subseteq Requests \union Formats
      BY <3>1
    <3>5. pruning \in {"idle", "files", "rows"} /\ broken \in BOOLEAN
      BY <3>1
    <3>6. pc \in [Requests -> {"idle", "arrived", "lookedUp", "removed", "saved", "renamed", "done"}]
          /\ \A r \in Requests : pc[r] = "idle"
      BY <2>1
    <3> QED
      BY <2>1, <2>2, <3>2, <3>3, <3>4, <3>5, <3>6 DEF VideoTypes
  <2>4. RowsAttributed /\ Late /\ OwnFile
    BY <1>1, <2>1, <2>2, BranchDayAssumption DEF U!Morning, RowsAttributed, Attributed, Late, OwnFile,
      U!Uploading
  <2>5. NothingMissing /\ NothingExtra
    BY <1>1, <2>1, <2>2 DEF U!Morning, NothingMissing, NothingExtra
  <2> QED
    BY <2>3, <2>4, <2>5 DEF VideoInv
<1> QED
  BY <1>1, <1>2 DEF VideosInv

\* Every step of an upload keeps the invariant.
LEMMA UploadsKeep ==
  ASSUME VideoInv, NEW r \in Requests, U!Step(r)
  PROVE  VideoInv'
<1> USE BranchDayAssumption DEF VideoInv, VideoTypes, VideoRow, RowsAttributed, Attributed, Written, Late, OwnFile,
        U!Undisturbed, U!Uploading, U!Submitted, U!Go, U!Carry
<1>1. CASE U!Arrive(r)
  <2>1. phase \in {1, 2} /\ pruning = "idle"
    BY <1>1, PhaseNames DEF U!Arrive
  <2>2. PICK format \in Formats, status \in {"late", "submitted"} :
          req' = [req EXCEPT ![r] = [status |-> status, final |-> format, was |-> video]]
    BY <1>1 DEF U!Arrive
  <2> USE <1>1, <2>1, <2>2 DEF U!Arrive
  <2>3. VideoTypes'
    OBVIOUS
  <2>4. RowsAttributed' /\ Late' /\ OwnFile'
    OBVIOUS
  <2>5. U!Undisturbed' => NothingMissing'
    BY DEF NothingMissing, Replacing
  <2>6. U!Undisturbed' => NothingExtra'
    BY DEF NothingExtra
  <2> QED
    BY <2>3, <2>4, <2>5, <2>6
<1>2. CASE U!LookUp(r)
  <2> USE <1>2 DEF U!LookUp, U!state
  <2>3. VideoTypes'
    OBVIOUS
  <2>4. RowsAttributed' /\ Late' /\ OwnFile'
    OBVIOUS
  <2>5. U!Undisturbed' => NothingMissing'
    BY DEF NothingMissing, Replacing
  <2>6. U!Undisturbed' => NothingExtra'
    BY DEF NothingExtra
  <2> QED
    BY <2>3, <2>4, <2>5, <2>6
<1>3. CASE U!RemoveOld(r)
  <2> USE <1>3 DEF U!RemoveOld
  <2>3. VideoTypes'
    OBVIOUS
  <2>4. RowsAttributed' /\ Late' /\ OwnFile'
    OBVIOUS
  <2>5. U!Undisturbed' => NothingMissing'
    BY DEF NothingMissing, Replacing
  <2>6. U!Undisturbed' => NothingExtra'
    BY DEF NothingExtra
  <2> QED
    BY <2>3, <2>4, <2>5, <2>6
<1>4. CASE U!Save(r)
  <2> USE <1>4 DEF U!Save
  <2>1. VideoTypes'
    BY DEF U!FinalStatus
  <2>2. RowsAttributed' /\ Late' /\ OwnFile'
    BY DEF U!FinalStatus
  <2>3. U!Undisturbed' => NothingMissing'
    BY DEF NothingMissing, Replacing
  <2>4. ASSUME U!Undisturbed' PROVE NothingExtra'
    <3>1. video = req[r].was /\ video'.path = r /\ video'.by = r /\ pc[r] = "removed" /\ U!Undisturbed
      BY <2>4
    <3>2. \A s \in Requests : pc[s] # "idle" => req[s].was.by # r
      BY <3>1
    <3>3. pruning = "idle" /\ video.path \notin files
      BY <3>1 DEF NothingExtra
    <3> QED
      BY <3>1, <3>2, <3>3 DEF NothingExtra
  <2> QED
    BY <2>1, <2>2, <2>3, <2>4
<1>5. CASE U!Rename(r)
  <2> USE <1>5 DEF U!Rename
  <2>1. VideoTypes'
    OBVIOUS
  <2>2. RowsAttributed' /\ Late' /\ OwnFile'
    OBVIOUS
  <2>3. ASSUME U!Undisturbed' PROVE NothingMissing' /\ NothingExtra'
    <3>1. video.path = r /\ pruning = "idle" /\ U!Undisturbed
      BY <2>3
    <3>2. CASE r \in files
      <4>1. files' = (files \ {r}) \union {req[r].final} /\ pc' = [pc EXCEPT ![r] = "renamed"] /\ req' = req
        BY <3>2
      <4>2. NothingMissing'
        BY <3>1, <4>1 DEF NothingMissing, Replacing
      <4>3. NothingExtra'
        BY <3>1, <4>1 DEF NothingExtra
      <4> QED
        BY <4>2, <4>3
    <3>3. CASE r \notin files
      <4>1. files' = files \ {req[r].final} /\ pc' = [pc EXCEPT ![r] = "done"] /\ req' = req
        BY <3>3
      <4>2. NothingMissing'
        BY <3>1, <3>3, <4>1 DEF NothingMissing, Replacing
      <4>3. NothingExtra'
        BY <3>1, <3>3, <4>1 DEF NothingExtra
      <4> QED
        BY <4>2, <4>3
    <3> QED
      BY <3>2, <3>3
  <2> QED
    BY <2>1, <2>2, <2>3
<1>6. CASE U!SetPath(r)
  <2> USE <1>6 DEF U!SetPath
  <2>1. VideoTypes'
    OBVIOUS
  <2>2. ~ overlapped' => video.path = r /\ video.by = r /\ ~ overlapped
    OBVIOUS
  <2>3. RowsAttributed'
    <3>1. Attributed(video)'
      BY <2>2
    <3>2. \A s \in Requests : pc[s] # "idle" => Attributed(req[s].was)'
      OBVIOUS
    <3> QED
      BY <3>1, <3>2
  <2>4. Late' /\ OwnFile'
    OBVIOUS
  <2>5. ASSUME U!Undisturbed' PROVE NothingMissing' /\ NothingExtra'
    <3>1. /\ video.path = r /\ video.by = r /\ pruning = "idle" /\ U!Undisturbed /\ r \notin files
          /\ video'.path = req[r].final /\ video'.by = r
          /\ pc' = [pc EXCEPT ![r] = "done"] /\ req' = req /\ files' = files /\ pruning' = pruning
      BY <2>2, <2>5
    <3>2. \A f : Replacing(f)' <=> Replacing(f)
      BY <3>1 DEF Replacing
    <3>3. NothingMissing'
      BY <3>1, <3>2 DEF NothingMissing
    <3>4. \A s \in Requests : pc[s] = "removed" => req[s].was # video'
      BY <3>1
    <3>5. NothingExtra'
      BY <3>1, <3>4 DEF NothingExtra
    <3> QED
      BY <3>3, <3>5
  <2> QED
    BY <2>1, <2>3, <2>4, <2>5
<1>7. CASE U!Break(r)
  BY <1>7 DEF U!Break
<1> QED
  BY <1>1, <1>2, <1>3, <1>4, <1>5, <1>6, <1>7 DEF U!Step

\* So does every step of the nightly job and of the reviewer.
LEMMA NightKeeps ==
  ASSUME VideoInv, U!Other
  PROVE  VideoInv'
<1> USE DEF VideoInv, VideoTypes, VideoRow, RowsAttributed, Attributed, Late, OwnFile,
        NothingMissing, NothingExtra, Replacing, U!Undisturbed, U!Uploading, U!Submitted
<1>1. CASE U!TimePasses
  <2>1. phase' = phase + 1 /\ phase' \in 1..4
    BY <1>1, PhaseNames DEF U!TimePasses
  <2>2. phase' = 4 => ~ U!Uploading /\ job.step = "done"
    BY <1>1, <2>1, PhaseNames DEF U!TimePasses
  <2> QED
    BY <1>1, <2>1, <2>2 DEF U!TimePasses
<1>2. CASE U!ListDone
  BY <1>2, PhaseNames DEF U!ListDone, U!Look
<1>3. CASE U!MarkMissedLooks
  BY <1>3 DEF U!MarkMissedLooks, U!Look
<1>4. CASE U!MarkMissedWrites
  <2> USE <1>4 DEF U!MarkMissedWrites
  <2>1. VideoTypes'
    OBVIOUS
  <2>2. RowsAttributed' /\ Late' /\ OwnFile'
    OBVIOUS
  <2>3. ASSUME U!Undisturbed' PROVE NothingMissing' /\ NothingExtra'
    <3>1. \A r \in Requests : pc[r] # "idle" => req[r].was # video'
      BY <2>3
    <3> QED
      BY <2>3, <3>1
  <2> QED
    BY <2>1, <2>2, <2>3
<1>5. CASE U!PruneFiles
  <2>1. phase = 4
    BY <1>5, PhaseNames DEF U!PruneFiles
  <2>2. U!Undisturbed => files' = {}
    BY <1>5, <2>1 DEF U!PruneFiles
  <2> QED
    BY <1>5, <2>1, <2>2 DEF U!PruneFiles
<1>6. CASE U!PruneRows
  <2>1. phase = 4
    BY <1>6 DEF U!PruneRows
  <2> USE <1>6, <2>1, BranchDayAssumption DEF U!PruneRows, U!NoFile
  <2>2. VideoTypes'
    OBVIOUS
  <2>3. RowsAttributed' /\ Late' /\ OwnFile'
    OBVIOUS
  <2>4. U!Undisturbed' => NothingMissing' /\ NothingExtra'
    OBVIOUS
  <2> QED
    BY <2>2, <2>3, <2>4
<1> QED
  BY <1>1, <1>2, <1>3, <1>4, <1>5, <1>6 DEF U!Other

\* The invariant is inductive.
LEMMA VideosNext == VideosInv /\ [Next]_vars => VideosInv'
<1> SUFFICES ASSUME VideosInv, [Next]_vars PROVE VideosInv'
  OBVIOUS
<1>1. CASE part = "videos"
  <2>1. CASE UNCHANGED <<phase, video, files, job, pruning, broken, pc, req, overlapped>>
    BY <1>1, <2>1, VideosMove DEF VideosInv, VideoInv, VideoTypes, RowsAttributed, Attributed, Late, OwnFile,
      NothingMissing, NothingExtra, Replacing, U!Undisturbed, U!Uploading
  <2> QED
    BY <1>1, <2>1, VideosMove, UploadsKeep, NightKeeps DEF VideosInv
<1>2. CASE part # "videos"
  BY <1>2, VideosMove DEF VideosInv, U!Morning
<1> QED
  BY <1>1, <1>2

\* Between uploads the row points to a file that is there, and the nightly
\* deletion leaves none.
THEOREM Videos == Spec => []FilesAgree
<1>1. VideosInv /\ [Next]_vars => VideosInv'
  BY VideosNext
<1>2. VideosInv => FilesAgree
  BY DEF VideosInv, VideoInv, VideoTypes, NothingMissing, NothingExtra, Replacing, U!Morning, U!Uploading,
    U!NoFile, FilesAgree, U!FileBehindRow, U!NothingLeftOnDisk
<1> QED
  BY VideosStart, <1>1, <1>2, PTL DEF Spec

------------------------------------------------------------------------------
\* The messages of a student (Chat).

\* Which steps change the chat.
LEMMA ChatMove ==
  ASSUME [Next]_vars
  PROVE  /\ part' = part
         /\ part = "chat" => \/ \E r \in Requests : H!Step(r)
                             \/ H!Other
                             \/ UNCHANGED <<keeper, counter, lasting, sent, approved, rejected, today, warned, lapsed, missed, peak, pc, req, overlapped>>
         /\ part # "chat" => UNCHANGED <<keeper, counter, lasting, sent, approved, rejected, today, warned, lapsed, missed, peak>>
<1>1. CASE Next
  <2>1. CASE ChatStep
    BY <2>1 DEF ChatStep
  <2> QED
    BY <1>1, <2>1 DEF Next, TaskStep, VisitStep, ColourStep, GroupStep, VideoStep, LessonStep,
      StreakStep, ContestStep, PageStep, ErasureStep, EventStep, requests, studentRows, chatRows
<1>2. CASE UNCHANGED vars
  BY <1>2 DEF vars, requests, studentRows, chatRows
<1> QED
  BY <1>1, <1>2

ChatTypes ==
  /\ keeper \in {"redis", "rows"}
  /\ counter \in Nat /\ sent \in Nat /\ approved \in Nat /\ rejected \in Nat /\ warned \in Nat /\ peak \in Nat
  /\ today \in [Rooms -> Nat]
  /\ lasting \in BOOLEAN /\ lapsed \in BOOLEAN /\ missed \in BOOLEAN /\ overlapped \in BOOLEAN
  /\ pc \in [Requests -> {"idle", "bump", "expire", "create", "count", "warn"}]
  /\ req \in [Requests -> [was : Nat, room : Rooms \union {"none"}]]

\* A message on its way was within the limit when its count was read.
HeldMessages ==
  \A r \in Requests :
    /\ pc[r] \in {"bump", "expire"} => keeper = "redis"
    /\ ~ lapsed /\ pc[r] = "bump" => req[r].was < DailyLimit
    /\ pc[r] = "create" /\ keeper = "rows" =>
         req[r].room \in Rooms /\ (~ lapsed => req[r].was < DailyLimit)

\* The requests whose message the key has counted and that are not yet rows.
InFlight == {r \in Requests : pc[r] \in {"expire", "create"}}

\* The key counts what was sent and what is in flight, and stays within the
\* limit; the rows of a group do.
Admitted ==
  /\ IsFiniteSet(InFlight)
  /\ ~ overlapped /\ ~ lapsed =>
       IF keeper = "redis"
       THEN counter <= DailyLimit /\ sent + Cardinality(InFlight) <= counter
       ELSE \A g \in Rooms : today[g] <= DailyLimit

\* The rejections that earn a warning which is still to be written.
Owed == {r \in Requests : pc[r] = "warn" \/ (pc[r] = "count" /\ req[r].was % WarnEvery = 0)}

\* Every multiple of WarnEvery that was reached has its warning or owes it.
WarningsOwed ==
  /\ rejected <= peak
  /\ \A r \in Requests : pc[r] = "count" => req[r].was > 0
  /\ \A r \in Requests : pc[r] = "warn" => peak >= WarnEvery
  /\ warned > 0 => peak >= WarnEvery
  /\ IsFiniteSet(Owed)
  /\ ~ overlapped /\ ~ missed => warned + Cardinality(Owed) >= peak \div WarnEvery

ChatInv == ChatTypes /\ HeldMessages /\ Admitted /\ H!CountEnds /\ WarningsOwed

MessagesInv == IF part = "chat" THEN ChatInv ELSE H!Unwritten

\* The day begins without a message.
LEMMA MessagesStart == Init => MessagesInv
<1> SUFFICES ASSUME Init PROVE MessagesInv
  OBVIOUS
<1>1. H!Unwritten
  BY DEF Init
<1>2. ASSUME part = "chat" PROVE ChatInv
  <2>1. pc = [r \in Requests |-> "idle"] /\ req = [r \in Requests |-> [was |-> 0, room |-> "none"]] /\ overlapped = FALSE
    BY <1>2 DEF Init, H!NoReq
  <2>2. Owed = {}
    BY <2>1 DEF Owed
  <2>3. IsFiniteSet(Owed) /\ Cardinality(Owed) = 0
    BY <2>2, FS_EmptySet
  <2>4. 0 \div WarnEvery = 0
    BY BranchDayAssumption
  <2>5. WarningsOwed
    BY <1>1, <2>1, <2>3, <2>4 DEF H!Unwritten, WarningsOwed
  <2>6. ChatTypes /\ HeldMessages
    BY <1>1, <2>1 DEF H!Unwritten, ChatTypes, HeldMessages
  <2>7. InFlight = {}
    BY <2>1 DEF InFlight
  <2>8. IsFiniteSet(InFlight) /\ Cardinality(InFlight) = 0
    BY <2>7, FS_EmptySet
  <2>9. Admitted /\ H!CountEnds
    BY <1>1, <2>8, BranchDayAssumption DEF H!Unwritten, Admitted, H!CountEnds
  <2> QED
    BY <2>5, <2>6, <2>9 DEF ChatInv
<1> QED
  BY <1>1, <1>2 DEF MessagesInv

\* What does not touch a rejection leaves the warnings as they are.
LEMMA WarningsUntouched ==
  ASSUME ChatInv, \/ \E r \in Requests : H!Send(r)
                  \/ H!Delete \/ H!KeyExpires \/ H!Midnight
  PROVE  WarningsOwed'
<1>1. UNCHANGED <<rejected, warned, missed, peak>> /\ (overlapped => overlapped')
  BY DEF ChatInv, ChatTypes, H!Send, H!SendReads, H!SendReadFails, H!SendBumps, H!SendExpires, H!RedisFails, H!SendCreates,
    H!SendStops, H!Delete, H!KeyExpires, H!Midnight, H!chat, H!messages
<1>2. \A s \in Requests :
        /\ pc'[s] \in {"count", "warn"} <=> pc[s] \in {"count", "warn"}
        /\ pc[s] \in {"count", "warn"} => pc'[s] = pc[s] /\ req'[s] = req[s]
  BY DEF ChatInv, ChatTypes, H!Send, H!SendReads, H!SendReadFails, H!SendBumps, H!SendExpires, H!RedisFails,
    H!SendCreates, H!SendStops, H!Delete, H!KeyExpires, H!Midnight, H!Begin, H!Goto, H!Return
<1>3. Owed' = Owed
  BY <1>2 DEF Owed
<1> QED
  BY <1>1, <1>2, <1>3 DEF ChatInv, ChatTypes, WarningsOwed

\* A message that is sent is typed, held and counted as the invariant says.
LEMMA SendHeld ==
  ASSUME ChatInv, NEW r \in Requests, H!Send(r)
  PROVE  ChatTypes' /\ HeldMessages' /\ H!CountEnds'
<1> USE BranchDayAssumption DEF ChatInv, ChatTypes, HeldMessages, H!CountEnds, H!Count,
        H!Goto, H!Return, H!NoReq, H!chat, H!messages
<1>1. ASSUME NEW g \in Rooms, H!Begin(r, g), UNCHANGED <<keeper, counter, lasting, sent, approved, rejected, today, warned, missed, peak, overlapped>>,
             lapsed' \in BOOLEAN, lapsed' \/ (H!Count(g) < DailyLimit /\ lapsed' = lapsed)
      PROVE  ChatTypes' /\ HeldMessages' /\ H!CountEnds'
  <2>1. H!Count(g) \in Nat
    OBVIOUS
  <2>2. CASE keeper = "redis"
    BY <1>1, <2>1, <2>2 DEF H!Begin
  <2>3. CASE keeper = "rows"
    BY <1>1, <2>1, <2>3 DEF H!Begin
  <2> QED
    BY <2>2, <2>3
<1>2. CASE H!SendReads(r)
  BY <1>1, <1>2 DEF H!SendReads
<1>3. CASE H!SendReadFails(r)
  BY <1>1, <1>3 DEF H!SendReadFails
<1>4. CASE H!SendBumps(r)
  BY <1>4 DEF H!SendBumps
<1>5. CASE H!SendExpires(r)
  BY <1>5 DEF H!SendExpires
<1>6. CASE H!RedisFails(r)
  BY <1>6 DEF H!RedisFails
<1>7. CASE H!SendCreates(r)
  <2>1. today' \in [Rooms -> Nat]
    <3>1. CASE keeper = "redis"
      BY <1>7, <3>1 DEF H!SendCreates
    <3>2. CASE keeper = "rows"
      BY <1>7, <3>2 DEF H!SendCreates
    <3> QED
      BY <3>1, <3>2
  <2>2. sent' \in Nat
    BY <1>7 DEF H!SendCreates
  <2> QED
    BY <1>7, <2>1, <2>2 DEF H!SendCreates
<1>8. CASE H!SendStops(r)
  BY <1>8 DEF H!SendStops
<1> QED
  BY <1>2, <1>3, <1>4, <1>5, <1>6, <1>7, <1>8 DEF H!Send

\* No message is admitted above the limit.
LEMMA SendAdmits ==
  ASSUME ChatInv, NEW r \in Requests, H!Send(r)
  PROVE  Admitted'
<1> DEFINE n == Cardinality(InFlight)
<1> USE DEF ChatInv, ChatTypes
<1>1. IsFiniteSet(InFlight) /\ n \in Nat
  BY FS_CardinalityType DEF Admitted
<1>2. IsFiniteSet(InFlight \union {r}) /\ IsFiniteSet(InFlight \ {r})
  BY <1>1, FS_AddElement, FS_RemoveElement
<1>3. \A s \in Requests : s # r => pc'[s] = pc[s]
  BY DEF H!Send, H!SendReads, H!SendReadFails, H!SendBumps, H!SendExpires, H!RedisFails, H!SendCreates,
    H!SendStops, H!Begin, H!Goto, H!Return
<1>4. pc' \in [Requests -> {"idle", "bump", "expire", "create", "count", "warn"}]
  BY SendHeld
<1>5. InFlight' = (IF pc'[r] \in {"expire", "create"} THEN InFlight \union {r} ELSE InFlight \ {r})
  BY <1>3, <1>4 DEF InFlight
<1>6. IsFiniteSet(InFlight')
  BY <1>2, <1>5
<1>7. CASE H!SendReads(r)
  <2>1. keeper' = keeper /\ counter' = counter /\ sent' = sent /\ today' = today /\ lapsed' = lapsed /\ overlapped' = overlapped
    BY <1>7 DEF H!SendReads, H!chat, H!messages
  <2>2. pc[r] = "idle" /\ (keeper = "redis" => pc'[r] = "bump")
    BY <1>7 DEF H!SendReads, H!Begin, H!Goto
  <2>3. keeper = "redis" => InFlight' = InFlight
    BY <1>5, <2>2 DEF InFlight
  <2> QED
    BY <1>6, <2>1, <2>3 DEF Admitted
<1>8. CASE H!SendReadFails(r) \/ H!RedisFails(r)
  <2>1. lapsed'
    BY <1>8 DEF H!SendReadFails, H!RedisFails
  <2> QED
    BY <1>6, <2>1 DEF Admitted
<1>9. CASE H!SendBumps(r)
  <2>1. /\ pc[r] = "bump" /\ counter' = counter + 1 /\ keeper' = keeper /\ sent' = sent /\ lapsed' = lapsed
        /\ pc'[r] \in {"expire", "create"} /\ overlapped' = (overlapped \/ counter # req[r].was)
    BY <1>9 DEF H!SendBumps, H!Goto, H!messages
  <2>2. keeper = "redis" /\ (~ lapsed => req[r].was < DailyLimit)
    BY <2>1 DEF HeldMessages
  <2>3. InFlight' = InFlight \union {r} /\ r \notin InFlight
    BY <1>5, <2>1 DEF InFlight
  <2>4. Cardinality(InFlight') = n + 1
    BY <1>1, <2>3, FS_AddElement
  <2>5. req[r].was \in Nat /\ counter \in Nat /\ sent \in Nat /\ DailyLimit \in Nat
    BY BranchDayAssumption
  <2>6. ~ overlapped' /\ ~ lapsed' => counter' <= DailyLimit /\ sent' + Cardinality(InFlight') <= counter'
    <3>1. ASSUME ~ overlapped', ~ lapsed' PROVE sent + n <= counter /\ counter = req[r].was /\ req[r].was < DailyLimit
      BY <2>1, <2>2, <3>1 DEF Admitted
    <3> HIDE DEF n
    <3> QED
      BY ONLY <1>1, <2>1, <2>4, <2>5, <3>1
  <2> QED
    BY ONLY <1>6, <2>1, <2>2, <2>6 DEF Admitted
<1>10. CASE H!SendExpires(r)
  <2>1. /\ pc[r] = "expire" /\ pc'[r] = "create" /\ keeper' = keeper /\ counter' = counter /\ sent' = sent
        /\ today' = today /\ lapsed' = lapsed /\ overlapped' = overlapped
    BY <1>10 DEF H!SendExpires, H!Goto, H!messages
  <2>2. InFlight' = InFlight
    BY <1>5, <2>1 DEF InFlight
  <2> QED
    BY <1>6, <2>1, <2>2 DEF Admitted
<1>11. CASE H!SendCreates(r)
  <2>1. /\ pc[r] = "create" /\ pc'[r] = "idle" /\ keeper' = keeper /\ counter' = counter /\ lapsed' = lapsed
        /\ overlapped' = (overlapped \/ (keeper = "rows" /\ H!Count(req[r].room) # req[r].was))
    BY <1>11 DEF H!SendCreates, H!Return, H!Goto
  <2>2. CASE keeper = "redis"
    <3>1. sent' = sent \/ sent' = sent + 1
      BY <1>11, <2>2 DEF H!SendCreates
    <3>2. InFlight' = InFlight \ {r} /\ r \in InFlight
      BY <1>5, <2>1 DEF InFlight
    <3>3. Cardinality(InFlight') = n - 1
      BY <1>1, <3>2, FS_RemoveElement
    <3>4. ~ overlapped /\ ~ lapsed => counter <= DailyLimit /\ sent + n <= counter
      BY <2>2 DEF Admitted
    <3>5. ~ overlapped /\ ~ lapsed => counter <= DailyLimit /\ sent' + Cardinality(InFlight') <= counter
      <4> HIDE DEF n
      <4>1. sent \in Nat /\ counter \in Nat /\ DailyLimit \in Nat
        BY BranchDayAssumption
      <4> QED
        BY ONLY <1>1, <3>1, <3>3, <3>4, <4>1
    <3> QED
      BY ONLY <1>6, <2>1, <2>2, <3>5 DEF Admitted
  <2>3. CASE keeper = "rows"
    <3>1. today' = [today EXCEPT ![req[r].room] = @ + 1] /\ req[r].room \in Rooms
      BY <1>11, <2>1, <2>3 DEF H!SendCreates, HeldMessages
    <3>2. ASSUME ~ overlapped', ~ lapsed'
          PROVE  today[req[r].room] = req[r].was /\ req[r].was < DailyLimit /\ \A g \in Rooms : today[g] <= DailyLimit
      BY <2>1, <2>3, <3>2 DEF Admitted, HeldMessages, H!Count
    <3>3. req[r].was \in Nat /\ DailyLimit \in Nat /\ today \in [Rooms -> Nat]
      BY BranchDayAssumption
    <3>4. ~ overlapped' /\ ~ lapsed' => \A g \in Rooms : today'[g] <= DailyLimit
      BY ONLY <3>1, <3>2, <3>3
    <3> QED
      BY ONLY <1>6, <2>1, <2>3, <3>4 DEF Admitted
  <2> QED
    BY <2>2, <2>3
<1>12. CASE H!SendStops(r)
  <2>1. /\ pc[r] \in {"bump", "expire", "create"} /\ pc'[r] = "idle" /\ keeper' = keeper /\ counter' = counter
        /\ sent' = sent /\ today' = today /\ overlapped' = overlapped /\ (~ lapsed' => ~ lapsed)
    BY <1>12 DEF H!SendStops, H!Return, H!Goto, H!messages
  <2>2. InFlight' \subseteq InFlight
    BY <1>5, <2>1
  <2>3. Cardinality(InFlight') <= n /\ Cardinality(InFlight') \in Nat
    BY <1>1, <1>6, <2>2, FS_Subset, FS_CardinalityType
  <2>4. sent + n <= counter => sent + Cardinality(InFlight') <= counter
    <3> HIDE DEF n
    <3>1. sent \in Nat /\ counter \in Nat
      OBVIOUS
    <3> QED
      BY ONLY <1>1, <2>3, <3>1
  <2> QED
    BY <1>6, <2>1, <2>4 DEF Admitted
<1> QED
  BY <1>7, <1>8, <1>9, <1>10, <1>11, <1>12 DEF H!Send

\* Every step of a message that is sent keeps the invariant.
LEMMA SendKeeps ==
  ASSUME ChatInv, NEW r \in Requests, H!Send(r)
  PROVE  ChatInv'
<1>1. WarningsOwed'
  BY WarningsUntouched
<1> QED
  BY <1>1, SendHeld, SendAdmits DEF ChatInv

\* So does every step of the moderator.
LEMMA ModerationKeeps ==
  ASSUME ChatInv, NEW r \in Requests,
         H!RejectWrites(r) \/ H!RejectCounts(r) \/ H!RejectWarns(r) \/ H!RejectFails(r)
  PROVE  ChatInv'
<1> USE DEF ChatInv, ChatTypes, H!Goto, H!Return, H!NoReq, H!chat, H!messages
<1>1. ChatTypes' /\ HeldMessages'
  <2> USE DEF HeldMessages
  <2>1. CASE H!RejectWrites(r)
    BY <2>1 DEF H!RejectWrites
  <2>2. CASE H!RejectCounts(r)
    BY <2>2 DEF H!RejectCounts
  <2>3. CASE H!RejectWarns(r)
    BY <2>3 DEF H!RejectWarns
  <2>4. CASE H!RejectFails(r)
    BY <2>4 DEF H!RejectFails
  <2> QED
    BY <2>1, <2>2, <2>3, <2>4
<1>2. Admitted' /\ H!CountEnds'
  <2>1. InFlight' = InFlight
    BY DEF InFlight, H!RejectWrites, H!RejectCounts, H!RejectWarns, H!RejectFails
  <2>2. /\ keeper' = keeper /\ counter' = counter /\ lasting' = lasting /\ sent' = sent /\ today' = today
        /\ lapsed' = lapsed /\ (~ overlapped' => ~ overlapped)
    BY DEF H!RejectWrites, H!RejectCounts, H!RejectWarns, H!RejectFails
  <2>3. H!CountEnds'
    BY <2>2 DEF H!CountEnds, H!RejectWrites, H!RejectCounts, H!RejectWarns, H!RejectFails
  <2> QED
    BY <2>1, <2>2, <2>3 DEF Admitted
<1>3. Cardinality(Owed) \in Nat
  BY FS_CardinalityType DEF WarningsOwed
<1>4. WarnEvery \in Nat \ {0}
  BY BranchDayAssumption
<1>5. CASE H!RejectWrites(r)
  <2> USE <1>5 DEF H!RejectWrites
  <2>1. /\ rejected' \in Nat /\ rejected' > 0 /\ rejected' <= rejected + 1
        /\ peak' = IF rejected' > peak THEN rejected' ELSE peak
        /\ pc[r] = "idle" /\ pc' = [pc EXCEPT ![r] = "count"] /\ req' = [req EXCEPT ![r] = [was |-> rejected', room |-> "none"]]
        /\ UNCHANGED <<warned, missed, overlapped>>
    OBVIOUS
  <2>2. peak' = peak \/ (peak' = peak + 1 /\ peak' = rejected')
    BY <2>1 DEF WarningsOwed
  <2>3. CASE rejected' % WarnEvery = 0
    <3>1. Owed' = Owed \union {r} /\ r \notin Owed
      BY <2>1, <2>3 DEF Owed
    <3>2. IsFiniteSet(Owed') /\ Cardinality(Owed') = Cardinality(Owed) + 1
      BY <3>1, FS_AddElement DEF WarningsOwed
    <3>3. peak' \div WarnEvery <= peak \div WarnEvery + 1
      BY <1>4, <2>2, <2>3, NextMultiple
    <3>4. peak \div WarnEvery \in Int
      BY <1>4
    <3>5. ~ overlapped /\ ~ missed => warned + Cardinality(Owed') >= peak' \div WarnEvery
      BY ONLY <1>3, <1>4, <2>2, <3>2, <3>3, <3>4, ChatInv DEF ChatInv, ChatTypes, WarningsOwed
    <3>6. WarningsOwed'
      BY ONLY <1>4, <2>1, <2>2, <3>2, <3>5, ChatInv DEF ChatInv, ChatTypes, WarningsOwed
    <3> QED
      BY <1>1, <1>2, <3>6
  <2>4. CASE rejected' % WarnEvery # 0
    <3>1. Owed' = Owed
      BY <2>1, <2>4 DEF Owed
    <3>2. peak' \div WarnEvery = peak \div WarnEvery
      BY <1>4, <2>2, <2>4, NextMultiple
    <3>3. WarningsOwed'
      BY ONLY <1>4, <2>1, <2>2, <3>1, <3>2, ChatInv DEF ChatInv, ChatTypes, WarningsOwed
    <3> QED
      BY <1>1, <1>2, <3>3
  <2> QED
    BY <2>3, <2>4
<1>6. CASE H!RejectCounts(r)
  <2> USE <1>6 DEF H!RejectCounts
  <2>1. H!Earns(rejected) => rejected >= WarnEvery
    <3>1. rejected > 0 => rejected \in Nat \ {0}
      OBVIOUS
    <3> QED
      BY ONLY <1>4, <3>1, FirstMultiple DEF H!Earns
  <2>4. /\ pc[r] = "count"
        /\ IF H!Earns(rejected) THEN pc' = [pc EXCEPT ![r] = "warn"] /\ req' = req
           ELSE pc' = [pc EXCEPT ![r] = "idle"] /\ req' = [req EXCEPT ![r] = [was |-> 0, room |-> "none"]]
        /\ overlapped' = (overlapped \/ rejected # req[r].was)
        /\ UNCHANGED <<rejected, warned, missed, peak>>
    OBVIOUS
  <2>5. \A s \in Requests : /\ pc'[s] = "count" => pc[s] = "count" /\ req'[s] = req[s]
                           /\ pc'[s] = "warn" => pc[s] = "warn" \/ rejected >= WarnEvery
    BY <2>1, <2>4
  <2>2. CASE rejected = req[r].was
    <3>1. Owed' = Owed
      BY <2>2 DEF Owed, WarningsOwed, H!Earns
    <3> QED
      <4>1. WarningsOwed'
        BY ONLY <1>3, <1>4, <2>4, <2>5, <3>1, ChatInv DEF ChatInv, ChatTypes, WarningsOwed
      <4> QED
        BY <1>1, <1>2, <4>1
  <2>3. CASE rejected # req[r].was
    <3>1. IsFiniteSet(Owed \union {r})
      BY FS_AddElement DEF WarningsOwed
    <3>2. Owed' \subseteq Owed \union {r}
      BY DEF Owed
    <3>3. IsFiniteSet(Owed')
      BY <3>1, <3>2, FS_Subset
    <3>4. UNCHANGED <<rejected, warned, missed, peak>> /\ overlapped'
      BY <2>3, <2>4
    <3> QED
      <4>2. rejected' <= peak' /\ (warned' > 0 => peak' >= WarnEvery)
        BY <3>4 DEF WarningsOwed
      <4>3. \A s \in Requests : pc'[s] = "count" => req'[s].was > 0
        BY <2>5 DEF WarningsOwed
      <4>4. \A s \in Requests : pc'[s] = "warn" => peak' >= WarnEvery
        BY ONLY <1>4, <2>5, <3>4, ChatInv DEF ChatInv, ChatTypes, WarningsOwed
      <4>1. WarningsOwed'
        BY ONLY <3>3, <3>4, <4>2, <4>3, <4>4 DEF WarningsOwed
      <4> QED
        BY <1>1, <1>2, <4>1
  <2> QED
    BY <2>2, <2>3
<1>7. CASE H!RejectWarns(r)
  <2> USE <1>7 DEF H!RejectWarns
  <2>1. Owed' = Owed \ {r} /\ r \in Owed
    BY DEF Owed
  <2>2. IsFiniteSet(Owed') /\ Cardinality(Owed') = Cardinality(Owed) - 1
    BY <2>1, FS_RemoveElement DEF WarningsOwed
  <2> QED
    BY <1>1, <1>2, <1>3, <2>2 DEF WarningsOwed
<1>8. CASE H!RejectFails(r)
  <2> USE <1>8 DEF H!RejectFails
  <2>1. Owed' \subseteq Owed
    BY DEF Owed
  <2>2. IsFiniteSet(Owed')
    BY <2>1, FS_Subset DEF WarningsOwed
  <2> QED
    BY <1>1, <1>2, <2>2 DEF WarningsOwed
<1> QED
  BY <1>5, <1>6, <1>7, <1>8

\* So does everything else in the chat.
LEMMA OthersKeep ==
  ASSUME ChatInv, H!Other
  PROVE  ChatInv'
<1> USE BranchDayAssumption DEF ChatInv, ChatTypes, HeldMessages, H!CountEnds, H!messages
<1>1. CASE H!Delete \/ H!Midnight
  <2>1. WarningsOwed'
    BY <1>1, WarningsUntouched
  <2>2. /\ keeper' = keeper /\ counter' = counter /\ lasting' = lasting /\ sent' = sent
        /\ approved' = approved /\ rejected' = rejected /\ warned' = warned /\ lapsed' = lapsed
        /\ missed' = missed /\ peak' = peak /\ pc' = pc /\ req' = req /\ overlapped' = overlapped
    BY <1>1 DEF H!Delete, H!Midnight
  <2>3. today' \in [Rooms -> Nat] /\ \A g \in Rooms : today'[g] <= today[g]
    BY <1>1 DEF H!Delete, H!Midnight
  <2>4. InFlight' = InFlight
    BY <2>2 DEF InFlight
  <2>5. Admitted'
    BY <2>2, <2>3, <2>4 DEF Admitted
  <2>6. ChatTypes' /\ HeldMessages' /\ H!CountEnds'
    BY <2>2, <2>3
  <2> QED
    BY ONLY <2>1, <2>5, <2>6 DEF ChatInv
<1>2. CASE H!KeyExpires
  <2>1. WarningsOwed'
    BY <1>2, WarningsUntouched
  <2>2. /\ counter' = 0 /\ lasting' = FALSE /\ sent' = 0 /\ keeper = "redis" /\ keeper' = keeper
        /\ approved' = approved /\ rejected' = rejected /\ today' = today /\ warned' = warned
        /\ lapsed' = lapsed /\ missed' = missed /\ peak' = peak /\ pc' = pc /\ req' = req
        /\ overlapped' = (overlapped \/ \E r \in Requests : pc[r] \in {"expire", "create"})
    BY <1>2 DEF H!KeyExpires
  <2>3. InFlight' = InFlight
    BY <2>2 DEF InFlight
  <2>4. ~ overlapped' => InFlight = {}
    BY <2>2 DEF InFlight
  <2>5. ~ overlapped' => Cardinality(InFlight') = 0
    BY <2>3, <2>4, FS_EmptySet
  <2>6. IsFiniteSet(InFlight')
    BY <2>3 DEF Admitted
  <2>7. Admitted'
    BY <2>2, <2>4, <2>5, <2>6 DEF Admitted
  <2>8. H!CountEnds'
    BY <2>2
  <2>9. HeldMessages'
    BY <2>2
  <2>10. ChatTypes'
    <3>1. overlapped' \in BOOLEAN
      BY <2>2
    <3> QED
      BY <2>2, <3>1
  <2> QED
    BY ONLY <2>1, <2>7, <2>8, <2>9, <2>10 DEF ChatInv
<1>3. CASE H!Approve \/ H!Cleanup
  <2>1. Owed' = Owed /\ InFlight' = InFlight
    BY <1>3 DEF H!Approve, H!Cleanup, Owed, InFlight
  <2>2. /\ keeper' = keeper /\ counter' = counter /\ lasting' = lasting /\ sent' = sent /\ today' = today
        /\ warned' = warned /\ lapsed' = lapsed /\ missed' = missed /\ peak' = peak /\ pc' = pc /\ req' = req
        /\ overlapped' = overlapped
    BY <1>3 DEF H!Approve, H!Cleanup
  <2>3. \/ rejected > 0 /\ rejected' = rejected - 1 /\ approved' \in {approved, approved + 1}
        \/ approved > 0 /\ approved' = approved - 1 /\ rejected' = rejected
    BY <1>3 DEF H!Approve, H!Cleanup
  <2>4. approved' \in Nat /\ rejected' \in Nat /\ rejected' <= rejected
    BY <2>3
  <2>5. Admitted'
    BY <2>1, <2>2 DEF Admitted
  <2>6. WarningsOwed'
    BY <2>1, <2>2, <2>4 DEF WarningsOwed
  <2> QED
    BY <2>2, <2>4, <2>5, <2>6
<1> QED
  BY <1>1, <1>2, <1>3 DEF H!Other

\* The invariant of the chat is inductive.
LEMMA MessagesKept == MessagesInv /\ [Next]_vars => MessagesInv'
<1> SUFFICES ASSUME MessagesInv, [Next]_vars PROVE MessagesInv'
  OBVIOUS
<1>1. CASE part = "chat"
  <2>1. CASE UNCHANGED <<keeper, counter, lasting, sent, approved, rejected, today, warned, lapsed, missed, peak, pc, req, overlapped>>
    <3>1. Owed' = Owed
      BY <2>1 DEF Owed
    <3>2. H!CountEnds' = H!CountEnds
      BY <2>1 DEF H!CountEnds
    <3>3. InFlight' = InFlight
      BY <2>1 DEF InFlight
    <3>4. Admitted' = Admitted
      BY <2>1, <3>3 DEF Admitted
    <3> QED
      BY <1>1, <2>1, <3>1, <3>2, <3>4, ChatMove DEF MessagesInv, ChatInv, ChatTypes, HeldMessages, WarningsOwed
  <2>2. ASSUME NEW r \in Requests, H!Step(r) PROVE ChatInv'
    <3>1. ChatInv
      BY <1>1 DEF MessagesInv
    <3> QED
      BY <2>2, <3>1, SendKeeps, ModerationKeeps DEF H!Step
  <2>3. CASE H!Other
    <3>1. ChatInv
      BY <1>1 DEF MessagesInv
    <3>2. ChatInv'
      BY <2>3, <3>1, OthersKeep
    <3> QED
      BY <1>1, <3>2, ChatMove DEF MessagesInv
  <2> QED
    BY <1>1, <2>1, <2>2, <2>3, ChatMove DEF MessagesInv
<1>2. CASE part # "chat"
  BY <1>2, ChatMove DEF MessagesInv, H!Unwritten
<1> QED
  BY <1>1, <1>2

\* It implies the rules of the chat.
LEMMA MessagesHold == MessagesInv => H!WithinLimit /\ H!CountEnds /\ H!RejectionsWarn
<1> SUFFICES ASSUME MessagesInv PROVE H!WithinLimit /\ H!CountEnds /\ H!RejectionsWarn
  OBVIOUS
<1>1. CASE part = "chat"
  <2> USE <1>1 DEF MessagesInv, ChatInv
  <2>1. ASSUME ~ overlapped, ~ missed, \A r \in Requests : pc[r] \notin {"count", "warn"}
        PROVE  warned >= peak \div WarnEvery
    <3>1. Owed = {}
      BY <2>1 DEF Owed
    <3>2. Cardinality(Owed) = 0
      BY <3>1, FS_EmptySet
    <3>3. warned \in Nat /\ peak \in Nat /\ WarnEvery \in Nat \ {0}
      BY BranchDayAssumption DEF ChatTypes
    <3>4. warned + Cardinality(Owed) >= peak \div WarnEvery
      BY <2>1 DEF WarningsOwed
    <3> QED
      BY <3>2, <3>3, <3>4
  <2>2. warned > 0 => peak >= WarnEvery
    BY DEF WarningsOwed
  <2>3. Cardinality(InFlight) \in Nat /\ sent \in Nat /\ counter \in Nat /\ DailyLimit \in Nat
    BY FS_CardinalityType, BranchDayAssumption DEF Admitted, ChatTypes
  <2>4. H!WithinLimit
    <3>1. CASE keeper = "redis"
      BY <2>3, <3>1 DEF Admitted, H!WithinLimit
    <3>2. CASE keeper = "rows"
      BY <3>2 DEF Admitted, H!WithinLimit
    <3> QED
      BY <3>1, <3>2 DEF ChatTypes
  <2> QED
    BY <2>1, <2>2, <2>4 DEF H!RejectionsWarn
<1>2. CASE part # "chat"
  <2>1. 0 \div WarnEvery = 0 /\ 0 <= DailyLimit
    BY BranchDayAssumption
  <2> QED
    BY <1>2, <2>1 DEF MessagesInv, H!Unwritten, H!WithinLimit, H!CountEnds, H!RejectionsWarn, H!Count
<1> QED
  BY <1>1, <1>2

------------------------------------------------------------------------------
\* The contests of the groups (Challenges).

\* Which steps change the contests.
LEMMA ContestMove ==
  ASSUME [Next]_vars
  PROVE  /\ part' = part
         /\ part = "contests" => \/ \E r \in Requests : K!Step(r)
                                 \/ K!Other
                                 \/ UNCHANGED <<month, contests, closing, announced, pc, req, overlapped>>
         /\ part # "contests" => UNCHANGED <<month, contests, closing, announced>>
<1>1. CASE Next
  <2>1. CASE ContestStep
    BY <2>1 DEF ContestStep
  <2> QED
    BY <1>1, <2>1 DEF Next, TaskStep, VisitStep, ColourStep, GroupStep, VideoStep, LessonStep,
      StreakStep, ChatStep, PageStep, ErasureStep, EventStep, requests, studentRows, contestRows
<1>2. CASE UNCHANGED vars
  BY <1>2 DEF vars, requests, studentRows, contestRows
<1> QED
  BY <1>1, <1>2

\* An instance counts as the branch does.
LEMMA ContestsCounted == \A A : K!Cardinality(A) = Cardinality(A)
BY DEF K!Cardinality, Cardinality

Contest ==
  [a : Teams, b : Teams, month : 1..2, ended : BOOLEAN,
   status : {"active", "completed"}, winner : Teams \union {"none"}]

ContestTypes ==
  /\ month \in 1..2 /\ overlapped \in BOOLEAN
  /\ contests \in Seq(Contest) /\ Len(contests) <= MaxChallenges
  /\ announced \in [1..MaxChallenges -> Nat]
  /\ pc \in [Requests -> {"idle", "active", "insert"}]
  /\ req \in [Requests -> [a : {"none"}] \union [a : Teams, b : Teams, known : Nat]]
  /\ \A r \in Requests : pc[r] # "idle" => req[r] \in [a : Teams, b : Teams, known : Nat]

\* A contest is announced after it is completed, and the job has only active
\* ones before it.
Closed ==
  /\ \A i \in DOMAIN contests : contests[i].month <= month
  /\ \A i \in DOMAIN contests :
       contests[i].status = "completed" => contests[i].ended /\ contests[i].winner # "none"
  /\ \A i \in closing : i \in DOMAIN contests /\ contests[i].status = "active" /\ contests[i].ended
  /\ \A i \in 1..MaxChallenges :
       announced[i] <= 1 /\ (announced[i] # 0 => i \in DOMAIN contests /\ contests[i].status = "completed")

\* The contests a group began in a month.
OfTeam(m, team) == {i \in DOMAIN contests : contests[i].month = m /\ team \in {contests[i].a, contests[i].b}}

Engaged(team) == \E i \in DOMAIN contests : contests[i].status = "active" /\ team \in {contests[i].a, contests[i].b}

\* What a creation has read still holds if no contest was created since.
HeldContests ==
  \A r \in Requests : pc[r] # "idle" =>
    /\ req[r].known <= Len(contests)
    /\ req[r].known = Len(contests) =>
         /\ Cardinality(OfTeam(month, req[r].a)) <= 1
         /\ Cardinality(OfTeam(month, req[r].b)) <= 1
         /\ pc[r] = "insert" => ~ Engaged(req[r].a) /\ ~ Engaged(req[r].b)

TwoEach == ~ overlapped => \A team \in Teams, m \in 1..2 : Cardinality(OfTeam(m, team)) <= 2

OneEach ==
  ~ overlapped => \A i, j \in DOMAIN contests :
    contests[i].status = "active" /\ contests[j].status = "active" /\ i # j =>
      {contests[i].a, contests[i].b} \intersect {contests[j].a, contests[j].b} = {}

ContestInv == ContestTypes /\ Closed /\ HeldContests /\ TwoEach /\ OneEach

ContestsInv == IF part = "contests" THEN ContestInv ELSE K!Season

\* A team has finitely many contests.
LEMMA OfTeamFinite ==
  ASSUME contests \in Seq(Contest)
  PROVE  \A m, team : IsFiniteSet(OfTeam(m, team)) /\ Cardinality(OfTeam(m, team)) \in Nat
<1>1. DOMAIN contests = 1..Len(contests) /\ Len(contests) \in Nat
  OBVIOUS
<1>2. IsFiniteSet(DOMAIN contests)
  BY <1>1, FS_Interval
<1>3. \A m, team : OfTeam(m, team) \in SUBSET DOMAIN contests
  BY DEF OfTeam
<1>4. \A m, team : IsFiniteSet(OfTeam(m, team))
  BY <1>2, <1>3, FS_Subset
<1> QED
  BY <1>4, FS_CardinalityType

\* The day begins without a contest.
LEMMA ContestsStart == Init => ContestsInv
<1> SUFFICES ASSUME Init PROVE ContestsInv
  OBVIOUS
<1>1. K!Season
  BY DEF Init
<1>2. ASSUME part = "contests" PROVE ContestInv
  <2>1. pc = [r \in Requests |-> "idle"] /\ req = [r \in Requests |-> [a |-> "none"]] /\ overlapped = FALSE
    BY <1>2 DEF Init, K!NoReq, K!NoTeam
  <2>2. \A m, team : OfTeam(m, team) = {}
    BY <1>1 DEF OfTeam, K!Season
  <2>3. ContestTypes
    <3>1. contests = <<>> /\ contests \in Seq(Contest) /\ Len(contests) = 0
      BY <1>1 DEF K!Season
    <3>2. MaxChallenges \in Nat /\ month = 1 /\ announced = [i \in 1..MaxChallenges |-> 0]
      BY <1>1, BranchDayAssumption DEF K!Season, K!Numbers
    <3>3. req \in [Requests -> [a : {"none"}] \union [a : Teams, b : Teams, known : Nat]]
      BY <2>1
    <3>4. pc \in [Requests -> {"idle", "active", "insert"}] /\ \A r \in Requests : pc[r] = "idle"
      BY <2>1
    <3>5. month \in 1..2 /\ Len(contests) <= MaxChallenges /\ announced \in [1..MaxChallenges -> Nat]
      BY ONLY <3>1, <3>2
    <3>6. overlapped \in BOOLEAN
      BY <2>1
    <3> QED
      BY ONLY <3>1, <3>3, <3>4, <3>5, <3>6 DEF ContestTypes
  <2>4. Closed
    BY <1>1 DEF K!Season, Closed, K!Numbers
  <2>5. TwoEach
    BY <2>2, FS_EmptySet DEF TwoEach
  <2>6. OneEach
    BY <1>1 DEF K!Season, OneEach
  <2>7. HeldContests
    BY <2>1 DEF HeldContests
  <2> QED
    BY <2>3, <2>4, <2>5, <2>6, <2>7 DEF ContestInv
<1> QED
  BY <1>1, <1>2 DEF ContestsInv

\* Contests are added at the end, or change in their place.
LEMMA AppendContest ==
  ASSUME NEW s \in Seq(Contest), NEW e \in Contest
  PROVE  /\ Append(s, e) \in Seq(Contest)
         /\ Len(s) \in Nat /\ Len(Append(s, e)) = Len(s) + 1
         /\ DOMAIN s = 1..Len(s)
         /\ DOMAIN Append(s, e) = DOMAIN s \union {Len(s) + 1}
         /\ Len(s) + 1 \notin DOMAIN s
         /\ \A i \in DOMAIN s : Append(s, e)[i] = s[i]
         /\ Append(s, e)[Len(s) + 1] = e
OBVIOUS

\* A sequence of contests with one changed.
LEMMA ChangeContest ==
  ASSUME NEW s \in Seq(Contest), NEW i \in DOMAIN s, NEW e \in Contest
  PROVE  /\ [s EXCEPT ![i] = e] \in Seq(Contest)
         /\ Len([s EXCEPT ![i] = e]) = Len(s)
         /\ DOMAIN [s EXCEPT ![i] = e] = DOMAIN s
         /\ \A j \in DOMAIN s : [s EXCEPT ![i] = e][j] = IF j = i THEN e ELSE s[j]
OBVIOUS

\* A captain looks at how many contests the team began this month.
LEMMA CreateCountsMonthKeeps ==
  ASSUME ContestInv, NEW r \in Requests, K!CreateCountsMonth(r)
  PROVE  ContestInv'
<1>1. PICK a, b \in Teams :
        /\ a # b /\ K!Cardinality(K!OfMonth({a, b})) < 2
        /\ req' = [req EXCEPT ![r] = [a |-> a, b |-> b, known |-> Len(contests)]]
  BY DEF K!CreateCountsMonth, K!MonthlyLimit
<1>2. pc' = [pc EXCEPT ![r] = "active"] /\ UNCHANGED <<month, contests, closing, announced, overlapped>>
  BY DEF K!CreateCountsMonth, K!state
<1>3. OfTeam(month, a) \subseteq K!OfMonth({a, b}) /\ OfTeam(month, b) \subseteq K!OfMonth({a, b})
  BY DEF OfTeam, K!OfMonth, K!Those, K!Between
<1>4. IsFiniteSet(K!OfMonth({a, b})) /\ Cardinality(K!OfMonth({a, b})) < 2
  <2>1. K!OfMonth({a, b}) \in SUBSET DOMAIN contests
    BY DEF K!OfMonth, K!Those
  <2>2. DOMAIN contests = 1..Len(contests) /\ Len(contests) \in Nat
    BY DEF ContestInv, ContestTypes
  <2>3. IsFiniteSet(DOMAIN contests)
    BY <2>2, FS_Interval
  <2> QED
    BY <1>1, <2>1, <2>3, FS_Subset, ContestsCounted
<1>5. Cardinality(OfTeam(month, a)) <= 1 /\ Cardinality(OfTeam(month, b)) <= 1
  <2>1. Cardinality(K!OfMonth({a, b})) \in Nat
    BY <1>4, FS_CardinalityType
  <2>2. \A m, team : Cardinality(OfTeam(m, team)) \in Nat
    BY OfTeamFinite DEF ContestInv, ContestTypes
  <2>3. /\ Cardinality(OfTeam(month, a)) <= Cardinality(K!OfMonth({a, b}))
        /\ Cardinality(OfTeam(month, b)) <= Cardinality(K!OfMonth({a, b}))
    BY <1>3, <1>4, FS_Subset
  <2> QED
    BY <1>4, <2>1, <2>2, <2>3
<1>6. \A m, team : OfTeam(m, team)' = OfTeam(m, team)
  BY <1>2 DEF OfTeam
<1>7. ContestTypes'
  <2>1. [a |-> a, b |-> b, known |-> Len(contests)] \in [a : Teams, b : Teams, known : Nat]
    BY DEF ContestInv, ContestTypes
  <2> QED
    BY <1>1, <1>2, <2>1 DEF ContestInv, ContestTypes
<1>8. HeldContests'
  <2>1. \A s \in Requests : /\ s # r => pc'[s] = pc[s] /\ req'[s] = req[s]
                            /\ s = r => pc'[s] = "active" /\ req'[s] = [a |-> a, b |-> b, known |-> Len(contests)]
    BY <1>1, <1>2 DEF ContestInv, ContestTypes
  <2>2. Len(contests) \in Nat
    BY DEF ContestInv, ContestTypes
  <2> QED
    BY <1>2, <1>5, <1>6, <2>1, <2>2 DEF ContestInv, HeldContests, Engaged
<1>9. Closed' /\ TwoEach' /\ OneEach'
  BY <1>2, <1>6 DEF ContestInv, Closed, TwoEach, OneEach
<1> QED
  BY <1>7, <1>8, <1>9 DEF ContestInv

\* The captain looks at the active contests of the team.
LEMMA CreateCountsActiveKeeps ==
  ASSUME ContestInv, NEW r \in Requests, K!CreateCountsActive(r)
  PROVE  ContestInv'
<1>1. UNCHANGED <<month, contests, closing, announced, overlapped>> /\ pc[r] = "active"
  BY DEF K!CreateCountsActive, K!state
<1>2. \A m, team : OfTeam(m, team)' = OfTeam(m, team)
  BY <1>1 DEF OfTeam
<1>3. Closed' /\ TwoEach' /\ OneEach'
  BY <1>1, <1>2 DEF ContestInv, Closed, TwoEach, OneEach
<1>4. CASE K!Active({req[r].a, req[r].b}) # {}
  <2>1. pc' = [pc EXCEPT ![r] = "idle"] /\ req' = [req EXCEPT ![r] = [a |-> "none"]]
    BY <1>4 DEF K!CreateCountsActive, K!Refuse, K!NoReq, K!NoTeam
  <2>2. ContestTypes'
    BY <1>1, <2>1 DEF ContestInv, ContestTypes
  <2>3. HeldContests'
    BY <1>1, <1>2, <2>1 DEF ContestInv, ContestTypes, HeldContests, Engaged
  <2> QED
    BY <1>3, <2>2, <2>3 DEF ContestInv
<1>5. CASE K!Active({req[r].a, req[r].b}) = {}
  <2>1. pc' = [pc EXCEPT ![r] = "insert"] /\ UNCHANGED req
    BY <1>5 DEF K!CreateCountsActive
  <2>2. ~ Engaged(req[r].a) /\ ~ Engaged(req[r].b)
    BY <1>5 DEF Engaged, K!Active, K!Those, K!Between
  <2>3. ContestTypes'
    BY <1>1, <2>1 DEF ContestInv, ContestTypes
  <2>4. HeldContests'
    BY <1>1, <1>2, <2>1, <2>2 DEF ContestInv, ContestTypes, HeldContests, Engaged
  <2> QED
    BY <1>3, <2>3, <2>4 DEF ContestInv
<1> QED
  BY <1>4, <1>5

\* The contest is inserted.
LEMMA CreateInsertsKeeps ==
  ASSUME ContestInv, NEW r \in Requests, K!CreateInserts(r)
  PROVE  ContestInv'
<1> DEFINE a == req[r].a
           b == req[r].b
           n == Len(contests) + 1
           e == [a |-> a, b |-> b, month |-> month, ended |-> FALSE, status |-> "active", winner |-> "none"]
<1>1. /\ pc[r] = "insert" /\ Len(contests) < MaxChallenges
      /\ contests' = Append(contests, e)
      /\ overlapped' = (overlapped \/ Len(contests) # req[r].known)
      /\ pc' = [pc EXCEPT ![r] = "idle"] /\ req' = [req EXCEPT ![r] = [a |-> "none"]]
      /\ UNCHANGED <<month, closing, announced>>
  BY DEF K!CreateInserts, K!Refuse, K!NoReq, K!NoTeam
<1>2. a \in Teams /\ b \in Teams /\ e \in Contest
  BY <1>1 DEF ContestInv, ContestTypes, Contest
<1>3. /\ contests' \in Seq(Contest) /\ Len(contests) \in Nat /\ Len(contests') = Len(contests) + 1
      /\ DOMAIN contests = 1..Len(contests)
      /\ DOMAIN contests' = DOMAIN contests \union {n} /\ n \notin DOMAIN contests
      /\ \A i \in DOMAIN contests : contests'[i] = contests[i]
      /\ contests'[n] = e
  BY <1>1, <1>2, AppendContest DEF ContestInv, ContestTypes
<1>4. /\ e.a = a /\ e.b = b /\ e.month = month /\ e.status = "active" /\ e.ended = FALSE
  OBVIOUS
<1> HIDE DEF e, n
<1>5. ContestTypes'
  <2>1. Len(contests') <= MaxChallenges
    BY <1>1, <1>3, BranchDayAssumption DEF ContestInv, ContestTypes
  <2>2. overlapped' \in BOOLEAN
    BY <1>1
  <2> QED
    BY <1>1, <1>3, <2>1, <2>2 DEF ContestInv, ContestTypes
<1>6. Closed'
  BY <1>1, <1>3, <1>4 DEF ContestInv, ContestTypes, Closed
<1>7. HeldContests'
  <2>1. ASSUME NEW s \in Requests, pc'[s] # "idle" PROVE s # r /\ pc[s] # "idle" /\ req'[s] = req[s]
    BY <1>1, <2>1 DEF ContestInv, ContestTypes
  <2>2. \A s \in Requests : pc[s] # "idle" => req[s].known \in Nat /\ req[s].known <= Len(contests)
    BY DEF ContestInv, ContestTypes, HeldContests
  <2>3. \A s \in Requests : pc'[s] # "idle" => req'[s].known <= Len(contests') /\ req'[s].known # Len(contests')
    BY <1>3, <2>1, <2>2
  <2> QED
    BY <2>3 DEF HeldContests
<1>8. TwoEach'
  <2>1. SUFFICES ASSUME ~ overlapped', NEW team \in Teams, NEW m \in 1..2
                 PROVE  Cardinality(OfTeam(m, team)') <= 2
    BY DEF TwoEach
  <2>2. ~ overlapped /\ Len(contests) = req[r].known
    BY <1>1, <2>1
  <2>3. IsFiniteSet(OfTeam(m, team)) /\ Cardinality(OfTeam(m, team)) \in Nat
    BY OfTeamFinite DEF ContestInv, ContestTypes
  <2>4. CASE m = month /\ team \in {a, b}
    <3>1. OfTeam(m, team)' = OfTeam(m, team) \union {n}
      BY <1>3, <1>4, <2>4 DEF OfTeam
    <3>2. Cardinality(OfTeam(m, team)) <= 1
      BY <1>1, <2>2, <2>4 DEF ContestInv, HeldContests
    <3>6. n \notin OfTeam(m, team)
      BY <1>3 DEF OfTeam
    <3>3. Cardinality(OfTeam(m, team) \union {n}) = Cardinality(OfTeam(m, team)) + 1
      BY <2>3, <3>6, FS_AddElement
    <3>4. IsFiniteSet(OfTeam(m, team) \union {n})
      BY <2>3, FS_AddElement
    <3>5. Cardinality(OfTeam(m, team) \union {n}) \in Nat
      BY <3>4, FS_CardinalityType
    <3> QED
      BY <2>3, <3>1, <3>2, <3>3, <3>5
  <2>5. CASE ~ (m = month /\ team \in {a, b})
    <3>1. OfTeam(m, team)' = OfTeam(m, team)
      BY <1>3, <1>4, <2>5 DEF OfTeam
    <3> QED
      BY <2>2, <3>1 DEF ContestInv, TwoEach
  <2> QED
    BY <2>4, <2>5
<1>9. OneEach'
  <2>1. SUFFICES ASSUME ~ overlapped', NEW i \in DOMAIN contests', NEW j \in DOMAIN contests',
                        contests'[i].status = "active", contests'[j].status = "active", i # j
                 PROVE  {contests'[i].a, contests'[i].b} \intersect {contests'[j].a, contests'[j].b} = {}
    BY DEF OneEach
  <2>2. ~ overlapped /\ ~ Engaged(a) /\ ~ Engaged(b)
    BY <1>1, <2>1 DEF ContestInv, HeldContests
  <2>3. CASE i = n
    BY <1>3, <1>4, <2>1, <2>2, <2>3 DEF Engaged
  <2>4. CASE j = n
    BY <1>3, <1>4, <2>1, <2>2, <2>4 DEF Engaged
  <2>5. CASE i # n /\ j # n
    BY <1>3, <2>1, <2>2, <2>5 DEF ContestInv, OneEach
  <2> QED
    BY <2>3, <2>4, <2>5
<1> QED
  BY <1>5, <1>6, <1>7, <1>8, <1>9 DEF ContestInv

\* A contest that ends or is completed in its place.
LEMMA ChangeKeeps ==
  ASSUME ContestInv, NEW i \in DOMAIN contests, NEW e \in Contest,
         contests' = [contests EXCEPT ![i] = e],
         e.a = contests[i].a, e.b = contests[i].b, e.month = contests[i].month,
         e.status = "active" => contests[i].status = "active",
         UNCHANGED <<month, pc, req, overlapped>>,
         announced' \in [1..MaxChallenges -> Nat]
  PROVE  ContestTypes' /\ HeldContests' /\ TwoEach' /\ OneEach'
<1>1. /\ contests' \in Seq(Contest)
      /\ Len(contests') = Len(contests) /\ DOMAIN contests' = DOMAIN contests
      /\ \A j \in DOMAIN contests : contests'[j] = IF j = i THEN e ELSE contests[j]
  BY ChangeContest DEF ContestInv, ContestTypes
<1>2. \A j \in DOMAIN contests : /\ contests'[j].a = contests[j].a
                                 /\ contests'[j].b = contests[j].b
                                 /\ contests'[j].month = contests[j].month
                                 /\ contests'[j].status = "active" => contests[j].status = "active"
  BY <1>1
<1>3. \A m, team : OfTeam(m, team)' = OfTeam(m, team)
  BY <1>1, <1>2 DEF OfTeam
<1>4. \A team : Engaged(team)' => Engaged(team)
  BY <1>1, <1>2 DEF Engaged
<1>5. ContestTypes'
  BY <1>1 DEF ContestInv, ContestTypes
<1>6. HeldContests'
  BY <1>1, <1>3, <1>4 DEF ContestInv, HeldContests
<1>7. TwoEach'
  BY <1>3 DEF ContestInv, TwoEach
<1>8. OneEach'
  BY <1>1, <1>2 DEF ContestInv, OneEach
<1> QED
  BY <1>5, <1>6, <1>7, <1>8

\* A step that changes no contest keeps the invariant.
LEMMA SameContestsKeep ==
  ASSUME ContestInv, UNCHANGED <<month, contests, announced, pc, req, overlapped>>
  PROVE  ContestTypes' /\ HeldContests' /\ TwoEach' /\ OneEach'
<1>1. \A m, team : OfTeam(m, team)' = OfTeam(m, team)
  BY DEF OfTeam
<1>2. \A team : Engaged(team)' = Engaged(team)
  BY DEF Engaged
<1>3. ContestTypes'
  BY DEF ContestInv, ContestTypes
<1>4. HeldContests'
  BY <1>1, <1>2 DEF ContestInv, HeldContests
<1>5. TwoEach'
  BY <1>1 DEF ContestInv, TwoEach
<1>6. OneEach'
  BY DEF ContestInv, OneEach
<1> QED
  BY <1>3, <1>4, <1>5, <1>6

\* A contest ends, or the job closes it.
LEMMA EndOrCloseKeeps ==
  ASSUME ContestInv, K!Other
  PROVE  ContestInv'
<1> USE DEF ContestInv, ContestTypes
<1>1. CASE K!NextMonth
  <2>1. month = 1 /\ month' = 2 /\ UNCHANGED <<contests, closing, announced, pc, req, overlapped>>
    BY <1>1 DEF K!NextMonth, K!Months
  <2>2. \A i \in DOMAIN contests : contests[i].month <= 1
    BY <2>1 DEF Closed
  <2>3. \A i \in DOMAIN contests : contests[i].month \in 1..2
    <3>1. \A i \in DOMAIN contests : contests[i] \in Contest
      OBVIOUS
    <3> QED
      BY ONLY <3>1 DEF Contest
  <2>4. \A team : OfTeam(2, team) = {}
    BY <2>2, <2>3 DEF OfTeam
  <2>5. \A m, team : OfTeam(m, team)' = OfTeam(m, team)
    BY <2>1 DEF OfTeam
  <2>6. \A team : Cardinality(OfTeam(month, team)') <= 1
    <3>1. Cardinality({}) <= 1
      BY FS_EmptySet
    <3>2. \A team : OfTeam(month, team)' = {}
      BY <2>1, <2>4 DEF OfTeam
    <3> QED
      BY <3>1, <3>2
  <2>7. ContestTypes'
    BY <2>1
  <2>8. Closed'
    <3>1. \A i \in DOMAIN contests : contests[i].month <= month'
      BY <2>1, <2>2, <2>3
    <3> QED
      BY <2>1, <3>1 DEF Closed
  <2>9. HeldContests'
    BY <2>1, <2>6 DEF HeldContests, Engaged
  <2>10. TwoEach' /\ OneEach'
    BY <2>1, <2>5 DEF TwoEach, OneEach
  <2> QED
    BY <2>7, <2>8, <2>9, <2>10
<1>2. CASE K!JobReads
  <2>1. UNCHANGED <<month, contests, announced, pc, req, overlapped>> /\ closing' = K!Expired
    BY <1>2 DEF K!JobReads
  <2>2. \A i \in K!Expired : i \in DOMAIN contests /\ contests[i].status = "active" /\ contests[i].ended
    BY DEF K!Expired, K!Those
  <2>3. Closed'
    BY <2>1, <2>2 DEF Closed
  <2>4. ContestTypes' /\ HeldContests' /\ TwoEach' /\ OneEach'
    BY <2>1, SameContestsKeep
  <2> QED
    BY <2>3, <2>4
<1>3. CASE K!JobStops
  <2>1. UNCHANGED <<month, contests, announced, pc, req, overlapped>> /\ closing' = {}
    BY <1>3 DEF K!JobStops
  <2>3. Closed'
    BY <2>1 DEF Closed
  <2>4. ContestTypes' /\ HeldContests' /\ TwoEach' /\ OneEach'
    BY <2>1, SameContestsKeep
  <2> QED
    BY <2>3, <2>4
<1>4. CASE K!JobCloses
  <2>1. PICK i \in closing :
          /\ contests' = [contests EXCEPT ![i].status = "completed", ![i].winner = contests[i].a]
          /\ \/ announced' = [announced EXCEPT ![i] = announced[i] + 1] /\ closing' = closing \ {i}
             \/ closing' = {} /\ UNCHANGED announced
    BY <1>4 DEF K!JobCloses
  <2>2. UNCHANGED <<month, pc, req, overlapped>>
    BY <1>4 DEF K!JobCloses
  <2>3. i \in DOMAIN contests /\ contests[i].status = "active" /\ contests[i].ended
    BY DEF Closed
  <2>4. contests[i] \in Contest
    BY <2>3
  <2> DEFINE e == [contests[i] EXCEPT !.status = "completed", !.winner = contests[i].a]
  <2>5. /\ contests' = [contests EXCEPT ![i] = e]
        /\ e \in Contest /\ e.a = contests[i].a /\ e.b = contests[i].b /\ e.month = contests[i].month
        /\ e.status = "completed" /\ e.ended = contests[i].ended /\ e.winner = contests[i].a
    BY <2>1, <2>3, <2>4 DEF Contest
  <2> HIDE DEF e
  <2>6. announced' \in [1..MaxChallenges -> Nat]
    BY <2>1
  <2>7. ContestTypes' /\ HeldContests' /\ TwoEach' /\ OneEach'
    BY <2>2, <2>3, <2>5, <2>6, ChangeKeeps
  <2>8. DOMAIN contests' = DOMAIN contests /\ \A j \in DOMAIN contests : contests'[j] = IF j = i THEN e ELSE contests[j]
    BY <2>3, <2>5, ChangeContest
  <2>9. e.winner # "none"
    BY <2>4, <2>5, BranchDayAssumption DEF Contest
  <2>10. i \in 1..MaxChallenges /\ announced[i] = 0
    <3>1. i \in 1..MaxChallenges
      BY <2>3, BranchDayAssumption
    <3> QED
      BY <2>3, <3>1 DEF Closed
  <2>11. /\ \A j \in closing' : j \in closing /\ j # i
         /\ \A j \in 1..MaxChallenges : j # i => announced'[j] = announced[j]
         /\ announced'[i] \in {0, 1}
    <3>1. announced \in [1..MaxChallenges -> Nat]
      OBVIOUS
    <3>2. CASE announced' = [announced EXCEPT ![i] = announced[i] + 1] /\ closing' = closing \ {i}
      <4>1. announced'[i] = 1
        BY ONLY <2>10, <3>1, <3>2
      <4> QED
        BY ONLY <2>10, <3>1, <3>2, <4>1
    <3>3. CASE closing' = {} /\ UNCHANGED announced
      BY ONLY <2>10, <3>3
    <3> QED
      BY <2>1, <3>2, <3>3
  <2>12. Closed'
    <3>1. \A j \in DOMAIN contests' : contests'[j].month <= month'
      BY <2>2, <2>5, <2>8 DEF Closed
    <3>2. \A j \in DOMAIN contests' :
            contests'[j].status = "completed" => contests'[j].ended /\ contests'[j].winner # "none"
      BY <2>3, <2>5, <2>8, <2>9 DEF Closed
    <3>3. \A j \in closing' : j \in DOMAIN contests' /\ contests'[j].status = "active" /\ contests'[j].ended
      BY <2>8, <2>11 DEF Closed
    <3>4. \A j \in 1..MaxChallenges :
            announced'[j] <= 1 /\ (announced'[j] # 0 => j \in DOMAIN contests' /\ contests'[j].status = "completed")
      BY <2>3, <2>5, <2>8, <2>10, <2>11 DEF Closed
    <3> QED
      BY <3>1, <3>2, <3>3, <3>4 DEF Closed
  <2> QED
    BY <2>7, <2>12
<1>5. ASSUME NEW i \in DOMAIN contests, K!Ends(i) PROVE ContestInv'
  <2>1. contests' = [contests EXCEPT ![i].ended = TRUE] /\ UNCHANGED <<month, closing, announced, pc, req, overlapped>>
    BY <1>5 DEF K!Ends
  <2>2. contests[i] \in Contest
    OBVIOUS
  <2> DEFINE e == [contests[i] EXCEPT !.ended = TRUE]
  <2>3. /\ contests' = [contests EXCEPT ![i] = e]
        /\ e \in Contest /\ e.a = contests[i].a /\ e.b = contests[i].b /\ e.month = contests[i].month
        /\ e.status = contests[i].status /\ e.ended = TRUE /\ e.winner = contests[i].winner
    BY <2>1, <2>2 DEF Contest
  <2> HIDE DEF e
  <2>4. ContestTypes' /\ HeldContests' /\ TwoEach' /\ OneEach'
    BY <2>1, <2>3, ChangeKeeps
  <2>5. DOMAIN contests' = DOMAIN contests /\ \A j \in DOMAIN contests : contests'[j] = IF j = i THEN e ELSE contests[j]
    BY <2>3, ChangeContest
  <2>6. Closed'
    BY <2>1, <2>3, <2>5 DEF Closed
  <2> QED
    BY <2>4, <2>6
<1> QED
  BY <1>1, <1>2, <1>3, <1>4, <1>5 DEF K!Other

\* The invariant of the contests is inductive.
LEMMA ContestsKept == ContestsInv /\ [Next]_vars => ContestsInv'
<1> SUFFICES ASSUME ContestsInv, [Next]_vars PROVE ContestsInv'
  OBVIOUS
<1>1. CASE part = "contests"
  <2>1. ContestInv
    BY <1>1 DEF ContestsInv
  <2>2. ASSUME UNCHANGED <<month, contests, closing, announced, pc, req, overlapped>> PROVE ContestInv'
    <3>1. Closed'
      BY <2>1, <2>2 DEF ContestInv, Closed
    <3> QED
      BY <2>1, <2>2, <3>1, SameContestsKeep DEF ContestInv
  <2>3. ASSUME NEW r \in Requests, K!Step(r) PROVE ContestInv'
    BY <2>1, <2>3, CreateCountsMonthKeeps, CreateCountsActiveKeeps, CreateInsertsKeeps DEF K!Step
  <2>4. ContestInv'
    BY <1>1, <2>1, <2>2, <2>3, EndOrCloseKeeps, ContestMove
  <2> QED
    BY <1>1, <2>4, ContestMove DEF ContestsInv
<1>2. CASE part # "contests"
  BY <1>2, ContestMove DEF ContestsInv, K!Season
<1> QED
  BY <1>1, <1>2

\* It implies the rules of the contests.
LEMMA ContestsHold == ContestsInv => K!OneActivePerTeam /\ K!TwoPerMonth /\ K!WonOnce
<1> SUFFICES ASSUME ContestsInv PROVE K!OneActivePerTeam /\ K!TwoPerMonth /\ K!WonOnce
  OBVIOUS
<1>1. CASE part = "contests"
  <2> USE <1>1 DEF ContestsInv, ContestInv
  <2>1. K!OneActivePerTeam
    BY DEF OneEach, K!OneActivePerTeam, K!Between
  <2>2. K!TwoPerMonth
    <3>1. SUFFICES ASSUME ~ overlapped, NEW team \in Teams, NEW m \in 1..2
                   PROVE  Cardinality(K!Those(LAMBDA i : contests[i].month = m /\ K!Between(i, {team}))) <= 2
      BY ContestsCounted DEF K!TwoPerMonth, K!Months, K!MonthlyLimit
    <3>2. K!Those(LAMBDA i : contests[i].month = m /\ K!Between(i, {team})) = OfTeam(m, team)
      BY DEF K!Those, K!Between, OfTeam
    <3> QED
      BY <3>1, <3>2 DEF TwoEach
  <2>3. K!WonOnce
    BY DEF Closed, ContestTypes, K!WonOnce, K!Numbers, K!NoTeam
  <2> QED
    BY <2>1, <2>2, <2>3
<1>2. CASE part # "contests"
  <2> USE <1>2 DEF ContestsInv, K!Season
  <2>1. K!OneActivePerTeam
    BY DEF K!OneActivePerTeam
  <2>2. K!TwoPerMonth
    <3>1. SUFFICES ASSUME NEW team \in Teams, NEW m \in 1..2
                   PROVE  Cardinality(K!Those(LAMBDA i : contests[i].month = m /\ K!Between(i, {team}))) <= 2
      BY ContestsCounted DEF K!TwoPerMonth, K!Months, K!MonthlyLimit
    <3>2. K!Those(LAMBDA i : contests[i].month = m /\ K!Between(i, {team})) = {}
      BY DEF K!Those
    <3>3. Cardinality({}) <= 2
      BY FS_EmptySet
    <3> QED
      BY ONLY <3>2, <3>3
  <2>3. K!WonOnce
    BY DEF K!WonOnce, K!Numbers
  <2> QED
    BY <2>1, <2>2, <2>3
<1> QED
  BY <1>1, <1>2

\* The rules of contests and messages hold: one contest at a time and two a
\* month for a group, one winner a contest, the limit on what a student sends
\* where Redis counts and on the messages of a group where the rows do, a count
\* that ends, and a warning for rejected messages.
THEOREM SocialRules == Spec => []SocialRulesHold
<1>1. MessagesInv /\ ContestsInv => SocialRulesHold
  BY MessagesHold, ContestsHold DEF SocialRulesHold
<1> QED
  BY MessagesStart, MessagesKept, ContestsStart, ContestsKept, <1>1, PTL DEF Spec

------------------------------------------------------------------------------
\* The streak of a student (Streak).

\* Which steps change the streak.
LEMMA StreakMove ==
  ASSUME [Next]_vars
  PROVE  /\ part' = part
         /\ part = "streaks" => \/ \E r \in Requests : S!Step(r)
                                \/ S!Other
                                \/ UNCHANGED <<now, studied, streak, active, spent, pc, req, overlapped>>
         /\ part # "streaks" => UNCHANGED <<now, studied, streak, active, spent>>
<1>1. CASE Next
  <2>1. CASE StreakStep
    BY <2>1 DEF StreakStep
  <2> QED
    BY <1>1, <2>1 DEF Next, TaskStep, VisitStep, ColourStep, GroupStep, VideoStep, LessonStep,
      ContestStep, ChatStep, PageStep, ErasureStep, EventStep, requests, studentRows, streakRows
<1>2. CASE UNCHANGED vars
  BY <1>2 DEF vars, requests, studentRows, streakRows
<1> QED
  BY <1>1, <1>2

\* An instance counts as the branch does.
LEMMA DaysCounted == \A A : S!Cardinality(A) = Cardinality(A)
BY DEF S!Cardinality, Cardinality

StreakRow == [current : Nat, longest : Nat, shields : Nat, last : Int]

StreakTypes ==
  /\ now \in Nat /\ spent \in Nat /\ overlapped \in BOOLEAN
  /\ streak \in StreakRow
  /\ active \in SUBSET Nat /\ IsFiniteSet(active)
  /\ pc \in [Requests -> {"idle", "minimum", "look", "save"}]
  /\ req \in [Requests -> [today : Nat] \union [today : Nat, was : StreakRow]]
  /\ \A r \in Requests : pc[r] # "idle" => req[r] \in [today : Nat, was : StreakRow]

\* The days a row of the streak counts, of those on record.
Window(old, days, given) == {day \in days : old.last - old.current - given < day /\ day <= old.last}

\* A streak has its days; of the days beyond the weeks that earned a shield,
\* those since the last one stand in the streak.
StreakOf(old, days, given) ==
  /\ \A day \in days : day <= old.last
  /\ old.current <= Cardinality(Window(old, days, given))
  /\ ShieldEvery * (old.shields + given) + (old.current % ShieldEvery) <= Cardinality(days)

StreakInv == StreakTypes /\ (~ overlapped => StreakOf(streak, active, spent))

StreaksInv == IF part = "streaks" THEN StreakInv ELSE S!NewStudent

\* The streak after a day of work, by the days since the last one.
LEMMA AfterByGap ==
  ASSUME NEW old \in StreakRow, NEW day \in Nat
  PROVE  LET gap == S!Distance(day, old.last)
         IN /\ gap = 0 => S!After(old, day) = old
            /\ gap = 1 => S!After(old, day) = S!Continued(old, day, S!Earned(old))
            /\ gap = 2 /\ old.shields > 0 => S!After(old, day) = S!Continued(old, day, old.shields - 1)
            /\ gap \notin {0, 1} /\ ~ (gap = 2 /\ old.shields > 0) => S!After(old, day) = S!Started(old, day)
<1> DEFINE gap == S!Distance(day, old.last)
<1>1. 0 # 1 /\ 0 # 2 /\ 1 # 2
  OBVIOUS
<1>2. S!After(old, day) =
        CASE gap = 0 -> old
          [] gap = 1 -> S!Continued(old, day, S!Earned(old))
          [] gap = 2 /\ old.shields > 0 -> S!Continued(old, day, old.shields - 1)
          [] OTHER -> S!Started(old, day)
  BY DEF S!After
<1> HIDE DEF gap
<1>3. /\ gap = 0 => S!After(old, day) = old
      /\ gap = 1 => S!After(old, day) = S!Continued(old, day, S!Earned(old))
      /\ gap = 2 /\ old.shields > 0 => S!After(old, day) = S!Continued(old, day, old.shields - 1)
      /\ gap \notin {0, 1} /\ ~ (gap = 2 /\ old.shields > 0) => S!After(old, day) = S!Started(old, day)
  BY ONLY <1>1, <1>2, Zenon
<1> QED
  BY <1>3 DEF gap

\* It is a streak.
LEMMA AfterTyped ==
  ASSUME NEW old \in StreakRow, NEW day \in Nat
  PROVE  S!After(old, day) \in StreakRow
<1> DEFINE gap == S!Distance(day, old.last)
<1> USE DEF StreakRow, S!Larger
<1>1. S!Started(old, day) \in StreakRow
  <2>1. [old EXCEPT !.current = 1] \in StreakRow
    OBVIOUS
  <2>2. PICK mid \in StreakRow : mid = [old EXCEPT !.current = 1]
    BY <2>1
  <2>3. [mid EXCEPT !.last = day] \in StreakRow
    OBVIOUS
  <2> QED
    BY <2>2, <2>3 DEF S!Started
<1>2. \A n \in Nat : S!Continued(old, day, n) \in StreakRow
  BY DEF S!Continued
<1>3. S!Earned(old) \in Nat
  BY DEF S!Earned
<1>4. old.shields > 0 => old.shields - 1 \in Nat
  OBVIOUS
<1> HIDE DEF StreakRow
<1>5. CASE gap = 0
  BY <1>5, AfterByGap
<1>6. CASE gap = 1
  BY <1>2, <1>3, <1>6, AfterByGap
<1>7. CASE gap = 2 /\ old.shields > 0
  BY <1>2, <1>4, <1>7, AfterByGap
<1>8. CASE gap \notin {0, 1} /\ ~ (gap = 2 /\ old.shields > 0)
  BY <1>1, <1>8, AfterByGap
<1> QED
  BY <1>5, <1>6, <1>7, <1>8

\* One week more.
LEMMA NextProduct ==
  ASSUME NEW k \in Nat, NEW n \in Nat
  PROVE  k * (n + 1) = k * n + k /\ k * n \in Nat
OBVIOUS

\* Which rows a recorded day leads to, and what is kept of them.
LEMMA AfterFields ==
  ASSUME NEW old \in StreakRow, NEW day \in Nat, day >= old.last
  PROVE  LET new == S!After(old, day)
         IN /\ new = old /\ day = old.last
            \/ /\ new.current = old.current + 1 /\ day = old.last + 1 /\ new.last = day
               /\ new.shields = IF (old.current + 1) % ShieldEvery = 0 THEN old.shields + 1 ELSE old.shields
            \/ /\ new.current = old.current + 1 /\ day = old.last + 2 /\ new.last = day
               /\ old.shields > 0 /\ new.shields = old.shields - 1
            \/ /\ new.current = 1 /\ day > old.last /\ new.last = day
               /\ new.shields = old.shields
<1> DEFINE gap == S!Distance(day, old.last)
           new == S!After(old, day)
<1>1. gap = day - old.last /\ gap \in Nat
  BY DEF S!Distance, S!Larger, StreakRow
<1>2. CASE gap = 0
  BY <1>1, <1>2, AfterByGap DEF StreakRow
<1>3. CASE gap = 1
  <2>1. new = S!Continued(old, day, S!Earned(old))
    BY <1>3, AfterByGap
  <2>2. /\ new.current = old.current + 1 /\ new.last = day
        /\ new.shields = IF (old.current + 1) % ShieldEvery = 0 THEN old.shields + 1 ELSE old.shields
    BY <2>1 DEF S!Continued, S!Earned
  <2> QED
    BY <1>1, <1>3, <2>2 DEF StreakRow
<1>4. CASE gap = 2 /\ old.shields > 0
  <2>1. new = S!Continued(old, day, old.shields - 1)
    BY <1>4, AfterByGap
  <2>2. new.current = old.current + 1 /\ new.last = day /\ new.shields = old.shields - 1
    BY <2>1 DEF S!Continued
  <2> QED
    BY <1>1, <1>4, <2>2 DEF StreakRow
<1>5. CASE gap \notin {0, 1} /\ ~ (gap = 2 /\ old.shields > 0)
  <2>1. new = S!Started(old, day)
    BY <1>5, AfterByGap
  <2>2. new.current = 1 /\ new.last = day /\ new.shields = old.shields
    BY <2>1 DEF S!Started, StreakRow
  <2> QED
    BY <1>1, <1>5, <2>2 DEF StreakRow
<1> QED
  BY <1>2, <1>3, <1>4, <1>5

\* A day of work leaves a streak that was earned.
LEMMA DayExtendsStreak ==
  ASSUME NEW old \in StreakRow, NEW days \in SUBSET Nat, IsFiniteSet(days), NEW given \in Nat,
         StreakOf(old, days, given), NEW day \in Nat, day >= old.last
  PROVE  LET new == S!After(old, day)
         IN StreakOf(new, days \union {day}, IF new.shields < old.shields THEN given + 1 ELSE given)
<1> DEFINE new == S!After(old, day)
           more == days \union {day}
           spends == IF new.shields < old.shields THEN given + 1 ELSE given
           kept == Window(old, days, given)
           weeks == ShieldEvery * (old.shields + given)
<1>1. new \in StreakRow
  BY AfterTyped
<1>2. /\ old.current \in Nat /\ old.shields \in Nat /\ old.last \in Int
      /\ new.current \in Nat /\ new.shields \in Nat /\ new.last \in Int
  BY <1>1 DEF StreakRow
<1>3. IsFiniteSet(kept) /\ Cardinality(kept) \in Nat
  <2>1. kept \in SUBSET days
    BY DEF Window
  <2> QED
    BY <2>1, FS_Subset, FS_CardinalityType
<1>4. Cardinality(days) \in Nat /\ IsFiniteSet(more)
      /\ Cardinality(more) = IF day \in days THEN Cardinality(days) ELSE Cardinality(days) + 1
  BY FS_CardinalityType, FS_AddElement
<1>5. IsFiniteSet(Window(new, more, spends)) /\ Cardinality(Window(new, more, spends)) \in Nat
  <2>1. Window(new, more, spends) \in SUBSET more
    BY DEF Window
  <2> QED
    BY <1>4, <2>1, FS_Subset, FS_CardinalityType
<1>6. /\ \A d \in days : d <= old.last
      /\ old.current <= Cardinality(kept)
      /\ weeks + (old.current % ShieldEvery) <= Cardinality(days)
  BY DEF StreakOf
<1>7. ShieldEvery \in Nat \ {0}
  BY BranchDayAssumption
<1>8. weeks \in Nat /\ old.current % ShieldEvery \in Nat
  BY <1>2, <1>7, NextProduct
<1>11. \/ new = old /\ day = old.last
       \/ /\ new.current = old.current + 1 /\ day = old.last + 1 /\ new.last = day
          /\ new.shields = IF (old.current + 1) % ShieldEvery = 0 THEN old.shields + 1 ELSE old.shields
       \/ /\ new.current = old.current + 1 /\ day = old.last + 2 /\ new.last = day
          /\ old.shields > 0 /\ new.shields = old.shields - 1
       \/ /\ new.current = 1 /\ day > old.last /\ new.last = day
          /\ new.shields = old.shields
  BY AfterFields
<1> HIDE DEF new, weeks
<1>9. CASE new = old /\ day = old.last
  <2>1. spends = given
    BY <1>2, <1>9
  <2>2. kept \subseteq Window(new, more, spends)
    BY <1>9, <2>1 DEF Window
  <2>3. Cardinality(kept) <= Cardinality(Window(new, more, spends))
    BY <1>5, <2>2, FS_Subset
  <2>4. \A d \in more : d <= new.last
    BY <1>2, <1>6, <1>9
  <2>5. new.current <= Cardinality(Window(new, more, spends))
    BY <1>2, <1>3, <1>5, <1>6, <1>9, <2>3
  <2>6. ShieldEvery * (new.shields + spends) + (new.current % ShieldEvery) <= Cardinality(more)
    BY <1>2, <1>4, <1>6, <1>8, <1>9, <2>1 DEF weeks
  <2> QED
    BY <2>4, <2>5, <2>6 DEF StreakOf, new
<1>10. CASE day > old.last /\ new.last = day
  <2>1. day \notin days /\ Cardinality(more) = Cardinality(days) + 1
    BY <1>2, <1>4, <1>6, <1>10
  <2>2. \A d \in more : d <= new.last
    BY <1>2, <1>6, <1>10
  <2>3. CASE new.current = 1 /\ new.shields = old.shields
    <3>1. spends = given
      BY <1>2, <2>3
    <3>2. {day} \subseteq Window(new, more, spends)
      BY <1>2, <1>10, <2>3, <3>1 DEF Window
    <3>3. Cardinality({day}) <= Cardinality(Window(new, more, spends)) /\ Cardinality({day}) = 1
      BY <1>5, <3>2, FS_Subset, FS_Singleton
    <3>4. new.current <= Cardinality(Window(new, more, spends))
      BY <2>3, <3>3
    <3>5. 1 % ShieldEvery <= 1
      BY <1>7
    <3>6. 1 % ShieldEvery \in Nat
      BY <1>7
    <3>7. weeks + (1 % ShieldEvery) <= Cardinality(more)
      BY <1>4, <1>6, <1>8, <2>1, <3>5, <3>6
    <3>8. ShieldEvery * (new.shields + spends) + (new.current % ShieldEvery) <= Cardinality(more)
      BY <2>3, <3>1, <3>7 DEF weeks
    <3> QED
      BY <2>2, <3>4, <3>8 DEF StreakOf, new
  <2>4. CASE /\ new.current = old.current + 1 /\ day = old.last + 1
             /\ new.shields = IF (old.current + 1) % ShieldEvery = 0 THEN old.shields + 1 ELSE old.shields
    <3>1. spends = given
      BY <1>2, <2>4
    <3>2. Window(new, more, spends) = kept \union {day} /\ day \notin kept
      <4>1. /\ new.last - new.current - spends = old.last - old.current - given
            /\ old.last - old.current - given < day
            /\ \A d \in days : d <= new.last
        BY <1>2, <1>6, <1>10, <2>4, <3>1
      <4> DEFINE from == old.last - old.current - given
      <4>2. Window(new, more, spends) = {d \in more : from < d /\ d <= new.last}
        BY <4>1 DEF Window
      <4>3. kept = {d \in days : from < d /\ d <= old.last}
        BY DEF Window
      <4>4. from < day /\ day <= new.last
        BY <1>2, <1>10, <4>1
      <4> HIDE DEF from, kept
      <4> QED
        BY <1>6, <2>1, <4>1, <4>2, <4>3, <4>4
    <3>3. Cardinality(Window(new, more, spends)) = Cardinality(kept) + 1
      BY <1>3, <3>2, FS_AddElement
    <3>4. new.current <= Cardinality(Window(new, more, spends))
      BY <1>2, <1>3, <1>6, <2>4, <3>3
    <3>5. ShieldEvery * (new.shields + spends) + (new.current % ShieldEvery) <= Cardinality(more)
      <4>1. CASE (old.current + 1) % ShieldEvery = 0
        <5>1. old.current % ShieldEvery = ShieldEvery - 1
          BY <1>2, <1>7, <4>1, NextMultiple
        <5>2. new.shields + spends = (old.shields + given) + 1
          BY <1>2, <2>4, <3>1, <4>1
        <5>3. old.shields + given \in Nat
          BY <1>2
        <5>4. ShieldEvery * ((old.shields + given) + 1) = weeks + ShieldEvery
          BY <1>7, <5>3, NextProduct DEF weeks
        <5> QED
          BY <1>4, <1>6, <1>7, <1>8, <2>1, <2>4, <4>1, <5>1, <5>2, <5>4
      <4>2. CASE (old.current + 1) % ShieldEvery # 0
        <5>1. (old.current + 1) % ShieldEvery = (old.current % ShieldEvery) + 1
          BY <1>2, <1>7, <4>2, NextMultiple
        <5>2. ShieldEvery * (new.shields + spends) = weeks
          BY <2>4, <3>1, <4>2 DEF weeks
        <5> QED
          BY <1>4, <1>6, <1>8, <2>1, <2>4, <5>1, <5>2
      <4> QED
        BY <4>1, <4>2
    <3> QED
      BY <2>2, <3>4, <3>5 DEF StreakOf, new
  <2>5. CASE /\ new.current = old.current + 1 /\ day = old.last + 2
             /\ old.shields > 0 /\ new.shields = old.shields - 1
    <3>1. spends = given + 1
      BY <1>2, <2>5
    <3>2. Window(new, more, spends) = kept \union {day} /\ day \notin kept
      <4>1. /\ new.last - new.current - spends = old.last - old.current - given
            /\ old.last - old.current - given < day
            /\ \A d \in days : d <= new.last
        BY <1>2, <1>6, <1>10, <2>5, <3>1
      <4> DEFINE from == old.last - old.current - given
      <4>2. Window(new, more, spends) = {d \in more : from < d /\ d <= new.last}
        BY <4>1 DEF Window
      <4>3. kept = {d \in days : from < d /\ d <= old.last}
        BY DEF Window
      <4>4. from < day /\ day <= new.last
        BY <1>2, <1>10, <4>1
      <4> HIDE DEF from, kept
      <4> QED
        BY <1>6, <2>1, <4>1, <4>2, <4>3, <4>4
    <3>3. Cardinality(Window(new, more, spends)) = Cardinality(kept) + 1
      BY <1>3, <3>2, FS_AddElement
    <3>4. new.current <= Cardinality(Window(new, more, spends))
      BY <1>2, <1>3, <1>6, <2>5, <3>3
    <3>5. (old.current + 1) % ShieldEvery <= (old.current % ShieldEvery) + 1
      <4>1. CASE (old.current + 1) % ShieldEvery = 0
        BY <1>8, <4>1
      <4>2. CASE (old.current + 1) % ShieldEvery # 0
        <5>1. (old.current + 1) % ShieldEvery = (old.current % ShieldEvery) + 1
          BY <1>2, <1>7, <4>2, NextMultiple
        <5> QED
          BY <1>8, <5>1
      <4> QED
        BY <4>1, <4>2
    <3>6. new.shields + spends = old.shields + given
      BY <1>2, <2>5, <3>1
    <3>7. (old.current + 1) % ShieldEvery \in Nat
      BY <1>2, <1>7
    <3>8. ShieldEvery * (new.shields + spends) = weeks
      BY <3>6 DEF weeks
    <3>9. ShieldEvery * (new.shields + spends) + (new.current % ShieldEvery) <= Cardinality(more)
      BY <1>4, <1>6, <1>8, <2>1, <2>5, <3>5, <3>7, <3>8
    <3> QED
      BY <2>2, <3>4, <3>9 DEF StreakOf, new
  <2> QED
    BY <1>2, <1>10, <1>11, <2>3, <2>4, <2>5
<1>12. \/ day > old.last /\ new.last = day
       \/ new = old /\ day = old.last
  BY <1>2, <1>11
<1> QED
  BY <1>9, <1>10, <1>12

\* Nobody has a streak before the first day.
LEMMA StreaksStart == Init => StreaksInv
<1> SUFFICES ASSUME Init PROVE StreaksInv
  OBVIOUS
<1>1. now = 0 /\ streak = [current |-> 0, longest |-> 0, shields |-> 0, last |-> -3] /\ active = {} /\ spent = 0
  BY DEF Init, S!NewStudent, S!NoRow
<1>2. S!NewStudent
  BY DEF Init
<1>3. ASSUME part = "streaks" PROVE StreakInv
  <2>1. pc = [r \in Requests |-> "idle"] /\ req = [r \in Requests |-> [today |-> 0]] /\ overlapped = FALSE
    BY <1>3 DEF Init, S!NoReq
  <2>2. IsFiniteSet({}) /\ Cardinality({}) = 0
    BY FS_EmptySet
  <2>3. streak \in StreakRow
    BY <1>1 DEF StreakRow
  <2>4. req \in [Requests -> [today : Nat] \union [today : Nat, was : StreakRow]]
    BY <2>1
  <2>5. StreakTypes
    BY <1>1, <2>1, <2>2, <2>3, <2>4 DEF StreakTypes
  <2>6. Window(streak, active, spent) = {}
    BY <1>1 DEF Window
  <2>7. ShieldEvery * (0 + 0) + (0 % ShieldEvery) = 0
    BY BranchDayAssumption
  <2>8. StreakOf(streak, active, spent)
    <3>1. streak.current = 0 /\ streak.shields = 0
      BY <1>1
    <3>2. streak.current <= Cardinality(Window(streak, active, spent))
      BY <2>2, <2>6, <3>1
    <3>3. ShieldEvery * (streak.shields + spent) + (streak.current % ShieldEvery) <= Cardinality(active)
      BY <1>1, <2>2, <2>7, <3>1
    <3> QED
      BY <1>1, <3>2, <3>3 DEF StreakOf
  <2> QED
    BY <2>5, <2>8 DEF StreakInv
<1> QED
  BY <1>2, <1>3 DEF StreaksInv

\* Recording a day of work keeps the invariant.
LEMMA RecordKeeps ==
  ASSUME StreakInv, NEW r \in Requests, S!Step(r)
  PROVE  StreakInv'
<1>1. CASE S!Record(r)
  <2>1. UNCHANGED <<now, studied, streak, active, spent, overlapped>>
    BY <1>1 DEF S!Record, S!state
  <2>2. S!UtcDay(now) \in Nat
    BY DEF S!UtcDay, StreakInv, StreakTypes
  <2>3. StreakTypes'
    BY <1>1, <2>1, <2>2 DEF S!Record, StreakInv, StreakTypes
  <2> QED
    BY <2>1, <2>3 DEF StreakInv
<1>2. CASE S!HasMetDailyMinimum(r)
  <2>1. UNCHANGED <<now, studied, streak, active, spent, req, overlapped>>
    BY <1>2 DEF S!HasMetDailyMinimum, S!state
  <2>2. \/ pc' = [pc EXCEPT ![r] = "look"]
        \/ pc' = [pc EXCEPT ![r] = "idle"]
    BY <1>2 DEF S!HasMetDailyMinimum
  <2>3. pc[r] # "idle"
    BY <1>2 DEF S!HasMetDailyMinimum
  <2>4. StreakTypes'
    BY <2>1, <2>2, <2>3 DEF StreakInv, StreakTypes
  <2> QED
    BY <2>1, <2>4 DEF StreakInv
<1>3. CASE S!LookUp(r)
  <2>1. UNCHANGED <<now, studied, streak, active, spent, overlapped>> /\ pc[r] = "look"
        /\ req' = [req EXCEPT ![r].was = streak] /\ pc' = [pc EXCEPT ![r] = "save"]
    BY <1>3 DEF S!LookUp, S!state
  <2>2. req[r] \in [today : Nat, was : StreakRow] /\ streak \in StreakRow
    BY <2>1 DEF StreakInv, StreakTypes
  <2>3. [req[r] EXCEPT !.was = streak] \in [today : Nat, was : StreakRow]
    BY <2>2
  <2>4. req' = [req EXCEPT ![r] = [req[r] EXCEPT !.was = streak]]
    BY <2>1
  <2>5. StreakTypes'
    BY <2>1, <2>3, <2>4 DEF StreakInv, StreakTypes
  <2> QED
    BY <2>1, <2>5 DEF StreakInv
<1>4. CASE S!Save(r)
  <2> DEFINE was == req[r].was
             day == req[r].today
             new == S!After(was, day)
  <2>1. /\ pc[r] = "save"
        /\ streak' = IF new = was THEN streak ELSE new
        /\ active' = active \union {day}
        /\ spent' = IF new.shields < was.shields THEN spent + 1 ELSE spent
        /\ overlapped' = (overlapped \/ streak # was \/ day < streak.last)
        /\ pc' = [pc EXCEPT ![r] = "idle"] /\ req' = [req EXCEPT ![r] = [today |-> 0]]
        /\ UNCHANGED <<now, studied>>
    BY <1>4 DEF S!Save, S!NoReq
  <2>2. was \in StreakRow /\ day \in Nat
    BY <2>1 DEF StreakInv, StreakTypes
  <2>3. new \in StreakRow
    BY <2>2, AfterTyped
  <2> HIDE DEF was, day, new
  <2>4. active' \in SUBSET Nat /\ IsFiniteSet(active')
    BY <2>1, <2>2, FS_AddElement DEF StreakInv, StreakTypes
  <2>5. streak' \in StreakRow /\ spent' \in Nat /\ overlapped' \in BOOLEAN
    BY <2>1, <2>3 DEF StreakInv, StreakTypes
  <2>6. StreakTypes'
    BY <2>1, <2>4, <2>5 DEF StreakInv, StreakTypes
  <2>7. ASSUME ~ overlapped' PROVE StreakOf(streak', active', spent')
    <3>1. ~ overlapped /\ streak = was /\ ~ (day < was.last)
      BY <2>1, <2>7
    <3>2. day >= was.last
      BY <2>2, <3>1 DEF StreakRow
    <3>3. streak' = new
      BY <2>1, <3>1
    <3>4. StreakOf(was, active, spent)
      BY <3>1 DEF StreakInv
    <3>5. active \in SUBSET Nat /\ IsFiniteSet(active) /\ spent \in Nat
      BY DEF StreakInv, StreakTypes
    <3>6. StreakOf(new, active \union {day}, IF new.shields < was.shields THEN spent + 1 ELSE spent)
      BY <2>2, <3>2, <3>4, <3>5, DayExtendsStreak DEF new
    <3> QED
      BY <2>1, <3>3, <3>6
  <2>8. ~ overlapped' => StreakOf(streak, active, spent)'
    BY <2>7 DEF StreakOf, Window
  <2> QED
    BY <2>6, <2>8 DEF StreakInv
<1> QED
  BY <1>1, <1>2, <1>3, <1>4 DEF S!Step

\* A streak stands for as many days with activity as it says, and its shields
\* for whole weeks of them.
THEOREM Streaks == Spec => []StreakIsEarned
<1>1. StreaksInv /\ [Next]_vars => StreaksInv'
  <2> SUFFICES ASSUME StreaksInv, [Next]_vars PROVE StreaksInv'
    OBVIOUS
  <2>1. CASE part = "streaks"
    <3>1. StreakInv
      BY <2>1 DEF StreaksInv
    <3>2. ASSUME UNCHANGED <<now, studied, streak, active, spent, pc, req, overlapped>> PROVE StreakInv'
      BY <3>1, <3>2 DEF StreakInv, StreakTypes
    <3>5. StreakInv'
      <4>1. CASE S!Other
        <5>1. CASE S!TimePasses
          <6>1. now' = now + 1 /\ UNCHANGED <<studied, streak, active, spent, pc, req, overlapped>>
            BY <5>1 DEF S!TimePasses
          <6> QED
            BY <3>1, <6>1 DEF StreakInv, StreakTypes
        <5>2. CASE S!Study
          <6>1. UNCHANGED <<now, streak, active, spent, pc, req, overlapped>>
            BY <5>2 DEF S!Study
          <6> QED
            BY <3>1, <6>1 DEF StreakInv, StreakTypes
        <5> QED
          BY <4>1, <5>1, <5>2 DEF S!Other
      <4> QED
        BY <2>1, <3>1, <3>2, <4>1, RecordKeeps, StreakMove
    <3> QED
      BY <2>1, <3>5, StreakMove DEF StreaksInv
  <2>2. CASE part # "streaks"
    BY <2>2, StreakMove DEF StreaksInv, S!NewStudent
  <2> QED
    BY <2>1, <2>2
<1>2. StreaksInv => StreakIsEarned
  <2> SUFFICES ASSUME StreaksInv PROVE StreakIsEarned
    OBVIOUS
  <2>1. S!Counted = Window(streak, active, spent)
    BY DEF S!Counted, Window
  <2>2. CASE part = "streaks"
    <3>1. StreakInv
      BY <2>2 DEF StreaksInv
    <3>2. S!StreakIsEarned
      BY <2>1, <3>1, DaysCounted DEF StreakInv, StreakOf, S!StreakIsEarned
    <3>3. S!ShieldsAreEarned
      <4>1. SUFFICES ASSUME ~ overlapped PROVE ShieldEvery * (streak.shields + spent) <= Cardinality(active)
        BY DaysCounted DEF S!ShieldsAreEarned
      <4>2. ShieldEvery * (streak.shields + spent) + (streak.current % ShieldEvery) <= Cardinality(active)
        BY <3>1, <4>1 DEF StreakInv, StreakOf
      <4>3. ShieldEvery \in Nat \ {0} /\ streak.shields + spent \in Nat /\ streak.current \in Nat
        BY <3>1, BranchDayAssumption DEF StreakInv, StreakTypes, StreakRow
      <4>4. ShieldEvery * (streak.shields + spent) \in Nat /\ streak.current % ShieldEvery \in Nat
        BY <4>3, NextProduct
      <4>5. Cardinality(active) \in Nat
        BY <3>1, FS_CardinalityType DEF StreakInv, StreakTypes
      <4> QED
        BY <4>2, <4>4, <4>5
    <3> QED
      BY <3>2, <3>3 DEF StreakIsEarned
  <2>3. CASE part # "streaks"
    <3>1. streak.current = 0 /\ streak.shields = 0 /\ spent = 0 /\ active = {}
      BY <2>3 DEF StreaksInv, S!NewStudent, S!NoRow
    <3>2. S!Counted = {}
      BY <3>1 DEF S!Counted
    <3>3. S!Cardinality({}) = 0
      BY FS_EmptySet, DaysCounted
    <3>4. ShieldEvery * (0 + 0) = 0
      BY BranchDayAssumption
    <3> QED
      BY <3>1, <3>2, <3>3, <3>4 DEF StreakIsEarned, S!StreakIsEarned, S!ShieldsAreEarned
  <2> QED
    BY <2>2, <2>3
<1> QED
  BY StreaksStart, <1>1, <1>2, PTL DEF Spec

------------------------------------------------------------------------------
\* The lessons of a student (LessonProgress).

\* Which steps change lessons, city and certificates.
LEMMA LessonMove ==
  ASSUME [Next]_vars
  PROVE  /\ part' = part
         /\ part = "lessons" => \/ \E r \in Requests : L!Step(r)
                                \/ L!Other
                                \/ UNCHANGED <<progress, needed, city, certs, owed, sessions, calls, pc, req, overlapped>>
         /\ part # "lessons" => UNCHANGED <<progress, needed, city, certs, owed, sessions, calls>>
<1>1. CASE Next
  <2>1. CASE LessonStep
    BY <2>1 DEF LessonStep
  <2> QED
    BY <1>1, <2>1 DEF Next, TaskStep, VisitStep, ColourStep, GroupStep, VideoStep, StreakStep,
      ContestStep, ChatStep, PageStep, ErasureStep, EventStep, requests, studentRows, lessonRows
<1>2. CASE UNCHANGED vars
  BY <1>2 DEF vars, requests, studentRows, lessonRows
<1> QED
  BY <1>1, <1>2

\* An instance counts as the branch does.
LEMMA LessonsCounted == \A A : L!Cardinality(A) = Cardinality(A)
BY DEF L!Cardinality, Cardinality

LessonRow == [exists : BOOLEAN, count : Nat, home : BOOLEAN, academy : BOOLEAN]

LessonSteps ==
  {"idle", "session", "count", "building", "place", "build", "certificate", "issued", "issue", "bulk"}

\* What a request carries at each step.
Carries(step, fields) ==
  /\ step = "session" => fields \in [lesson : 1..LastLesson, n : Nat]
  /\ step = "count" => fields \in [lesson : 1..LastLesson, n : Nat, was : LessonRow]
  /\ step \in {"building", "place"} => fields \in [lesson : 1..LastLesson, academy : BOOLEAN]
  /\ step = "build" =>
       /\ fields \in [lesson : 1..LastLesson, academy : BOOLEAN, buildings : SUBSET [lesson : 1..LastLesson, index : Nat]]
       /\ IsFiniteSet(fields.buildings)
  /\ step = "issued" => fields \in [level : 1..LastLesson]
  /\ step = "issue" => /\ fields \in [level : 1..LastLesson, certs : [1..LastLesson -> Nat]]
                       /\ fields.certs[fields.level] = 0
  /\ step = "bulk" => /\ fields \in [upto : 1..LastLesson, next : 1..LastLesson, rows : [1..LastLesson -> LessonRow]]
                      /\ fields.next <= fields.upto

LessonTypes ==
  /\ progress \in [1..LastLesson -> LessonRow]
  /\ needed \in [1..LastLesson -> Nat] /\ sessions \in [1..LastLesson -> Nat]
  /\ certs \in [1..LastLesson -> Nat]
  /\ city \in SUBSET [lesson : 1..LastLesson, index : Nat] /\ IsFiniteSet(city)
  /\ overlapped \in BOOLEAN
  /\ pc \in [Requests -> LessonSteps] /\ req = [s \in Requests |-> req[s]]
  /\ \A r \in Requests : Carries(pc[r], req[r])

\* A certificate on its way is for lessons that are completed.
LevelsReached ==
  \A r \in Requests : pc[r] \in {"issued", "issue"} => req[r].level <= Cardinality(L!Completed)

SessionsCounted == \A l \in 1..LastLesson : progress[l].count >= sessions[l]

InOrder == {building.index : building \in city} = 0..(Cardinality(city) - 1)

Certified ==
  \A level \in 1..LastLesson :
    certs[level] <= 1 /\ (certs[level] = 1 => level <= Cardinality(L!Completed))

LessonInv == LessonTypes /\ LevelsReached /\ (~ overlapped => SessionsCounted /\ InOrder /\ Certified)

\* A lesson somebody worked on, and a request that puts a building up.
Worked(l) == progress[l].academy \/ progress[l].count > 0
PutsUp(r) == pc[r] \in {"building", "place", "build"}

\* Buildings are one for a lesson, and on their way for every lesson owed one.
Built ==
  /\ \A b, c \in city : b.lesson = c.lesson => b = c
  /\ \A b \in city : Worked(b.lesson)
  /\ \A r \in Requests : PutsUp(r) => Worked(req[r].lesson)
  /\ \A l \in owed : (\E b \in city : b.lesson = l) \/ \E r \in Requests : PutsUp(r) /\ req[r].lesson = l

LessonsInv == IF part = "lessons" THEN LessonInv /\ Built ELSE L!Enrolled

\* The larger of two counts.
LEMMA LargerOfTwo ==
  ASSUME NEW m \in Nat, NEW n \in Nat
  PROVE  L!Max({m, n}) \in Nat /\ L!Max({m, n}) >= m /\ L!Max({m, n}) >= n
<1> DEFINE Top(x) == x \in {m, n} /\ \A y \in {m, n} : x >= y
<1>1. \E x : Top(x)
  <2>1. CASE m >= n
    <3>1. Top(m)
      BY <2>1
    <3> QED
      BY <3>1
  <2>2. CASE ~ (m >= n)
    <3>1. Top(n)
      BY <2>2
    <3> QED
      BY <3>1
  <2> QED
    BY <2>1, <2>2
<1>2. L!Max({m, n}) = CHOOSE x : Top(x)
  BY DEF L!Max
<1>3. Top(L!Max({m, n}))
  BY <1>1, <1>2
<1> QED
  BY <1>3

\* A request goes on and the others stay.
LEMMA LessonCarried ==
  ASSUME LessonTypes, NEW r \in Requests, NEW step \in LessonSteps, NEW fields, Carries(step, fields),
         pc' = [pc EXCEPT ![r] = step], req' = [req EXCEPT ![r] = fields]
  PROVE  /\ pc' \in [Requests -> LessonSteps] /\ req' = [s \in Requests |-> req'[s]]
         /\ \A s \in Requests : Carries(pc'[s], req'[s])
         /\ pc'[r] = step /\ req'[r] = fields
         /\ \A s \in Requests : s # r => pc'[s] = pc[s] /\ req'[s] = req[s]
<1>1. pc' \in [Requests -> LessonSteps] /\ req' = [s \in Requests |-> req'[s]]
  BY DEF LessonTypes
<1>2. /\ pc'[r] = step /\ req'[r] = fields
      /\ \A s \in Requests : s # r => pc'[s] = pc[s] /\ req'[s] = req[s]
  BY DEF LessonTypes
<1>3. ASSUME NEW s \in Requests PROVE Carries(pc'[s], req'[s])
  <2>1. CASE s = r
    BY <1>2, <2>1
  <2>2. CASE s # r
    BY <1>2, <2>2 DEF LessonTypes
  <2> QED
    BY <2>1, <2>2
<1> QED
  BY <1>1, <1>2, <1>3

\* Finitely many lessons are completed.
LEMMA CompletedFinite ==
  /\ IsFiniteSet(L!Completed) /\ Cardinality(L!Completed) \in Nat
  /\ Cardinality(L!Completed) <= LastLesson
<1>1. LastLesson \in Nat /\ L!Completed \in SUBSET (1..LastLesson)
  BY BranchDayAssumption DEF L!Completed, L!Lessons
<1>2. IsFiniteSet(1..LastLesson) /\ Cardinality(1..LastLesson) = LastLesson
  BY <1>1, FS_Interval
<1> QED
  BY <1>1, <1>2, FS_Subset, FS_CardinalityType

\* No step takes a completion back.
LEMMA CompletedGrows ==
  ASSUME \A l \in 1..LastLesson : progress[l].academy => progress'[l].academy
  PROVE  Cardinality(L!Completed) <= Cardinality(L!Completed') /\ Cardinality(L!Completed') \in Nat
<1>1. LastLesson \in Nat /\ L!Completed' \in SUBSET (1..LastLesson)
  BY BranchDayAssumption DEF L!Completed, L!Lessons
<1>2. IsFiniteSet(1..LastLesson)
  BY <1>1, FS_Interval
<1>3. IsFiniteSet(L!Completed')
  BY <1>1, <1>2, FS_Subset
<1>4. L!Completed \subseteq L!Completed'
  BY DEF L!Completed, L!Lessons
<1> QED
  BY <1>3, <1>4, FS_Subset, FS_CardinalityType

\* The student begins with no lesson done.
LEMMA LessonsStart == Init => LessonsInv
<1> SUFFICES ASSUME Init PROVE LessonsInv
  OBVIOUS
<1>1. L!Enrolled
  BY DEF Init
<1>2. ASSUME part = "lessons" PROVE LessonInv
  <2>1. pc = [r \in Requests |-> "idle"] /\ req = [r \in Requests |-> [lesson |-> 0]] /\ overlapped = FALSE
    BY <1>2 DEF Init, L!NoReq
  <2>2. /\ progress = [l \in 1..LastLesson |-> [exists |-> FALSE, count |-> 0, home |-> FALSE, academy |-> FALSE]]
        /\ needed = [l \in 1..LastLesson |-> Repetitions] /\ city = {}
        /\ certs = [l \in 1..LastLesson |-> 0] /\ sessions = [l \in 1..LastLesson |-> 0]
    BY <1>1 DEF L!Enrolled, L!Lessons, L!Levels, L!NoRow
  <2>3. Repetitions \in Nat
    BY BranchDayAssumption
  <2>4. IsFiniteSet({}) /\ Cardinality({}) = 0
    BY FS_EmptySet
  <2>5. \A r \in Requests : Carries(pc[r], req[r])
    BY <2>1 DEF Carries
  <2>6. pc \in [Requests -> LessonSteps] /\ req = [s \in Requests |-> req[s]]
    BY <2>1 DEF LessonSteps
  <2>7. progress \in [1..LastLesson -> LessonRow]
    BY <2>2 DEF LessonRow
  <2>8. LessonTypes
    BY <2>1, <2>2, <2>3, <2>4, <2>5, <2>6, <2>7 DEF LessonTypes
  <2>9. LevelsReached
    BY <2>1 DEF LevelsReached
  <2>10. SessionsCounted /\ Certified
    BY <2>2 DEF SessionsCounted, Certified
  <2>11. InOrder
    <3>1. 0..(0 - 1) = {}
      OBVIOUS
    <3> QED
      BY <2>2, <2>4, <3>1 DEF InOrder
  <2> QED
    BY <2>8, <2>9, <2>10, <2>11 DEF LessonInv
<1>3. ASSUME part = "lessons" PROVE Built
  BY <1>1, <1>3 DEF Init, L!Enrolled, Built, PutsUp
<1> QED
  BY <1>1, <1>2, <1>3 DEF LessonsInv

\* A request goes on to its next step without writing a row.
LEMMA LessonGoes ==
  ASSUME LessonInv, NEW r \in Requests, NEW step \in LessonSteps, NEW fields, Carries(step, fields),
         pc' = [pc EXCEPT ![r] = step], req' = [req EXCEPT ![r] = fields],
         step \in {"issued", "issue"} => fields.level <= Cardinality(L!Completed),
         UNCHANGED <<progress, needed, city, certs, sessions, overlapped>>
  PROVE  LessonInv'
<1>1. L!Completed' = L!Completed
  BY DEF L!Completed
<1>2. /\ pc' \in [Requests -> LessonSteps] /\ req' = [s \in Requests |-> req'[s]]
      /\ \A s \in Requests : Carries(pc'[s], req'[s])
      /\ pc'[r] = step /\ req'[r] = fields
      /\ \A s \in Requests : s # r => pc'[s] = pc[s] /\ req'[s] = req[s]
  BY LessonCarried DEF LessonInv
<1>3. LessonTypes'
  BY <1>2 DEF LessonInv, LessonTypes
<1>4. LevelsReached'
  BY <1>1, <1>2 DEF LessonInv, LevelsReached
<1>5. ~ overlapped' => SessionsCounted' /\ InOrder' /\ Certified'
  BY <1>1 DEF LessonInv, SessionsCounted, InOrder, Certified
<1> QED
  BY <1>3, <1>4, <1>5 DEF LessonInv

\* Reading keeps the invariant.
LEMMA LessonLooksKeep ==
  ASSUME LessonInv, NEW r \in Requests,
         \/ \E l \in L!Lessons : L!SessionBegins(r, l) \/ L!BulkReads(r, l)
         \/ L!SessionReads(r) \/ L!CityLooks(r) \/ L!CityCounts(r) \/ L!CityFails(r)
         \/ L!CertificateCounts(r) \/ L!CertificateLooks(r) \/ L!BulkSkips(r)
  PROVE  LessonInv'
<1> USE DEF L!Go, L!Carry, L!Return, L!NoReq, L!state, L!rows
<1>1. UNCHANGED <<progress, needed, city, certs, sessions, overlapped>>
  BY DEF L!SessionBegins, L!BulkReads, L!SessionReads, L!CityLooks, L!CityCounts, L!CityFails,
    L!CertificateCounts, L!CertificateLooks, L!BulkSkips
<1>2. \A f : Carries("idle", f) /\ Carries("certificate", f)
  BY DEF Carries
<1>3. "idle" \in LessonSteps /\ "certificate" \in LessonSteps
  BY DEF LessonSteps
<1>4. ASSUME NEW f, pc' = [pc EXCEPT ![r] = "idle"], req' = [req EXCEPT ![r] = f] PROVE LessonInv'
  <2>1. "idle" \notin {"issued", "issue"}
    OBVIOUS
  <2> QED
    BY ONLY <1>1, <1>2, <1>3, <1>4, <2>1, LessonInv, LessonGoes
<1>5. ASSUME NEW f, pc' = [pc EXCEPT ![r] = "certificate"], req' = [req EXCEPT ![r] = f] PROVE LessonInv'
  <2>1. "certificate" \notin {"issued", "issue"}
    OBVIOUS
  <2> QED
    BY ONLY <1>1, <1>2, <1>3, <1>5, <2>1, LessonInv, LessonGoes
<1>6. L!AfterBuilding(r) => LessonInv'
  BY <1>4, <1>5 DEF L!AfterBuilding
<1>7. progress \in [1..LastLesson -> LessonRow] /\ needed \in [1..LastLesson -> Nat] /\ certs \in [1..LastLesson -> Nat]
      /\ city \in SUBSET [lesson : 1..LastLesson, index : Nat] /\ IsFiniteSet(city)
      /\ req = [req EXCEPT ![r] = req[r]] /\ Carries(pc[r], req[r])
  BY DEF LessonInv, LessonTypes
<1>8. ASSUME NEW l \in L!Lessons, L!SessionBegins(r, l) PROVE LessonInv'
  <2> DEFINE f == [lesson |-> l, n |-> needed[l]]
  <2>1. pc' = [pc EXCEPT ![r] = "session"] /\ req' = [req EXCEPT ![r] = f]
    BY <1>8 DEF L!SessionBegins
  <2>2. Carries("session", f) /\ "session" \in LessonSteps /\ "session" \notin {"issued", "issue"}
    BY <1>7 DEF Carries, LessonSteps, L!Lessons
  <2> HIDE DEF f
  <2> QED
    BY ONLY <1>1, <2>1, <2>2, LessonInv, LessonGoes
<1>9. ASSUME NEW l \in L!Lessons, L!BulkReads(r, l) PROVE LessonInv'
  <2> DEFINE f == [upto |-> l, next |-> 1, rows |-> progress]
  <2>1. pc' = [pc EXCEPT ![r] = "bulk"] /\ req' = [req EXCEPT ![r] = f]
    BY <1>9 DEF L!BulkReads
  <2>2. Carries("bulk", f) /\ "bulk" \in LessonSteps /\ "bulk" \notin {"issued", "issue"}
    BY <1>7, BranchDayAssumption DEF Carries, LessonSteps, L!Lessons
  <2> HIDE DEF f
  <2> QED
    BY ONLY <1>1, <2>1, <2>2, LessonInv, LessonGoes
<1>10. CASE L!SessionReads(r)
  <2> DEFINE f == [lesson |-> req[r].lesson, n |-> req[r].n, was |-> progress[req[r].lesson]]
  <2>1. pc' = [pc EXCEPT ![r] = "count"] /\ req' = [req EXCEPT ![r] = f] /\ pc[r] = "session"
    BY <1>10 DEF L!SessionReads
  <2>2. Carries("count", f) /\ "count" \in LessonSteps /\ "count" \notin {"issued", "issue"}
    BY <1>7, <2>1 DEF Carries, LessonSteps
  <2> HIDE DEF f
  <2> QED
    BY ONLY <1>1, <2>1, <2>2, LessonInv, LessonGoes
<1>11. CASE L!CityLooks(r)
  <2>1. CASE \E building \in city : building.lesson = req[r].lesson
    BY <1>6, <1>11, <2>1 DEF L!CityLooks
  <2>2. CASE ~ \E building \in city : building.lesson = req[r].lesson
    <3>1. pc' = [pc EXCEPT ![r] = "place"] /\ req' = [req EXCEPT ![r] = req[r]] /\ pc[r] = "building"
      BY <1>7, <1>11, <2>2 DEF L!CityLooks
    <3>2. Carries("place", req[r]) /\ "place" \in LessonSteps /\ "place" \notin {"issued", "issue"}
      BY <1>7, <3>1 DEF Carries, LessonSteps
    <3> QED
      BY ONLY <1>1, <3>1, <3>2, LessonInv, LessonGoes
  <2> QED
    BY <2>1, <2>2
<1>12. CASE L!CityCounts(r)
  <2> DEFINE f == [lesson |-> req[r].lesson, academy |-> req[r].academy, buildings |-> city]
  <2>1. pc' = [pc EXCEPT ![r] = "build"] /\ req' = [req EXCEPT ![r] = f] /\ pc[r] = "place"
    BY <1>12 DEF L!CityCounts
  <2>2. Carries("build", f) /\ "build" \in LessonSteps /\ "build" \notin {"issued", "issue"}
    BY <1>7, <2>1 DEF Carries, LessonSteps
  <2> HIDE DEF f
  <2> QED
    BY ONLY <1>1, <2>1, <2>2, LessonInv, LessonGoes
<1>13. CASE L!CityFails(r)
  BY <1>6, <1>13 DEF L!CityFails
<1>14. CASE L!CertificateCounts(r)
  <2>1. CASE L!Completed = {}
    BY <1>4, <1>14, <2>1 DEF L!CertificateCounts
  <2>2. CASE L!Completed # {}
    <3> DEFINE f == [level |-> Cardinality(L!Completed)]
    <3>1. pc' = [pc EXCEPT ![r] = "issued"] /\ req' = [req EXCEPT ![r] = f]
      BY <1>14, <2>2, LessonsCounted DEF L!CertificateCounts
    <3>2. Cardinality(L!Completed) \in 1..LastLesson
      BY <2>2, CompletedFinite, FS_EmptySet, BranchDayAssumption
    <3>3. Carries("issued", f) /\ "issued" \in LessonSteps /\ f.level <= Cardinality(L!Completed)
      BY <3>2 DEF Carries, LessonSteps
    <3> HIDE DEF f
    <3> QED
      BY ONLY <1>1, <3>1, <3>3, LessonInv, LessonGoes
  <2> QED
    BY <2>1, <2>2
<1>15. CASE L!CertificateLooks(r)
  <2>1. CASE certs[req[r].level] > 0
    BY <1>4, <1>15, <2>1 DEF L!CertificateLooks
  <2>2. CASE ~ (certs[req[r].level] > 0)
    <3> DEFINE f == [level |-> req[r].level, certs |-> certs]
    <3>1. pc' = [pc EXCEPT ![r] = "issue"] /\ req' = [req EXCEPT ![r] = f] /\ pc[r] = "issued"
      BY <1>15, <2>2 DEF L!CertificateLooks
    <3>2. req[r].level \in 1..LastLesson
      BY <1>7, <3>1 DEF Carries
    <3>3. Carries("issue", f) /\ "issue" \in LessonSteps
      BY <1>7, <2>2, <3>2 DEF Carries, LessonSteps
    <3>4. f.level <= Cardinality(L!Completed)
      BY <3>1 DEF LessonInv, LevelsReached
    <3> HIDE DEF f
    <3> QED
      BY ONLY <1>1, <3>1, <3>3, <3>4, LessonInv, LessonGoes
  <2> QED
    BY <2>1, <2>2
<1>16. CASE L!BulkSkips(r)
  <2>1. CASE req[r].next = req[r].upto
    BY <1>4, <1>16, <2>1 DEF L!BulkSkips, L!BulkAdvances
  <2>2. CASE req[r].next # req[r].upto
    <3> DEFINE f == [req[r] EXCEPT !.next = req[r].next + 1]
    <3>1. pc' = [pc EXCEPT ![r] = "bulk"] /\ req' = [req EXCEPT ![r] = f] /\ pc[r] = "bulk"
      BY <1>16, <2>2 DEF L!BulkSkips, L!BulkAdvances, LessonInv, LessonTypes
    <3>2. Carries("bulk", f) /\ "bulk" \in LessonSteps /\ "bulk" \notin {"issued", "issue"}
      <4>1. /\ req[r] \in [upto : 1..LastLesson, next : 1..LastLesson, rows : [1..LastLesson -> LessonRow]]
            /\ req[r].next <= req[r].upto
        BY <1>7, <3>1 DEF Carries
      <4>2. req[r].next + 1 \in 1..LastLesson /\ req[r].next + 1 <= req[r].upto
        BY <2>2, <4>1, BranchDayAssumption
      <4>3. /\ f \in [upto : 1..LastLesson, next : 1..LastLesson, rows : [1..LastLesson -> LessonRow]]
            /\ f.next = req[r].next + 1 /\ f.upto = req[r].upto
        BY ONLY <4>1, <4>2
      <4> QED
        BY <4>2, <4>3 DEF Carries, LessonSteps
    <3> HIDE DEF f
    <3> QED
      BY ONLY <1>1, <3>1, <3>2, LessonInv, LessonGoes
  <2> QED
    BY <2>1, <2>2
<1> QED
  BY <1>8, <1>9, <1>10, <1>11, <1>12, <1>13, <1>14, <1>15, <1>16

\* Rows are written.
LEMMA ProgressKeeps ==
  ASSUME LessonInv, UNCHANGED <<city, certs>>,
         progress' \in [1..LastLesson -> LessonRow],
         needed' \in [1..LastLesson -> Nat], sessions' \in [1..LastLesson -> Nat],
         overlapped' \in BOOLEAN, overlapped => overlapped',
         pc' \in [Requests -> LessonSteps], req' = [s \in Requests |-> req'[s]],
         \A s \in Requests : Carries(pc'[s], req'[s]),
         \A s \in Requests : pc'[s] \in {"issued", "issue"} => pc'[s] = pc[s] /\ req'[s] = req[s],
         \A l \in 1..LastLesson : progress[l].academy => progress'[l].academy,
         ~ overlapped' => SessionsCounted'
  PROVE  LessonInv'
<1>1. LessonTypes'
  BY DEF LessonInv, LessonTypes
<1>2. Cardinality(L!Completed) <= Cardinality(L!Completed') /\ Cardinality(L!Completed') \in Nat
      /\ Cardinality(L!Completed) \in Nat
  BY CompletedGrows, CompletedFinite
<1>3. LevelsReached'
  <2>1. SUFFICES ASSUME NEW s \in Requests, pc'[s] \in {"issued", "issue"}
                 PROVE  req'[s].level <= Cardinality(L!Completed')
    BY DEF LevelsReached
  <2>2. req[s].level <= Cardinality(L!Completed)
    BY <2>1 DEF LessonInv, LevelsReached
  <2>3. req'[s] = req[s] /\ req'[s].level \in 1..LastLesson
    BY <2>1 DEF Carries
  <2> QED
    BY <1>2, <2>2, <2>3
<1>4. ~ overlapped' => Certified'
  <2>1. SUFFICES ASSUME ~ overlapped', NEW level \in 1..LastLesson
                 PROVE  certs'[level] <= 1 /\ (certs'[level] = 1 => level <= Cardinality(L!Completed'))
    BY DEF Certified
  <2>2. certs[level] <= 1 /\ (certs[level] = 1 => level <= Cardinality(L!Completed))
    BY <2>1 DEF LessonInv, Certified
  <2> QED
    BY <1>2, <2>2
<1>5. ~ overlapped' => InOrder'
  BY DEF LessonInv, InOrder
<1> QED
  BY <1>1, <1>3, <1>4, <1>5 DEF LessonInv

\* The row of a lesson takes other values.
LEMMA RowChanged ==
  ASSUME LessonInv, NEW l \in 1..LastLesson, NEW new \in LessonRow,
         progress' = [progress EXCEPT ![l] = new]
  PROVE  /\ progress' \in [1..LastLesson -> LessonRow]
         /\ progress'[l] = new
         /\ \A k \in 1..LastLesson : k # l => progress'[k] = progress[k]
BY DEF LessonInv, LessonTypes

\* So does what teachers approve or override.
LEMMA ApprovalsKeep ==
  ASSUME LessonInv, NEW l \in 1..LastLesson,
         \/ L!StartAcademy(l) \/ L!ExamPassed(l)
         \/ \E r \in Requests : L!MarkAcademy(r, l)
  PROVE  LessonInv'
<1>1. UNCHANGED <<needed, city, certs, sessions, overlapped>>
  BY DEF L!StartAcademy, L!ExamPassed, L!MarkAcademy
<1>2. progress[l] \in LessonRow
  BY DEF LessonInv, LessonTypes
<1>3. PICK new \in LessonRow :
        /\ progress' = [progress EXCEPT ![l] = new]
        /\ new.count = progress[l].count /\ (progress[l].academy => new.academy)
  <2>1. CASE L!StartAcademy(l)
    <3> DEFINE new == [progress[l] EXCEPT !.exists = TRUE]
    <3>1. progress' = [progress EXCEPT ![l] = new]
      BY <2>1 DEF L!StartAcademy
    <3>2. new \in LessonRow /\ new.count = progress[l].count /\ new.academy = progress[l].academy
      BY <1>2 DEF LessonRow
    <3> QED
      BY <3>1, <3>2
  <2>2. CASE L!ExamPassed(l)
    <3> DEFINE some == [progress[l] EXCEPT !.exists = TRUE]
               new == [some EXCEPT !.academy = TRUE]
    <3>1. progress' = [progress EXCEPT ![l] = new]
      BY <2>2 DEF L!ExamPassed
    <3>2. some \in LessonRow /\ some.count = progress[l].count
      BY <1>2 DEF LessonRow
    <3>3. new \in LessonRow /\ new.count = progress[l].count /\ new.academy = TRUE
      <4> HIDE DEF some
      <4> QED
        BY <3>2 DEF LessonRow
    <3> QED
      BY <3>1, <3>3
  <2>3. ASSUME NEW r \in Requests, L!MarkAcademy(r, l)
        PROVE  \E new \in LessonRow :
                 /\ progress' = [progress EXCEPT ![l] = new]
                 /\ new.count = progress[l].count /\ (progress[l].academy => new.academy)
    <3> DEFINE new == [progress[l] EXCEPT !.academy = TRUE]
    <3>1. progress' = [progress EXCEPT ![l] = new]
      BY <2>3 DEF L!MarkAcademy
    <3>2. new \in LessonRow /\ new.count = progress[l].count /\ new.academy = TRUE
      BY <1>2 DEF LessonRow
    <3> QED
      BY <3>1, <3>2
  <2> QED
    BY <2>1, <2>2, <2>3
<1>4. /\ pc' \in [Requests -> LessonSteps] /\ req' = [s \in Requests |-> req'[s]]
      /\ \A s \in Requests : Carries(pc'[s], req'[s])
      /\ \A s \in Requests : pc'[s] \in {"issued", "issue"} => pc'[s] = pc[s] /\ req'[s] = req[s]
  <2>1. CASE L!StartAcademy(l) \/ L!ExamPassed(l)
    BY <2>1 DEF L!StartAcademy, L!ExamPassed, LessonInv, LessonTypes
  <2>2. ASSUME NEW r \in Requests, L!MarkAcademy(r, l)
        PROVE  /\ pc' \in [Requests -> LessonSteps] /\ req' = [s \in Requests |-> req'[s]]
               /\ \A s \in Requests : Carries(pc'[s], req'[s])
               /\ \A s \in Requests : pc'[s] \in {"issued", "issue"} => pc'[s] = pc[s] /\ req'[s] = req[s]
    <3> DEFINE f == [lesson |-> l, academy |-> TRUE]
    <3>1. pc' = [pc EXCEPT ![r] = "building"] /\ req' = [req EXCEPT ![r] = f]
      BY <2>2 DEF L!MarkAcademy, L!Building, L!Go, L!Carry
    <3>2. Carries("building", f) /\ "building" \in LessonSteps /\ "building" \notin {"issued", "issue"}
      BY DEF Carries, LessonSteps
    <3> HIDE DEF f
    <3> QED
      BY <3>1, <3>2, LessonCarried DEF LessonInv
  <2> QED
    BY <2>1, <2>2
<1>5. progress' \in [1..LastLesson -> LessonRow]
      /\ \A k \in 1..LastLesson : /\ progress'[k].count = progress[k].count
                                  /\ progress[k].academy => progress'[k].academy
  BY <1>3, RowChanged
<1>6. ~ overlapped' => SessionsCounted'
  BY <1>1, <1>5 DEF LessonInv, SessionsCounted
<1>7. /\ needed' \in [1..LastLesson -> Nat] /\ sessions' \in [1..LastLesson -> Nat]
      /\ overlapped' \in BOOLEAN /\ (overlapped => overlapped')
  BY <1>1 DEF LessonInv, LessonTypes
<1> QED
  BY <1>1, <1>4, <1>5, <1>6, <1>7, ProgressKeeps

\* So does the write that ends a session.
LEMMA SessionWritesKeeps ==
  ASSUME LessonInv, NEW r \in Requests, L!SessionWrites(r)
  PROVE  LessonInv'
<1> DEFINE l == req[r].lesson
           count2 == req[r].was.count + 1
           home == count2 >= req[r].n
           new == [exists |-> TRUE, count |-> count2, home |-> home, academy |-> progress[l].academy]
<1>1. /\ pc[r] = "count"
      /\ progress' = [progress EXCEPT ![l] = new]
      /\ sessions' = [sessions EXCEPT ![l] = sessions[l] + 1]
      /\ overlapped' = (overlapped \/ progress[l].count # req[r].was.count)
      /\ IF home THEN L!Building(r, l, FALSE) ELSE L!Return(r)
      /\ UNCHANGED <<needed, city, certs, calls>>
  BY DEF L!SessionWrites, L!Counts, L!Overtaken
<1>2. l \in 1..LastLesson /\ req[r].was \in LessonRow /\ req[r].n \in Nat
  BY <1>1 DEF LessonInv, LessonTypes, Carries
<1>3. new \in LessonRow /\ new.count = count2 /\ new.academy = progress[l].academy /\ count2 \in Nat
  <2>1. progress[l] \in LessonRow /\ count2 \in Nat /\ home \in BOOLEAN
    BY <1>2 DEF LessonInv, LessonTypes, LessonRow
  <2> HIDE DEF home, count2, l
  <2> QED
    BY <2>1 DEF LessonRow
<1>4. /\ pc' \in [Requests -> LessonSteps] /\ req' = [s \in Requests |-> req'[s]]
      /\ \A s \in Requests : Carries(pc'[s], req'[s])
      /\ \A s \in Requests : pc'[s] \in {"issued", "issue"} => pc'[s] = pc[s] /\ req'[s] = req[s]
  <2>1. CASE home
    <3> DEFINE f == [lesson |-> l, academy |-> FALSE]
    <3>1. pc' = [pc EXCEPT ![r] = "building"] /\ req' = [req EXCEPT ![r] = f]
      BY <1>1, <2>1 DEF L!Building, L!Go, L!Carry
    <3>2. Carries("building", f) /\ "building" \in LessonSteps /\ "building" \notin {"issued", "issue"}
      BY <1>2 DEF Carries, LessonSteps
    <3> HIDE DEF f
    <3> QED
      BY <3>1, <3>2, LessonCarried DEF LessonInv
  <2>2. CASE ~ home
    <3> DEFINE f == [lesson |-> 0]
    <3>1. pc' = [pc EXCEPT ![r] = "idle"] /\ req' = [req EXCEPT ![r] = f]
      BY <1>1, <2>2 DEF L!Return, L!Go, L!Carry, L!NoReq
    <3>2. Carries("idle", f) /\ "idle" \in LessonSteps /\ "idle" \notin {"issued", "issue"}
      BY DEF Carries, LessonSteps
    <3> HIDE DEF f
    <3> QED
      BY <3>1, <3>2, LessonCarried DEF LessonInv
  <2> QED
    BY <2>1, <2>2
<1> HIDE DEF new, home, count2, l
<1>5. /\ progress' \in [1..LastLesson -> LessonRow]
      /\ progress'[l] = new
      /\ \A k \in 1..LastLesson : k # l => progress'[k] = progress[k]
  BY <1>1, <1>2, <1>3, RowChanged
<1>6. \A k \in 1..LastLesson : progress[k].academy => progress'[k].academy
  BY <1>3, <1>5
<1>7. /\ sessions' \in [1..LastLesson -> Nat] /\ overlapped' \in BOOLEAN /\ (overlapped => overlapped')
      /\ needed' \in [1..LastLesson -> Nat]
  BY <1>1, <1>2 DEF LessonInv, LessonTypes
<1>8. ~ overlapped' => SessionsCounted'
  <2>1. SUFFICES ASSUME ~ overlapped', NEW k \in 1..LastLesson PROVE progress'[k].count >= sessions'[k]
    BY DEF SessionsCounted
  <2>2. progress[k].count >= sessions[k] /\ sessions[k] \in Nat /\ progress[k].count \in Nat
    BY <1>1, <2>1 DEF LessonInv, LessonTypes, SessionsCounted, LessonRow
  <2>3. CASE k = l
    <3>1. progress[l].count = req[r].was.count
      BY <1>1, <2>1 DEF l
    <3>2. sessions'[k] = sessions[k] + 1
      BY <1>1, <2>3 DEF LessonInv, LessonTypes
    <3>3. progress'[k].count = progress[k].count + 1
      BY <1>3, <1>5, <2>3, <3>1 DEF count2
    <3> QED
      BY <2>2, <3>2, <3>3
  <2>4. CASE k # l
    BY <1>1, <1>5, <2>2, <2>4 DEF LessonInv, LessonTypes
  <2> QED
    BY <2>3, <2>4
<1> QED
  BY <1>1, <1>4, <1>5, <1>6, <1>7, <1>8, ProgressKeeps

\* So does the write of a lesson approved in bulk.
LEMMA BulkWritesKeeps ==
  ASSUME LessonInv, NEW r \in Requests, L!BulkWrites(r)
  PROVE  LessonInv'
<1> DEFINE l == req[r].next
           was == req[r].rows[l]
           new == [exists |-> TRUE, count |-> L!BulkCount(was), home |-> TRUE, academy |-> TRUE]
           fails == [lesson |-> 0]
           goes == [req[r] EXCEPT !.next = l + 1]
<1>1. /\ pc[r] = "bulk"
      /\ IF was.exists \/ ~ progress[l].exists
         THEN progress' = [progress EXCEPT ![l] = new] /\ L!BulkAdvances(r)
         ELSE UNCHANGED progress /\ L!Return(r)
      /\ overlapped' = (overlapped \/ progress[l] # was)
      /\ UNCHANGED <<needed, city, certs, sessions, calls>>
  BY DEF L!BulkWrites, L!Overtaken
<1>2. /\ req[r] \in [upto : 1..LastLesson, next : 1..LastLesson, rows : [1..LastLesson -> LessonRow]]
      /\ req[r].next <= req[r].upto
  BY <1>1 DEF LessonInv, LessonTypes, Carries
<1>3. l \in 1..LastLesson /\ was \in LessonRow
  BY <1>2
<1>4. /\ new \in LessonRow /\ new.count >= was.count /\ new.academy = TRUE
  <2>1. was.count \in Nat /\ Repetitions \in Nat
    BY <1>3, BranchDayAssumption DEF LessonRow
  <2>2. L!BulkCount(was) \in Nat /\ L!BulkCount(was) >= was.count
    BY <2>1, LargerOfTwo DEF L!BulkCount
  <2> HIDE DEF was
  <2> QED
    BY <2>2 DEF LessonRow
<1>5. \/ pc' = [pc EXCEPT ![r] = "idle"] /\ req' = [req EXCEPT ![r] = fails]
      \/ pc' = [pc EXCEPT ![r] = "bulk"] /\ req' = [req EXCEPT ![r] = goes] /\ l # req[r].upto
  <2>1. CASE L!Return(r)
    BY <2>1 DEF L!Return, L!Go, L!Carry, L!NoReq
  <2>2. CASE L!BulkAdvances(r)
    <3>1. CASE req[r].next = req[r].upto
      BY <2>2, <3>1 DEF L!BulkAdvances, L!Return, L!Go, L!Carry, L!NoReq
    <3>2. CASE req[r].next # req[r].upto
      <4>1. pc' = pc /\ pc = [pc EXCEPT ![r] = "bulk"]
        BY <1>1, <2>2, <3>2 DEF L!BulkAdvances, LessonInv, LessonTypes
      <4> QED
        BY <2>2, <3>2, <4>1 DEF L!BulkAdvances, L!Carry
    <3> QED
      BY <3>1, <3>2
  <2> QED
    BY <1>1, <2>1, <2>2
<1>6. /\ pc' \in [Requests -> LessonSteps] /\ req' = [s \in Requests |-> req'[s]]
      /\ \A s \in Requests : Carries(pc'[s], req'[s])
      /\ \A s \in Requests : pc'[s] \in {"issued", "issue"} => pc'[s] = pc[s] /\ req'[s] = req[s]
  <2>1. CASE pc' = [pc EXCEPT ![r] = "idle"] /\ req' = [req EXCEPT ![r] = fails]
    <3>1. Carries("idle", fails) /\ "idle" \in LessonSteps /\ "idle" \notin {"issued", "issue"}
      BY DEF Carries, LessonSteps
    <3> HIDE DEF fails
    <3> QED
      BY <2>1, <3>1, LessonCarried DEF LessonInv
  <2>2. CASE pc' = [pc EXCEPT ![r] = "bulk"] /\ req' = [req EXCEPT ![r] = goes] /\ l # req[r].upto
    <3>1. l + 1 \in 1..LastLesson /\ l + 1 <= req[r].upto
      <4>1. req[r].next \in 1..LastLesson /\ req[r].upto \in 1..LastLesson /\ LastLesson \in Nat
        BY <1>2, BranchDayAssumption
      <4> QED
        BY <1>2, <2>2, <4>1
    <3>2. /\ goes \in [upto : 1..LastLesson, next : 1..LastLesson, rows : [1..LastLesson -> LessonRow]]
          /\ goes.next = l + 1 /\ goes.upto = req[r].upto
      BY ONLY <1>2, <3>1
    <3>3. Carries("bulk", goes) /\ "bulk" \in LessonSteps /\ "bulk" \notin {"issued", "issue"}
      BY <3>1, <3>2 DEF Carries, LessonSteps
    <3> HIDE DEF goes
    <3> QED
      BY <2>2, <3>3, LessonCarried DEF LessonInv
  <2> QED
    BY <1>5, <2>1, <2>2
<1> HIDE DEF new, l, was, fails, goes
<1>7. /\ sessions' \in [1..LastLesson -> Nat] /\ overlapped' \in BOOLEAN /\ (overlapped => overlapped')
      /\ needed' \in [1..LastLesson -> Nat]
  BY <1>1 DEF LessonInv, LessonTypes
<1>8. CASE progress' = [progress EXCEPT ![l] = new]
  <2>1. /\ progress' \in [1..LastLesson -> LessonRow]
        /\ progress'[l] = new
        /\ \A k \in 1..LastLesson : k # l => progress'[k] = progress[k]
    BY <1>3, <1>4, <1>8, RowChanged
  <2>2. \A k \in 1..LastLesson : progress[k].academy => progress'[k].academy
    BY <1>4, <2>1
  <2>3. ~ overlapped' => SessionsCounted'
    <3>1. SUFFICES ASSUME ~ overlapped', NEW k \in 1..LastLesson PROVE progress'[k].count >= sessions'[k]
      BY DEF SessionsCounted
    <3>2. progress[k].count >= sessions[k] /\ sessions[k] \in Nat /\ progress[k].count \in Nat /\ new.count \in Nat
      BY <1>1, <1>4, <3>1 DEF LessonInv, LessonTypes, SessionsCounted, LessonRow
    <3>3. CASE k = l
      <4>1. progress[l] = was
        BY <1>1, <3>1
      <4> QED
        BY <1>1, <1>4, <2>1, <3>2, <3>3, <4>1
    <3>4. CASE k # l
      BY <1>1, <2>1, <3>2, <3>4
    <3> QED
      BY <3>3, <3>4
  <2> QED
    BY <1>1, <1>6, <1>7, <2>1, <2>2, <2>3, ProgressKeeps
<1>9. CASE UNCHANGED progress
  <2>1. progress' \in [1..LastLesson -> LessonRow] /\ \A k \in 1..LastLesson : progress[k].academy => progress'[k].academy
    BY <1>9 DEF LessonInv, LessonTypes
  <2>2. ~ overlapped' => SessionsCounted'
    BY <1>1, <1>7, <1>9 DEF LessonInv, SessionsCounted
  <2> QED
    BY <1>1, <1>6, <1>7, <2>1, <2>2, ProgressKeeps
<1> QED
  BY <1>1, <1>8, <1>9

\* So does the building of a house in the city.
LEMMA CityBuildsKeeps ==
  ASSUME LessonInv, NEW r \in Requests, L!CityBuilds(r)
  PROVE  LessonInv'
<1> DEFINE new == [lesson |-> req[r].lesson, index |-> Cardinality(req[r].buildings)]
           f == [lesson |-> 0]
<1>1. /\ pc[r] = "build"
      /\ city' = IF \E building \in city : building.lesson = req[r].lesson THEN city ELSE city \union {[lesson |-> req[r].lesson, index |-> L!NextIndex(r)]}
      /\ overlapped' = (overlapped \/ city # req[r].buildings)
      /\ L!AfterBuilding(r)
      /\ UNCHANGED <<progress, needed, certs, sessions, calls>>
  BY DEF L!CityBuilds, L!Overtaken
<1>2. L!NextIndex(r) = Cardinality(req[r].buildings)
  BY LessonsCounted DEF L!NextIndex
<1>3. req[r] \in [lesson : 1..LastLesson, academy : BOOLEAN, buildings : SUBSET [lesson : 1..LastLesson, index : Nat]]
  BY <1>1 DEF LessonInv, LessonTypes, Carries
<1>4. /\ pc' \in [Requests -> LessonSteps] /\ req' = [s \in Requests |-> req'[s]]
      /\ \A s \in Requests : Carries(pc'[s], req'[s])
      /\ \A s \in Requests : pc'[s] \in {"issued", "issue"} => pc'[s] = pc[s] /\ req'[s] = req[s]
  <2>1. \/ pc' = [pc EXCEPT ![r] = "certificate"] /\ req' = [req EXCEPT ![r] = f]
        \/ pc' = [pc EXCEPT ![r] = "idle"] /\ req' = [req EXCEPT ![r] = f]
    BY <1>1 DEF L!AfterBuilding, L!Return, L!Go, L!Carry, L!NoReq
  <2>2. Carries("idle", f) /\ Carries("certificate", f)
    BY DEF Carries
  <2>3. {"idle", "certificate"} \subseteq LessonSteps /\ "idle" \notin {"issued", "issue"} /\ "certificate" \notin {"issued", "issue"}
    BY DEF LessonSteps
  <2> HIDE DEF f
  <2>4. CASE pc' = [pc EXCEPT ![r] = "certificate"] /\ req' = [req EXCEPT ![r] = f]
    BY <2>2, <2>3, <2>4, LessonCarried DEF LessonInv
  <2>5. CASE pc' = [pc EXCEPT ![r] = "idle"] /\ req' = [req EXCEPT ![r] = f]
    BY <2>2, <2>3, <2>5, LessonCarried DEF LessonInv
  <2> QED
    BY <2>1, <2>4, <2>5
<1>5. IsFiniteSet(city) /\ city \in SUBSET [lesson : 1..LastLesson, index : Nat]
  BY DEF LessonInv, LessonTypes
<1>6. Cardinality(city) \in Nat
  BY <1>5, FS_CardinalityType
<1>7. IsFiniteSet(city') /\ city' \in SUBSET [lesson : 1..LastLesson, index : Nat]
      /\ (~ overlapped' => InOrder')
  <2>1. CASE \E building \in city : building.lesson = req[r].lesson
    <3>1. city' = city
      BY <1>1, <2>1
    <3> QED
      BY <1>1, <1>5, <3>1 DEF LessonInv, InOrder
  <2>2. CASE ~ \E building \in city : building.lesson = req[r].lesson
    <3>1. city' = city \union {new}
      BY <1>1, <1>2, <2>2
    <3>2. IsFiniteSet(city')
      BY <1>5, <3>1, FS_AddElement
    <3>3. Cardinality(req[r].buildings) \in Nat
      <4>1. IsFiniteSet(req[r].buildings)
        BY <1>1 DEF LessonInv, LessonTypes, Carries
      <4> QED
        BY <4>1, FS_CardinalityType
    <3>4. new.lesson = req[r].lesson /\ new.index = Cardinality(req[r].buildings)
      OBVIOUS
    <3>5. new \in [lesson : 1..LastLesson, index : Nat]
      BY <1>3, <3>3
    <3> HIDE DEF new
    <3>6. city' \in SUBSET [lesson : 1..LastLesson, index : Nat]
      BY <1>5, <3>1, <3>5
    <3>7. ASSUME ~ overlapped' PROVE InOrder'
      <4>1. new.index = Cardinality(city) /\ ~ overlapped
        BY <1>1, <3>4, <3>7
      <4>2. new \notin city
        BY <2>2, <3>4
      <4>3. Cardinality(city') = Cardinality(city) + 1
        BY <1>5, <3>1, <4>2, FS_AddElement
      <4>4. {building.index : building \in city} = 0..(Cardinality(city) - 1)
        BY <4>1 DEF LessonInv, InOrder
      <4>5. {building.index : building \in city'} = {building.index : building \in city} \union {new.index}
        BY <3>1
      <4>6. 0..((Cardinality(city) + 1) - 1) = 0..(Cardinality(city) - 1) \union {Cardinality(city)}
        BY <1>6
      <4> QED
        BY <4>1, <4>3, <4>4, <4>5, <4>6 DEF InOrder
    <3> QED
      BY <3>2, <3>6, <3>7
  <2> QED
    BY <2>1, <2>2
<1>8. LessonTypes'
  <2>1. overlapped' \in BOOLEAN
    BY <1>1
  <2> QED
    BY <1>1, <1>4, <1>7, <2>1 DEF LessonInv, LessonTypes
<1>9. L!Completed' = L!Completed
  BY <1>1 DEF L!Completed
<1>10. LevelsReached'
  BY <1>4, <1>9 DEF LessonInv, LevelsReached
<1>11. ~ overlapped' => SessionsCounted' /\ Certified'
  BY <1>1, <1>9 DEF LessonInv, SessionsCounted, Certified
<1> QED
  BY <1>7, <1>8, <1>10, <1>11 DEF LessonInv

\* So does the certificate.
LEMMA CertificateIssuesKeeps ==
  ASSUME LessonInv, NEW r \in Requests, L!CertificateIssues(r)
  PROVE  LessonInv'
<1> DEFINE level == req[r].level
           f == [lesson |-> 0]
<1>1. /\ pc[r] = "issue"
      /\ certs' = [certs EXCEPT ![level] = certs[level] + 1]
      /\ overlapped' = (overlapped \/ certs # req[r].certs)
      /\ pc' = [pc EXCEPT ![r] = "idle"] /\ req' = [req EXCEPT ![r] = f]
      /\ UNCHANGED <<progress, needed, city, sessions, calls>>
  BY DEF L!CertificateIssues, L!Overtaken, L!Return, L!Go, L!Carry, L!NoReq
<1>2. level \in 1..LastLesson /\ req[r].certs[level] = 0 /\ level <= Cardinality(L!Completed)
  BY <1>1 DEF LessonInv, LessonTypes, Carries, LevelsReached
<1>3. Carries("idle", f) /\ "idle" \in LessonSteps /\ "idle" \notin {"issued", "issue"}
  BY DEF Carries, LessonSteps
<1> HIDE DEF level, f
<1>4. /\ pc' \in [Requests -> LessonSteps] /\ req' = [s \in Requests |-> req'[s]]
      /\ \A s \in Requests : Carries(pc'[s], req'[s])
      /\ \A s \in Requests : pc'[s] \in {"issued", "issue"} => pc'[s] = pc[s] /\ req'[s] = req[s]
  BY <1>1, <1>3, LessonCarried DEF LessonInv
<1>5. certs' \in [1..LastLesson -> Nat]
      /\ \A k \in 1..LastLesson : certs'[k] = IF k = level THEN certs[level] + 1 ELSE certs[k]
  BY <1>1, <1>2 DEF LessonInv, LessonTypes
<1>6. LessonTypes'
  BY <1>1, <1>4, <1>5 DEF LessonInv, LessonTypes
<1>7. L!Completed' = L!Completed
  BY <1>1 DEF L!Completed
<1>8. LevelsReached'
  BY <1>4, <1>7 DEF LessonInv, LevelsReached
<1>9. ASSUME ~ overlapped' PROVE SessionsCounted' /\ InOrder' /\ Certified'
  <2>1. ~ overlapped /\ certs[level] = 0
    BY <1>1, <1>2, <1>9 DEF level
  <2>2. SessionsCounted' /\ InOrder'
    BY <1>1, <2>1 DEF LessonInv, SessionsCounted, InOrder
  <2>3. Certified'
    BY <1>2, <1>5, <1>7, <2>1 DEF LessonInv, Certified
  <2> QED
    BY <2>2, <2>3
<1> QED
  BY <1>6, <1>8, <1>9 DEF LessonInv

\* So does every step on lessons.
LEMMA LessonStepKeeps ==
  ASSUME LessonInv, (\E r \in Requests : L!Step(r)) \/ L!Other
  PROVE  LessonInv'
<1>1. CASE L!Other
  <2>1. PICK l \in 1..LastLesson : L!SetOverride(l) \/ L!StartAcademy(l) \/ L!ExamPassed(l)
    BY <1>1 DEF L!Other, L!Lessons
  <2>2. CASE L!SetOverride(l)
    <3>1. PICK n \in 1..MostRepetitions : needed' = [needed EXCEPT ![l] = n]
      BY <2>2 DEF L!SetOverride
    <3>2. UNCHANGED <<progress, city, certs, sessions, pc, req, overlapped>>
      BY <2>2 DEF L!SetOverride
    <3>3. needed' \in [1..LastLesson -> Nat]
      BY <3>1, BranchDayAssumption DEF LessonInv, LessonTypes
    <3>4. LessonTypes'
      BY <3>2, <3>3 DEF LessonInv, LessonTypes
    <3>5. LevelsReached' /\ (~ overlapped' => SessionsCounted' /\ InOrder' /\ Certified')
      BY <3>2 DEF LessonInv, LevelsReached, SessionsCounted, InOrder, Certified, L!Completed
    <3> QED
      BY <3>4, <3>5 DEF LessonInv
  <2> QED
    BY <2>1, <2>2, ApprovalsKeep
<1>2. ASSUME NEW r \in Requests, L!Step(r) PROVE LessonInv'
  <2>1. ASSUME NEW l \in 1..LastLesson, L!MarkAcademy(r, l) PROVE LessonInv'
    BY <2>1, ApprovalsKeep
  <2> QED
    BY <1>2, <2>1, LessonLooksKeep, SessionWritesKeeps, BulkWritesKeeps, CityBuildsKeeps, CertificateIssuesKeeps
      DEF L!Step, L!Lessons
<1> QED
  BY <1>1, <1>2

\* What a step of one request may do to the buildings.
LEMMA BuiltFrom ==
  ASSUME LessonTypes, Built, NEW r \in Requests,
         \A s \in Requests : s # r => pc'[s] = pc[s] /\ req'[s] = req[s],
         \A l \in 1..LastLesson : Worked(l) => Worked(l)',
         \/ city' = city
         \/ \E new : /\ city' = city \union {new} /\ PutsUp(r) /\ new.lesson = req[r].lesson
                     /\ \A b \in city : b.lesson # req[r].lesson,
         PutsUp(r)' => Worked(req[r].lesson)',
         \A l \in owed' : l \in owed \/ (PutsUp(r)' /\ req'[r].lesson = l),
         PutsUp(r) => \/ PutsUp(r)' /\ req'[r].lesson = req[r].lesson
                      \/ \E b \in city' : b.lesson = req[r].lesson
                      \/ req[r].lesson \notin owed'
  PROVE  Built'
<1>1. /\ \A b \in city : b.lesson \in 1..LastLesson
      /\ \A s \in Requests : PutsUp(s) => req[s].lesson \in 1..LastLesson
  BY DEF LessonTypes, Carries, PutsUp
<1>2. /\ \A b \in city : b \in city'
      /\ \A b \in city' : b \in city \/ (PutsUp(r) /\ b.lesson = req[r].lesson)
      /\ \A b, c \in city' : b.lesson = c.lesson => b = c
  BY DEF Built
<1>3. \A b \in city' : Worked(b.lesson)'
  BY <1>1, <1>2 DEF Built, Worked
<1>4. \A s \in Requests : PutsUp(s)' => Worked(req[s].lesson)'
  BY <1>1 DEF Built, PutsUp, Worked
<1>5. ASSUME NEW l \in owed'
      PROVE  (\E b \in city' : b.lesson = l) \/ \E s \in Requests : PutsUp(s)' /\ req'[s].lesson = l
  <2>1. CASE PutsUp(r)' /\ req'[r].lesson = l
    BY <2>1
  <2>2. ASSUME l \in owed, NEW b \in city, b.lesson = l PROVE \E c \in city' : c.lesson = l
    BY <1>2, <2>2
  <2>3. ASSUME l \in owed, NEW s \in Requests, PutsUp(s), req[s].lesson = l
        PROVE  (\E b \in city' : b.lesson = l) \/ \E q \in Requests : PutsUp(q)' /\ req'[q].lesson = l
    <3>1. CASE s = r
      BY <1>5, <2>3, <3>1
    <3>2. CASE s # r
      <4>1. PutsUp(s)' /\ req'[s].lesson = l
        BY <2>3, <3>2 DEF PutsUp
      <4> QED
        BY <4>1
    <3> QED
      BY <3>1, <3>2
  <2> QED
    BY <1>5, <2>1, <2>2, <2>3 DEF Built
<1> QED
  BY <1>2, <1>3, <1>4, <1>5 DEF Built

\* What is worked on stays so, at every write of a lesson.
LEMMA WorkStays ==
  ASSUME LessonTypes, NEW l \in 1..LastLesson, NEW new,
         progress' = [progress EXCEPT ![l] = new],
         Worked(l) => new.academy \/ new.count > 0
  PROVE  /\ \A k \in 1..LastLesson : Worked(k) => Worked(k)'
         /\ progress'[l] = new
<1>1. progress'[l] = new /\ \A k \in 1..LastLesson : k # l => progress'[k] = progress[k]
  BY DEF LessonTypes
<1> QED
  BY <1>1 DEF Worked

\* The steps of a request that have no part in the city.
LEMMA BuiltBeside ==
  ASSUME LessonInv, Built, NEW r \in Requests,
         \/ \E l \in L!Lessons : L!SessionBegins(r, l) \/ L!BulkReads(r, l)
         \/ L!SessionReads(r) \/ L!BulkSkips(r)
         \/ L!CertificateCounts(r) \/ L!CertificateLooks(r) \/ L!CertificateIssues(r)
  PROVE  Built'
<1> USE DEF L!Go, L!Carry, L!Return, L!state, L!rows
<1>1. UNCHANGED <<progress, city, owed>>
  BY DEF L!SessionBegins, L!BulkReads, L!SessionReads, L!BulkSkips,
    L!CertificateCounts, L!CertificateLooks, L!CertificateIssues
<1>2. PICK step \in LessonSteps :
        /\ pc' = [pc EXCEPT ![r] = step] /\ \E fields : req' = [req EXCEPT ![r] = fields]
        /\ step \notin {"building", "place", "build"} /\ ~ PutsUp(r)
  <2>1. CASE L!BulkSkips(r)
    <3>1. pc = [pc EXCEPT ![r] = "bulk"] /\ pc[r] = "bulk"
      BY <2>1 DEF L!BulkSkips, LessonInv, LessonTypes
    <3> QED
      BY <2>1, <3>1 DEF L!BulkSkips, L!BulkAdvances, LessonSteps, PutsUp
  <2>2. CASE ~ L!BulkSkips(r)
    BY <2>2 DEF L!SessionBegins, L!BulkReads, L!SessionReads, L!CertificateCounts, L!CertificateLooks,
      L!CertificateIssues, LessonSteps, PutsUp
  <2> QED
    BY <2>1, <2>2
<1>3. /\ pc'[r] = step /\ \A s \in Requests : s # r => pc'[s] = pc[s] /\ req'[s] = req[s]
  BY <1>2 DEF LessonInv, LessonTypes
<1> QED
  BY <1>1, <1>2, <1>3, BuiltFrom DEF LessonInv, PutsUp, Worked

\* The steps of a request that puts a building up.
LEMMA BuiltUp ==
  ASSUME LessonInv, Built, NEW r \in Requests,
         L!CityLooks(r) \/ L!CityCounts(r) \/ L!CityBuilds(r) \/ L!CityFails(r)
  PROVE  Built'
<1> DEFINE l == req[r].lesson
<1> USE DEF L!Go, L!Carry, L!Return, L!state, L!rows
<1>1. PutsUp(r) /\ progress' = progress /\ LessonTypes
  BY DEF L!CityLooks, L!CityCounts, L!CityBuilds, L!CityFails, PutsUp, LessonInv
<1>2. \A k \in 1..LastLesson : Worked(k) => Worked(k)'
  BY <1>1 DEF Worked
<1>3. PICK step \in LessonSteps : \E fields :
        /\ pc' = [pc EXCEPT ![r] = step] /\ req' = [req EXCEPT ![r] = fields]
        /\ step \in {"building", "place", "build"} => fields.lesson = l
        /\ step \notin {"building", "place", "build"} =>
             (\E b \in city' : b.lesson = l) \/ l \notin owed'
  <2>1. ASSUME L!AfterBuilding(r), (\E b \in city' : b.lesson = l) \/ l \notin owed'
        PROVE  \E step \in LessonSteps : \E fields :
                 /\ pc' = [pc EXCEPT ![r] = step] /\ req' = [req EXCEPT ![r] = fields]
                 /\ step \notin {"building", "place", "build"}
                 /\ (\E b \in city' : b.lesson = l) \/ l \notin owed'
    BY <2>1 DEF L!AfterBuilding, LessonSteps
  <2>2. CASE L!CityLooks(r)
    <3>1. CASE \E b \in city : b.lesson = l
      BY <2>1, <2>2, <3>1 DEF L!CityLooks
    <3>2. CASE ~ \E b \in city : b.lesson = l
      <4>1. pc' = [pc EXCEPT ![r] = "place"] /\ req' = [req EXCEPT ![r] = req[r]]
        BY <1>1, <2>2, <3>2 DEF L!CityLooks, LessonTypes
      <4> QED
        BY <4>1 DEF LessonSteps
    <3> QED
      BY <3>1, <3>2
  <2>3. CASE L!CityCounts(r)
    BY <2>3 DEF L!CityCounts, LessonSteps
  <2>4. CASE L!CityBuilds(r)
    <3>1. \E b \in city' : b.lesson = l
      <4>1. CASE \E b \in city : b.lesson = l
        BY <2>4, <4>1 DEF L!CityBuilds
      <4>2. CASE ~ \E b \in city : b.lesson = l
        <5>1. [lesson |-> l, index |-> L!NextIndex(r)] \in city'
          BY <2>4, <4>2 DEF L!CityBuilds
        <5> QED
          BY <5>1
      <4> QED
        BY <4>1, <4>2
    <3>2. L!AfterBuilding(r)
      BY <2>4 DEF L!CityBuilds
    <3> QED
      BY <2>1, <3>1, <3>2
  <2>5. CASE L!CityFails(r)
    <3>1. L!AfterBuilding(r) /\ l \notin owed'
      BY <2>5 DEF L!CityFails
    <3> QED
      BY <2>1, <3>1
  <2> QED
    BY <2>2, <2>3, <2>4, <2>5
<1>4. PICK fields :
        /\ pc' = [pc EXCEPT ![r] = step] /\ req' = [req EXCEPT ![r] = fields]
        /\ step \in {"building", "place", "build"} => fields.lesson = l
        /\ step \notin {"building", "place", "build"} =>
             (\E b \in city' : b.lesson = l) \/ l \notin owed'
  BY <1>3
<1>5. /\ pc'[r] = step /\ req'[r] = fields
      /\ \A s \in Requests : s # r => pc'[s] = pc[s] /\ req'[s] = req[s]
  BY <1>1, <1>4 DEF LessonTypes
<1>6. \A k \in owed' : k \in owed
  BY DEF L!CityLooks, L!CityCounts, L!CityBuilds, L!CityFails
<1>7. \/ city' = city
      \/ \E new : city' = city \union {new} /\ new.lesson = l /\ \A b \in city : b.lesson # l
  <2>1. CASE L!CityBuilds(r) /\ ~ \E b \in city : b.lesson = l
    <3> DEFINE new == [lesson |-> l, index |-> L!NextIndex(r)]
    <3>1. city' = city \union {new} /\ new.lesson = l
      BY <2>1 DEF L!CityBuilds
    <3> HIDE DEF new
    <3> QED
      BY <2>1, <3>1
  <2>2. CASE ~ (L!CityBuilds(r) /\ ~ \E b \in city : b.lesson = l)
    BY <2>2 DEF L!CityLooks, L!CityCounts, L!CityBuilds, L!CityFails
  <2> QED
    BY <2>1, <2>2
<1>8. PutsUp(r)' => Worked(req[r].lesson)'
  <2>1. Worked(l)
    BY <1>1 DEF Built
  <2> QED
    BY <1>1, <1>4, <1>5, <2>1 DEF PutsUp, Worked
<1>9. \/ PutsUp(r)' /\ req'[r].lesson = l
      \/ \E b \in city' : b.lesson = l
      \/ l \notin owed'
  BY <1>4, <1>5 DEF PutsUp
<1> HIDE DEF L!Go, L!Carry, L!Return, L!state, L!rows
<1> QED
  BY <1>1, <1>2, <1>5, <1>6, <1>7, <1>8, <1>9, BuiltFrom

\* The writes of a lesson, some of which ask for a building.
LEMMA BuiltBesideWrites ==
  ASSUME LessonInv, Built, NEW r \in Requests,
         \/ \E l \in L!Lessons : L!MarkAcademy(r, l)
         \/ L!SessionWrites(r) \/ L!BulkWrites(r)
  PROVE  Built'
<1> USE DEF L!Go, L!Carry, L!Return
<1>0. LessonTypes /\ ~ PutsUp(r) /\ city' = city
  BY DEF L!MarkAcademy, L!SessionWrites, L!Counts, L!BulkWrites, PutsUp, LessonInv
<1>1. ASSUME NEW l \in 1..LastLesson, L!MarkAcademy(r, l) PROVE Built'
  <2> DEFINE new == [progress[l] EXCEPT !.academy = TRUE]
  <2>1. /\ progress' = [progress EXCEPT ![l] = new] /\ owed' = owed \union {l}
        /\ pc' = [pc EXCEPT ![r] = "building"] /\ req' = [req EXCEPT ![r] = [lesson |-> l, academy |-> TRUE]]
    BY <1>1 DEF L!MarkAcademy, L!Building
  <2>2. new.academy
    BY <1>0, <1>1 DEF LessonTypes, LessonRow
  <2> HIDE DEF new
  <2>3. (\A k \in 1..LastLesson : Worked(k) => Worked(k)') /\ progress'[l] = new
    BY <1>0, <2>1, <2>2, WorkStays
  <2>4. /\ pc'[r] = "building" /\ req'[r].lesson = l
        /\ \A s \in Requests : s # r => pc'[s] = pc[s] /\ req'[s] = req[s]
    BY <1>0, <2>1 DEF LessonTypes
  <2>5. PutsUp(r)' /\ Worked(req[r].lesson)'
    BY <2>2, <2>3, <2>4 DEF PutsUp, Worked
  <2> QED
    BY <1>0, <2>1, <2>3, <2>4, <2>5, BuiltFrom
<1>2. CASE L!SessionWrites(r)
  <2> DEFINE l == req[r].lesson
             count2 == req[r].was.count + 1
             home == count2 >= req[r].n
             new == [exists |-> TRUE, count |-> count2, home |-> home, academy |-> progress[l].academy]
  <2>1. /\ pc[r] = "count" /\ progress' = [progress EXCEPT ![l] = new]
        /\ IF home THEN L!Building(r, l, FALSE) ELSE L!Return(r) /\ UNCHANGED owed
    BY <1>2 DEF L!SessionWrites, L!Counts
  <2>2. l \in 1..LastLesson /\ count2 \in Nat /\ count2 > 0
    BY <1>0, <2>1 DEF LessonTypes, Carries, LessonRow
  <2>3. new.count > 0
    BY <2>2
  <2>4. \/ /\ owed' = owed \union {l} /\ pc' = [pc EXCEPT ![r] = "building"]
           /\ req' = [req EXCEPT ![r] = [lesson |-> l, academy |-> FALSE]]
        \/ owed' = owed /\ pc' = [pc EXCEPT ![r] = "idle"] /\ req' = [req EXCEPT ![r] = L!NoReq]
    BY <2>1 DEF L!Building
  <2> HIDE DEF new, count2, home
  <2>5. (\A k \in 1..LastLesson : Worked(k) => Worked(k)') /\ progress'[l] = new
    <3> HIDE DEF l
    <3> QED
      BY <1>0, <2>1, <2>2, <2>3, WorkStays
  <2>6. /\ \A s \in Requests : s # r => pc'[s] = pc[s] /\ req'[s] = req[s]
        /\ \/ owed' = owed \union {l} /\ pc'[r] = "building" /\ req'[r].lesson = l
           \/ owed' = owed /\ pc'[r] = "idle"
    BY <1>0, <2>4 DEF LessonTypes
  <2>7. PutsUp(r)' => Worked(req[r].lesson)'
    BY <2>3, <2>5, <2>6 DEF PutsUp, Worked
  <2>8. \A k \in owed' : k \in owed \/ (PutsUp(r)' /\ req'[r].lesson = k)
    BY <2>6 DEF PutsUp
  <2> QED
    BY <1>0, <2>5, <2>6, <2>7, <2>8, BuiltFrom
<1>3. CASE L!BulkWrites(r)
  <2> DEFINE l == req[r].next
             new == [exists |-> TRUE, count |-> L!BulkCount(req[r].rows[l]), home |-> TRUE, academy |-> TRUE]
  <2>1. /\ pc[r] = "bulk" /\ owed' = owed
        /\ progress' = [progress EXCEPT ![l] = new] \/ progress' = progress
        /\ L!BulkAdvances(r) \/ L!Return(r)
    BY <1>3 DEF L!BulkWrites
  <2>2. l \in 1..LastLesson /\ new.academy
    BY <1>0, <2>1 DEF LessonTypes, Carries
  <2> HIDE DEF new, l
  <2>3. \A k \in 1..LastLesson : Worked(k) => Worked(k)'
    BY <1>0, <2>1, <2>2, WorkStays DEF Worked
  <2>4. /\ pc'[r] \in {"bulk", "idle"}
        /\ \A s \in Requests : s # r => pc'[s] = pc[s] /\ req'[s] = req[s]
    BY <1>0, <2>1 DEF L!BulkAdvances, LessonTypes
  <2> QED
    BY <1>0, <2>1, <2>3, <2>4, BuiltFrom DEF PutsUp
<1> QED
  BY <1>1, <1>2, <1>3 DEF L!Lessons

\* So does what staff and exams write.
LEMMA BuiltOther ==
  ASSUME LessonInv, Built, L!Other
  PROVE  Built'
<1>1. PICK l \in 1..LastLesson : L!SetOverride(l) \/ L!StartAcademy(l) \/ L!ExamPassed(l)
  BY DEF L!Other, L!Lessons
<1>2. UNCHANGED <<city, owed, pc, req>> /\ LessonTypes
  BY <1>1 DEF L!SetOverride, L!StartAcademy, L!ExamPassed, LessonInv
<1>3. \A k \in 1..LastLesson : Worked(k) => Worked(k)'
  <2>1. progress[l] \in LessonRow
    BY <1>2 DEF LessonTypes
  <2>2. CASE L!SetOverride(l)
    BY <2>2 DEF L!SetOverride, Worked
  <2>3. CASE L!StartAcademy(l)
    <3> DEFINE new == [progress[l] EXCEPT !.exists = TRUE]
    <3>1. progress' = [progress EXCEPT ![l] = new]
      BY <2>3 DEF L!StartAcademy
    <3>2. new.count = progress[l].count /\ new.academy = progress[l].academy
      BY <2>1 DEF LessonRow
    <3> HIDE DEF new
    <3> QED
      BY <1>2, <3>1, <3>2, WorkStays DEF Worked
  <2>4. CASE L!ExamPassed(l)
    <3> DEFINE some == [progress[l] EXCEPT !.exists = TRUE]
               new == [some EXCEPT !.academy = TRUE]
    <3>1. progress' = [progress EXCEPT ![l] = new]
      BY <2>4 DEF L!ExamPassed
    <3>2. some \in LessonRow
      BY <2>1 DEF LessonRow
    <3>3. new.academy
      <4> HIDE DEF some
      <4> QED
        BY <3>2 DEF LessonRow
    <3> HIDE DEF new
    <3> QED
      BY <1>2, <3>1, <3>3, WorkStays
  <2> QED
    BY <1>1, <2>2, <2>3, <2>4
<1>4. /\ \A b \in city : b.lesson \in 1..LastLesson
      /\ \A s \in Requests : PutsUp(s) => req[s].lesson \in 1..LastLesson
  BY <1>2 DEF LessonTypes, Carries, PutsUp
<1>5. \A b \in city' : Worked(b.lesson)'
  BY <1>2, <1>3, <1>4 DEF Built, Worked
<1>6. \A s \in Requests : PutsUp(s)' => Worked(req[s].lesson)'
  BY <1>2, <1>3, <1>4 DEF Built, PutsUp, Worked
<1> QED
  BY <1>2, <1>5, <1>6 DEF Built, PutsUp

\* The invariant is inductive.
LEMMA LessonsNext == LessonsInv /\ [Next]_vars => LessonsInv'
<1> SUFFICES ASSUME LessonsInv, [Next]_vars PROVE LessonsInv'
  OBVIOUS
<1>1. CASE part = "lessons"
  <2>1. LessonInv /\ Built
    BY <1>1 DEF LessonsInv
  <2>2. ASSUME UNCHANGED <<progress, needed, city, certs, owed, sessions, calls, pc, req, overlapped>> PROVE LessonInv'
    <3>1. LessonTypes'
      BY <2>1, <2>2 DEF LessonInv, LessonTypes
    <3>2. LevelsReached' /\ (~ overlapped' => SessionsCounted' /\ InOrder' /\ Certified')
      BY <2>1, <2>2 DEF LessonInv, LevelsReached, SessionsCounted, InOrder, Certified, L!Completed
    <3> QED
      BY <3>1, <3>2 DEF LessonInv
  <2>3. LessonInv'
    BY <1>1, <2>1, <2>2, LessonMove, LessonStepKeeps
  <2>4. ASSUME UNCHANGED <<progress, needed, city, certs, owed, sessions, calls, pc, req, overlapped>> PROVE Built'
    BY <2>1, <2>4 DEF Built, PutsUp, Worked
  <2>5. ASSUME NEW r \in Requests, L!Step(r) PROVE Built'
    BY <2>1, <2>5, BuiltBeside, BuiltUp, BuiltBesideWrites DEF L!Step
  <2>6. Built'
    BY <1>1, <2>1, <2>4, <2>5, LessonMove, BuiltOther
  <2> QED
    BY <1>1, <2>3, <2>6, LessonMove DEF LessonsInv
<1>2. CASE part # "lessons"
  BY <1>2, LessonMove DEF LessonsInv, L!Enrolled
<1> QED
  BY <1>1, <1>2

\* THEOREM.  However many lessons and requests: as long as none was overtaken,
\* every session counts, the buildings of the city stand in a row without a gap,
\* and a certificate is issued once and for completed lessons; and whatever
\* overlaps, a lesson has one building at most and, when a session or a mentor
\* completed it last and no insertion failed, it has one once its request is
\* through (progress.service.ts:82-122, 198-207, city.service.ts:76-110).
THEOREM Lessons == Spec => []WorkCounts
<1>1. LessonsInv /\ [Next]_vars => LessonsInv'
  BY LessonsNext
<1>2. LessonsInv => WorkCounts
  <2> SUFFICES ASSUME LessonsInv PROVE WorkCounts
    OBVIOUS
  <2>1. CASE part = "lessons"
    <3>1. LessonInv /\ Built
      BY <2>1 DEF LessonsInv
    <3>2. L!CountsEverySession /\ L!OneCertificate
      BY <3>1, LessonsCounted DEF LessonInv, SessionsCounted, Certified,
        L!CountsEverySession, L!OneCertificate, L!Lessons, L!Levels
    <3>3. L!BuildingsInOrder
      BY <3>1, LessonsCounted DEF LessonInv, InOrder, Built, Worked, L!BuildingsInOrder
    <3>4. L!BuildingsFollow
      BY <3>1 DEF Built, PutsUp, L!BuildingsFollow
    <3> QED
      BY <3>2, <3>3, <3>4 DEF WorkCounts
  <2>2. CASE part # "lessons"
    <3>1. L!CountsEverySession /\ L!OneCertificate
      BY <2>2 DEF LessonsInv, L!Enrolled, L!NoRow, L!CountsEverySession, L!OneCertificate, L!Lessons, L!Levels
    <3>2. city = {} /\ owed = {} /\ L!Cardinality({}) = 0
      BY <2>2, FS_EmptySet, LessonsCounted DEF LessonsInv, L!Enrolled
    <3>3. 0..(0 - 1) = {}
      OBVIOUS
    <3>4. L!BuildingsInOrder
      BY <3>2, <3>3 DEF L!BuildingsInOrder
    <3>5. L!BuildingsFollow
      BY <3>2 DEF L!BuildingsFollow
    <3> QED
      BY <3>1, <3>4, <3>5 DEF WorkCounts
  <2> QED
    BY <2>1, <2>2
<1> QED
  BY LessonsStart, <1>1, <1>2, PTL DEF Spec

------------------------------------------------------------------------------
\* The groups of a branch and their mentors (Groups).

\* Which steps change the groups.
LEMMA GroupMove ==
  ASSUME [Next]_vars
  PROVE  /\ part' = part
         /\ part = "groups" => \/ (\E r \in Requests : G!Step(r)) \/ G!Other
                               \/ UNCHANGED <<mentorId, groupId, halfDone, edited, pc, req, overlapped>>
         /\ part # "groups" => UNCHANGED <<mentorId, groupId, halfDone, edited>>
<1>1. CASE Next
  <2>1. CASE GroupStep
    BY <2>1 DEF GroupStep
  <2> QED
    BY <1>1, <2>1 DEF Next, TaskStep, VisitStep, ColourStep, VideoStep, LessonStep, StreakStep,
      ContestStep, ChatStep, PageStep, ErasureStep, EventStep, requests, staffRows, groupRows
<1>2. CASE UNCHANGED vars
  BY <1>2 DEF vars, requests, staffRows, groupRows
<1> QED
  BY <1>1, <1>2

GroupSteps ==
  {"idle", "insert", "clearOld", "validate", "findOther", "clearOther", "setMentor", "writeGroup",
   "add", "remove", "count", "clearMentor", "delete"}

Task == [group : GroupIds, user : Mentors \union Students \union {"none"},
         old : Mentors \union {"none", "unborn"}, other : GroupIds \union {"none"},
         rows : SUBSET (GroupIds \union Mentors \union Students)]

\* Which operation a step belongs to.
OfOperation(step, q) ==
  /\ step = "insert" => q.user \in Mentors \union {"none"} /\ q.old = "unborn"
  /\ step \in {"clearOld", "writeGroup"} =>
       q.user \in Mentors \union {"none"} /\ q.old \in Mentors \union {"none"} /\ q.user # q.old
  /\ step = "validate" => q.user \in Mentors /\ q.old \in Mentors \union {"none"} /\ q.user # q.old
  /\ step \in {"findOther", "clearOther", "setMentor"} => q.user \in Mentors /\ q.user # q.old
  /\ step = "clearOther" => q.other \in GroupIds
  /\ step \in {"add", "remove"} => q.user \in Students /\ q.old \in Mentors \union {"none"}
  /\ step \in {"count", "clearMentor", "delete"} => q.user = "none" /\ q.old \in Mentors \union {"none"}

GroupTypes ==
  /\ mentorId \in [GroupIds -> Mentors \union {"none", "unborn", "deleted"}]
  /\ groupId \in [Mentors \union Students -> GroupIds \union {"none"}]
  /\ overlapped \in BOOLEAN /\ halfDone \in BOOLEAN /\ edited \in SUBSET (Mentors \union Students)
  /\ pc \in [Requests -> GroupSteps] /\ req = [r \in Requests |-> req[r]]
  /\ \A r \in Requests :
       /\ pc[r] = "idle" => req[r].rows = {}
       /\ pc[r] # "idle" => req[r] \in Task /\ OfOperation(pc[r], req[r])

\* Requests that do not overlap have rows of their own, the group of each stands,
\* and a group that is being deleted has no students but those edited into it.
Standing ==
  /\ \A r, q \in Requests : r # q => req[r].rows \intersect req[q].rows = {}
  /\ \A r \in Requests : pc[r] # "idle" => {req[r].group, req[r].user, req[r].old} \ {"none", "unborn"} \subseteq req[r].rows
  /\ \A r \in Requests : pc[r] \notin {"idle", "insert"} => mentorId[req[r].group] \notin {"unborn", "deleted"}
  /\ \A r \in Requests : pc[r] = "insert" => mentorId[req[r].group] = "unborn"
  /\ \A r \in Requests : pc[r] \in {"clearMentor", "delete"} => \A s \in Students \ edited : groupId[s] # req[r].group
  /\ \A s \in Students \ edited : groupId[s] # "none" => mentorId[groupId[s]] \notin {"unborn", "deleted"}

\* The mentors that a request has taken from their group, and has given one.
Leaves(r, m) ==
  /\ pc[r] \in {"validate", "findOther", "clearOther", "setMentor", "writeGroup", "delete"}
  /\ m = req[r].old

Joins(r, m) ==
  /\ \/ pc[r] \in {"setMentor", "writeGroup"}
     \/ pc[r] \in {"findOther", "clearOther"} /\ req[r].old = "unborn"
  /\ m = req[r].user

\* A mentor leads one group at most, and points to it unless he was edited.
NamesEachOther(m) ==
  /\ \A g, h \in GroupIds : mentorId[g] = m /\ mentorId[h] = m => g = h
  /\ m \notin edited => \A g \in GroupIds : mentorId[g] = m <=> groupId[m] = g

\* Mentors nobody works on and their groups name each other.
Settled ==
  \A m \in Mentors : (\A r \in Requests : ~ Leaves(r, m) /\ ~ Joins(r, m)) => NamesEachOther(m)

\* What a request has done so far.
HalfWay(r) ==
  LET q == req[r]
      LeadsNoOther(m) == \A g \in GroupIds \ {q.group} : mentorId[g] # m
  IN /\ pc[r] \notin {"idle", "insert"} => mentorId[q.group] = IF q.old = "unborn" THEN q.user ELSE q.old
     /\ q.old \in Mentors /\ Leaves(r, q.old) => (q.old \in edited \/ groupId[q.old] = "none") /\ LeadsNoOther(q.old)
     /\ pc[r] \in {"findOther", "clearOther"} /\ q.old = "unborn" =>
          \A g, h \in GroupIds \ {q.group} : mentorId[g] = q.user /\ mentorId[h] = q.user => g = h
     /\ pc[r] = "clearOther" => q.other # q.group /\ mentorId[q.other] = q.user
     /\ pc[r] = "setMentor" => LeadsNoOther(q.user)
     /\ pc[r] = "writeGroup" /\ q.user \in Mentors => (q.user \in edited \/ groupId[q.user] = q.group) /\ LeadsNoOther(q.user)

GroupInv ==
  /\ GroupTypes
  /\ ~ overlapped => Standing
  /\ ~ overlapped /\ ~ halfDone => Settled /\ \A r \in Requests : pc[r] # "idle" => HalfWay(r)

GroupsInv == IF part = "groups" THEN GroupInv ELSE G!Empty

\* The day begins with the groups as they stood.
LEMMA GroupsStart == Init => GroupsInv
<1> SUFFICES ASSUME Init PROVE GroupsInv
  OBVIOUS
<1>1. G!Empty
  BY DEF Init
<1>2. ASSUME part = "groups" PROVE GroupInv
  <2>1. pc = [r \in Requests |-> "idle"] /\ req = [r \in Requests |-> [rows |-> {}]] /\ overlapped = FALSE
    BY <1>2 DEF Init, G!NoReq
  <2>2. mentorId = [g \in GroupIds |-> "unborn"] /\ groupId = [u \in Mentors \union Students |-> "none"] /\ halfDone = FALSE /\ edited = {}
    BY <1>1 DEF G!Empty, G!Users
  <2>3. GroupTypes
    BY <2>1, <2>2 DEF GroupTypes, GroupSteps
  <2>4. Standing
    BY <2>1, <2>2 DEF Standing
  <2>5. Settled
    BY <2>2, BranchDayAssumption DEF Settled, NamesEachOther
  <2> QED
    BY <2>1, <2>3, <2>4, <2>5 DEF GroupInv
<1> QED
  BY <1>1, <1>2 DEF GroupsInv

\* What the rows of a request keep from the others.
LEMMA OwnRows ==
  ASSUME GroupTypes, Standing, NEW r \in Requests, NEW q \in Requests, r # q,
         pc[r] # "idle", pc[q] # "idle"
  PROVE  /\ req[r].group # req[q].group
         /\ \A m \in Mentors : m \in {req[r].user, req[r].old} => m \notin {req[q].user, req[q].old}
<1>1. /\ req[r].group \in req[r].rows /\ req[q].group \in req[q].rows
      /\ \A m \in Mentors : /\ m \in {req[r].user, req[r].old} => m \in req[r].rows
                            /\ m \in {req[q].user, req[q].old} => m \in req[q].rows
  BY BranchDayAssumption DEF GroupTypes, Standing, Task
<1>2. req[r].rows \intersect req[q].rows = {}
  BY DEF Standing
<1> QED
  BY <1>1, <1>2

\* A step of a request that goes on, or returns.
GoesOn(r) ==
  /\ \A q \in Requests : q # r => pc'[q] = pc[q] /\ req'[q] = req[q]
  /\ \/ pc'[r] = "idle" /\ req'[r].rows = {}
     \/ /\ pc'[r] \notin {"idle", "insert"}
        /\ req'[r].group = req[r].group /\ req'[r].user = req[r].user
        /\ req'[r].old = req[r].old /\ req'[r].rows = req[r].rows

\* It writes rows of its own, and takes a mentor from another group.
LEMMA StandingKept ==
  ASSUME GroupTypes, Standing, NEW r \in Requests, pc[r] # "idle", GoesOn(r),
         \A g \in GroupIds : g # req[r].group /\ mentorId'[g] # mentorId[g] =>
           mentorId[g] \notin {"unborn", "deleted"} /\ mentorId'[g] \notin {"unborn", "deleted"},
         pc'[r] # "idle" => mentorId'[req[r].group] \notin {"unborn", "deleted"},
         \/ mentorId'[req[r].group] \notin {"unborn", "deleted"}
         \/ \A s \in Students \ edited : groupId[s] # req[r].group,
         \A s \in Students \ edited' : s \in edited \/ groupId'[s] # groupId[s] =>
           \/ groupId'[s] = "none"
           \/ groupId'[s] = req[r].group /\ mentorId'[req[r].group] \notin {"unborn", "deleted"}
              /\ pc'[r] = "idle",
         groupId' \in [Mentors \union Students -> GroupIds \union {"none"}],
         pc'[r] \in {"clearMentor", "delete"} => \A s \in Students \ edited' : groupId'[s] # req[r].group
  PROVE  Standing'
<1>1. req[r] \in Task /\ \A q \in Requests : pc[q] # "idle" => req[q] \in Task
  BY DEF GroupTypes
<1>2. \A s, q \in Requests : s # q => req'[s].rows \intersect req'[q].rows = {}
  BY DEF GoesOn, Standing
<1>3. \A q \in Requests : pc'[q] # "idle" =>
        {req'[q].group, req'[q].user, req'[q].old} \ {"none", "unborn"} \subseteq req'[q].rows
  <2>1. SUFFICES ASSUME NEW q \in Requests, pc'[q] # "idle"
                 PROVE  {req'[q].group, req'[q].user, req'[q].old} \ {"none", "unborn"} \subseteq req'[q].rows
    OBVIOUS
  <2>2. CASE q = r
    <3>1. req'[r].group = req[r].group /\ req'[r].user = req[r].user /\ req'[r].old = req[r].old /\ req'[r].rows = req[r].rows
      BY <2>1, <2>2 DEF GoesOn
    <3> QED
      BY <2>2, <3>1 DEF Standing
  <2>3. CASE q # r
    BY <2>1, <2>3 DEF GoesOn, Standing
  <2> QED
    BY <2>2, <2>3
<1>4. \A q \in Requests : q # r /\ pc[q] # "idle" => req[q].group # req[r].group /\ req[q].group \in GroupIds
  BY <1>1, OwnRows DEF Task
<1>5. \A q \in Requests : pc'[q] \notin {"idle", "insert"} => mentorId'[req'[q].group] \notin {"unborn", "deleted"}
  BY <1>4 DEF GoesOn, Standing
<1>6. \A q \in Requests : pc'[q] = "insert" => mentorId'[req'[q].group] = "unborn"
  BY <1>4 DEF GoesOn, Standing
<1>7. \A q \in Requests : pc'[q] \in {"clearMentor", "delete"} => \A s \in Students \ edited' : groupId'[s] # req'[q].group
  <2>1. SUFFICES ASSUME NEW q \in Requests, pc'[q] \in {"clearMentor", "delete"}, NEW s \in Students \ edited'
                 PROVE  groupId'[s] # req'[q].group
    OBVIOUS
  <2>2. CASE q = r
    BY <2>1, <2>2 DEF GoesOn
  <2>3. CASE q # r
    <3>1. req'[q] = req[q] /\ pc[q] \in {"clearMentor", "delete"} /\ (s \in edited \/ groupId[s] # req[q].group)
      BY <2>1, <2>3 DEF GoesOn, Standing
    <3>2. req[q].group # "none"
      BY <1>4, <2>3, <3>1, BranchDayAssumption
    <3> QED
      BY <1>4, <2>3, <3>1, <3>2
  <2> QED
    BY <2>2, <2>3
<1>8. \A s \in Students \ edited' : groupId'[s] # "none" => mentorId'[groupId'[s]] \notin {"unborn", "deleted"}
  <2>1. SUFFICES ASSUME NEW s \in Students \ edited', groupId'[s] # "none"
                 PROVE  mentorId'[groupId'[s]] \notin {"unborn", "deleted"}
    OBVIOUS
  <2>2. CASE s \notin edited /\ groupId'[s] = groupId[s]
    <3>1. groupId[s] \in GroupIds /\ mentorId[groupId[s]] \notin {"unborn", "deleted"}
      BY <2>1, <2>2 DEF GroupTypes, Standing
    <3> QED
      BY <2>2, <3>1
  <2>3. CASE s \in edited \/ groupId'[s] # groupId[s]
    BY <2>1, <2>3
  <2> QED
    BY <2>2, <2>3
<1> QED
  BY <1>2, <1>3, <1>5, <1>6, <1>7, <1>8 DEF Standing

AllHalfWay == \A r \in Requests : pc[r] # "idle" => HalfWay(r)

\* A mentor a request has not touched yet is settled.
LEMMA OwnSettled ==
  ASSUME GroupTypes, Standing, Settled, NEW r \in Requests, pc[r] # "idle",
         NEW m \in Mentors, m \in {req[r].user, req[r].old}, ~ Leaves(r, m), ~ Joins(r, m)
  PROVE  NamesEachOther(m)
<1>1. \A q \in Requests : q # r /\ pc[q] # "idle" => m \notin {req[q].user, req[q].old}
  BY OwnRows
<1>2. \A q \in Requests : ~ Leaves(q, m) /\ ~ Joins(q, m)
  BY <1>1 DEF Leaves, Joins
<1> QED
  BY <1>2 DEF Settled

\* A write that only touches what its own request reads leaves the other requests half way and the settled groups settled.
LEMMA CalmKept ==
  ASSUME GroupTypes, Standing, Settled, AllHalfWay,
         NEW r \in Requests, pc[r] # "idle", GoesOn(r),
         \A g \in GroupIds : mentorId'[g] # mentorId[g] =>
           /\ g = req[r].group \/ (mentorId[g] = req[r].user /\ req[r].user \in Mentors)
           /\ mentorId'[g] \in {req[r].user, "none", "deleted"},
         \A m \in Mentors : m \notin {req[r].user, req[r].old} =>
           groupId'[m] = groupId[m] /\ (m \in edited' <=> m \in edited),
         pc'[r] # "idle" => HalfWay(r)',
         \A m \in Mentors : m \in {req[r].user, req[r].old} /\ ~ Leaves(r, m)' /\ ~ Joins(r, m)' => NamesEachOther(m)'
  PROVE  Settled' /\ AllHalfWay'
<1>1. mentorId[req[r].group] \notin Mentors \ {req[r].user, req[r].old} /\ req[r] \in Task
  <2>1. CASE pc[r] = "insert"
    BY <2>1, BranchDayAssumption DEF Standing, GroupTypes
  <2>2. CASE pc[r] # "insert"
    BY <2>2 DEF AllHalfWay, HalfWay, GroupTypes
  <2> QED
    BY <2>1, <2>2
<1>2. ASSUME NEW m \in Mentors, m \notin {req[r].user, req[r].old}
      PROVE  /\ \A g \in GroupIds : mentorId'[g] = m <=> mentorId[g] = m
             /\ groupId'[m] = groupId[m] /\ (m \in edited' <=> m \in edited)
  BY <1>1, <1>2, BranchDayAssumption
<1>3. ASSUME NEW q \in Requests, q # r, pc[q] # "idle"
      PROVE  HalfWay(q)'
  <2>1. pc'[q] = pc[q] /\ req'[q] = req[q] /\ HalfWay(q) /\ req[q] \in Task /\ OfOperation(pc[q], req[q])
    BY <1>3 DEF GoesOn, AllHalfWay, GroupTypes
  <2>2. req[q].group # req[r].group
        /\ \A m \in Mentors : m \in {req[q].user, req[q].old} => m \notin {req[r].user, req[r].old}
    BY <1>3, OwnRows
  <2>3. \A m \in Mentors : m \in {req[q].user, req[q].old} =>
          /\ \A g \in GroupIds : mentorId'[g] = m <=> mentorId[g] = m
          /\ groupId'[m] = groupId[m] /\ (m \in edited' <=> m \in edited)
    BY <1>2, <2>2
  <2>4. pc[q] \notin {"idle", "insert"} => mentorId'[req[q].group] = mentorId[req[q].group]
    <3>1. SUFFICES ASSUME pc[q] \notin {"idle", "insert"}, mentorId'[req[q].group] # mentorId[req[q].group]
                   PROVE  FALSE
      OBVIOUS
    <3>2. mentorId[req[q].group] = req[r].user /\ req[r].user \in Mentors
      BY <2>1, <2>2, <3>1 DEF Task
    <3>3. mentorId[req[q].group] \in {req[q].user, req[q].old}
      BY <2>1, <3>1 DEF HalfWay
    <3> QED
      BY <2>2, <3>2, <3>3
  <2>5. pc[q] \notin {"idle", "insert"} =>
          mentorId'[req'[q].group] = IF req'[q].old = "unborn" THEN req'[q].user ELSE req'[q].old
    BY <2>1, <2>4 DEF HalfWay
  <2>6. req'[q].old \in Mentors /\ Leaves(q, req[q].old)' =>
          /\ req'[q].old \in edited' \/ groupId'[req'[q].old] = "none"
          /\ \A g \in GroupIds \ {req'[q].group} : mentorId'[g] # req'[q].old
    BY <2>1, <2>3 DEF HalfWay, Leaves
  <2>7. pc'[q] \in {"findOther", "clearOther", "setMentor"} => req[q].user \in Mentors
    BY <2>1 DEF OfOperation
  <2>8. pc'[q] \in {"findOther", "clearOther"} /\ req'[q].old = "unborn" =>
          \A g, h \in GroupIds \ {req'[q].group} : mentorId'[g] = req'[q].user /\ mentorId'[h] = req'[q].user => g = h
    BY <2>1, <2>3, <2>7 DEF HalfWay
  <2>9. pc'[q] = "clearOther" => req'[q].other # req'[q].group /\ mentorId'[req'[q].other] = req'[q].user
    BY <2>1, <2>3, <2>7 DEF HalfWay, OfOperation
  <2>10. pc'[q] = "setMentor" => \A g \in GroupIds \ {req'[q].group} : mentorId'[g] # req'[q].user
    BY <2>1, <2>3, <2>7 DEF HalfWay
  <2>11. pc'[q] = "writeGroup" /\ req'[q].user \in Mentors =>
           /\ req'[q].user \in edited' \/ groupId'[req'[q].user] = req'[q].group
           /\ \A g \in GroupIds \ {req'[q].group} : mentorId'[g] # req'[q].user
    BY <2>1, <2>3 DEF HalfWay
  <2> QED
    BY <2>1, <2>5, <2>6, <2>8, <2>9, <2>10, <2>11 DEF HalfWay, Leaves
<1>4. AllHalfWay'
  BY <1>3 DEF AllHalfWay, GoesOn
<1>5. Settled'
  <2>1. SUFFICES ASSUME NEW m \in Mentors, \A q \in Requests : ~ Leaves(q, m)' /\ ~ Joins(q, m)'
                 PROVE  NamesEachOther(m)'
    BY DEF Settled
  <2>2. CASE m \in {req[r].user, req[r].old}
    BY <2>1, <2>2
  <2>3. CASE m \notin {req[r].user, req[r].old}
    <3>1. \A q \in Requests : ~ Leaves(q, m) /\ ~ Joins(q, m)
      <4>1. ~ Leaves(r, m) /\ ~ Joins(r, m)
        BY <2>3 DEF Leaves, Joins
      <4>2. \A q \in Requests : q # r => ~ Leaves(q, m) /\ ~ Joins(q, m)
        BY <2>1 DEF Leaves, Joins, GoesOn
      <4> QED
        BY <4>1, <4>2
    <3>2. NamesEachOther(m)
      BY <3>1 DEF Settled
    <3> QED
      BY <1>2, <2>3, <3>2 DEF NamesEachOther
  <2> QED
    BY <2>2, <2>3
<1> QED
  BY <1>4, <1>5

\* A request begins: nothing is written, and if it overlaps no other its rows are its own.
LEMMA GroupBegins ==
  ASSUME GroupInv, NEW r \in Requests, NEW step \in {"insert", "clearOld", "add", "remove", "count"},
         NEW g \in GroupIds, NEW u \in Mentors \union Students \union {"none"},
         G!Begin(r, step, g, u),
         IF step = "insert" THEN mentorId[g] = "unborn" ELSE mentorId[g] \notin {"unborn", "deleted"},
         step \in {"insert", "clearOld"} => u \in Mentors \union {"none"},
         step = "clearOld" => u # mentorId[g],
         step \in {"add", "remove"} => u \in Students,
         step = "count" => u = "none"
  PROVE  GroupInv'
<1> DEFINE rows == G!Rows(g, u) \ {"none", "unborn"}
           new == [group |-> g, user |-> u, old |-> mentorId[g], other |-> "none", rows |-> rows]
<1>1. /\ pc[r] = "idle" /\ pc' = [pc EXCEPT ![r] = step] /\ req' = [req EXCEPT ![r] = new]
      /\ overlapped' = (overlapped \/ \E q \in Requests \ {r} : req[q].rows \intersect rows # {})
      /\ mentorId' = mentorId /\ groupId' = groupId /\ halfDone' = halfDone /\ edited' = edited
  BY DEF G!Begin, G!state
<1>2. mentorId[g] \in Mentors \union {"none", "unborn"} /\ GroupTypes
  BY DEF GroupInv, GroupTypes
<1>3. rows \in SUBSET (GroupIds \union Mentors \union Students)
  BY <1>2 DEF G!Rows
<1>4. new \in Task /\ OfOperation(step, new)
  <2>1. new \in Task
    BY <1>2, <1>3 DEF Task
  <2>2. OfOperation(step, new)
    BY <1>2, <1>3 DEF OfOperation
  <2> QED
    BY <2>1, <2>2
<1> HIDE DEF new
<1>5. /\ pc'[r] = step /\ req'[r] = new
      /\ \A q \in Requests : q # r => pc'[q] = pc[q] /\ req'[q] = req[q]
  BY <1>1, <1>2 DEF GroupTypes
<1>6. GroupTypes'
  <2>1. pc' \in [Requests -> GroupSteps] /\ req' = [q \in Requests |-> req'[q]]
    BY <1>1, <1>2 DEF GroupTypes, GroupSteps
  <2>2. overlapped' \in BOOLEAN
    BY <1>1, <1>2 DEF GroupTypes
  <2>3. \A q \in Requests : /\ pc'[q] = "idle" => req'[q].rows = {}
                            /\ pc'[q] # "idle" => req'[q] \in Task /\ OfOperation(pc'[q], req'[q])
    BY <1>2, <1>4, <1>5 DEF GroupTypes
  <2> QED
    BY <1>1, <1>2, <2>1, <2>2, <2>3 DEF GroupTypes
<1>7. new.group = g /\ new.user = u /\ new.old = mentorId[g] /\ new.rows = rows
  BY DEF new
<1>8. ASSUME ~ overlapped' PROVE Standing'
  <2>1. Standing /\ \A q \in Requests \ {r} : req[q].rows \intersect rows = {}
    BY <1>1, <1>8 DEF GroupInv
  <2>2. \A p, q \in Requests : p # q => req'[p].rows \intersect req'[q].rows = {}
    BY <1>5, <1>7, <2>1 DEF Standing
  <2>3. {g, u, mentorId[g]} \ {"none", "unborn"} \subseteq rows
    BY DEF G!Rows
  <2>4. \A q \in Requests : pc'[q] # "idle" =>
          {req'[q].group, req'[q].user, req'[q].old} \ {"none", "unborn"} \subseteq req'[q].rows
    BY <1>5, <1>7, <2>1, <2>3 DEF Standing
  <2>5. \A q \in Requests : pc'[q] \notin {"idle", "insert"} => mentorId'[req'[q].group] \notin {"unborn", "deleted"}
    BY <1>1, <1>5, <1>7, <2>1 DEF Standing
  <2>6. \A q \in Requests : pc'[q] = "insert" => mentorId'[req'[q].group] = "unborn"
    BY <1>1, <1>5, <1>7, <2>1 DEF Standing
  <2>7. \A q \in Requests : pc'[q] \in {"clearMentor", "delete"} => \A s \in Students \ edited' : groupId'[s] # req'[q].group
    BY <1>1, <1>5, <2>1 DEF Standing
  <2> QED
    BY <1>1, <2>1, <2>2, <2>4, <2>5, <2>6, <2>7 DEF Standing
<1>9. ASSUME ~ overlapped', ~ halfDone' PROVE Settled' /\ \A q \in Requests : pc'[q] # "idle" => HalfWay(q)'
  <2>1. Settled /\ \A q \in Requests : pc[q] # "idle" => HalfWay(q)
    BY <1>1, <1>9 DEF GroupInv
  <2>2. \A q \in Requests, m \in Mentors : (Leaves(q, m)' <=> Leaves(q, m)) /\ (Joins(q, m)' <=> Joins(q, m))
    BY <1>1, <1>5 DEF Leaves, Joins
  <2>3. Settled'
    BY <1>1, <2>1, <2>2 DEF Settled, NamesEachOther
  <2>4. HalfWay(r)'
    BY <1>1, <1>2, <1>5, <1>7, BranchDayAssumption DEF HalfWay, Leaves
  <2>5. \A q \in Requests : q # r /\ pc'[q] # "idle" => HalfWay(q)'
    BY <1>1, <1>5, <2>1 DEF HalfWay, Leaves
  <2> QED
    BY <2>3, <2>4, <2>5
<1> QED
  BY <1>6, <1>8, <1>9 DEF GroupInv

\* A request goes on with what it carries, or returns.
LEMMA GroupPasses ==
  ASSUME GroupTypes, NEW r \in Requests, pc[r] # "idle", NEW step \in GroupSteps \ {"insert"},
         pc' = [pc EXCEPT ![r] = step], overlapped' = overlapped,
         \/ step = "idle" /\ req' = [req EXCEPT ![r] = [rows |-> {}]]
         \/ step # "idle" /\ req' = req /\ OfOperation(step, req[r]),
         mentorId' \in [GroupIds -> Mentors \union {"none", "unborn", "deleted"}],
         groupId' \in [Mentors \union Students -> GroupIds \union {"none"}],
         halfDone' \in BOOLEAN, edited' \in SUBSET (Mentors \union Students)
  PROVE  GroupTypes' /\ GoesOn(r) /\ pc'[r] = step /\ (step # "idle" => req'[r] = req[r])
<1>1. /\ pc'[r] = step /\ req' = [q \in Requests |-> req'[q]]
      /\ \A q \in Requests : q # r => pc'[q] = pc[q] /\ req'[q] = req[q]
  BY DEF GroupTypes
<1>2. IF step = "idle" THEN req'[r].rows = {} ELSE req'[r] = req[r]
  BY DEF GroupTypes
<1>3. \A q \in Requests : /\ pc'[q] = "idle" => req'[q].rows = {}
                          /\ pc'[q] # "idle" => req'[q] \in Task /\ OfOperation(pc'[q], req'[q])
  BY <1>1, <1>2 DEF GroupTypes
<1>4. GroupTypes'
  BY <1>1, <1>3 DEF GroupTypes
<1>5. GoesOn(r)
  BY <1>1, <1>2 DEF GoesOn
<1> QED
  BY <1>1, <1>2, <1>4, <1>5

\* A group is inserted with its mentor.
LEMMA GroupCreateInsertsKeeps ==
  ASSUME GroupInv, NEW r \in Requests, G!CreateInserts(r)
  PROVE  GroupInv'
<1> DEFINE m == req[r].user
           g == req[r].group
<1>1. /\ pc[r] = "insert" /\ mentorId' = [mentorId EXCEPT ![g] = m]
      /\ groupId' = groupId /\ halfDone' = halfDone /\ edited' = edited /\ overlapped' = overlapped
      /\ IF m = "none" THEN pc' = [pc EXCEPT ![r] = "idle"] /\ req' = [req EXCEPT ![r] = [rows |-> {}]]
         ELSE pc' = [pc EXCEPT ![r] = "findOther"] /\ req' = req
  BY DEF G!CreateInserts, G!Return, G!Goto, G!NoReq
<1>2. GroupTypes /\ g \in GroupIds /\ m \in Mentors \union {"none"} /\ req[r].old = "unborn"
  BY <1>1 DEF GroupInv, GroupTypes, Task, OfOperation
<1>3. GroupTypes' /\ GoesOn(r) /\ (IF m = "none" THEN pc'[r] = "idle" ELSE pc'[r] = "findOther" /\ req'[r] = req[r])
  <2>1. mentorId' \in [GroupIds -> Mentors \union {"none", "unborn", "deleted"}]
    BY <1>1, <1>2 DEF GroupTypes
  <2>2. groupId' \in [Mentors \union Students -> GroupIds \union {"none"}] /\ halfDone' \in BOOLEAN
        /\ edited' \in SUBSET (Mentors \union Students)
    BY <1>1, <1>2 DEF GroupTypes
  <2>3. CASE m = "none"
    BY <1>1, <1>2, <2>1, <2>2, <2>3, GroupPasses DEF GroupSteps
  <2>4. CASE m # "none"
    <3>1. OfOperation("findOther", req[r]) /\ "findOther" \in GroupSteps
      BY <1>2, <2>4, BranchDayAssumption DEF OfOperation, GroupSteps
    <3> QED
      BY <1>1, <1>2, <2>1, <2>2, <2>4, <3>1, GroupPasses
  <2> QED
    BY <2>3, <2>4
<1>4. mentorId'[g] = m /\ \A h \in GroupIds : h # g => mentorId'[h] = mentorId[h]
  BY <1>1, <1>2 DEF GroupTypes
<1>5. m \notin {"unborn", "deleted"}
  BY <1>2, BranchDayAssumption
<1>6. ASSUME ~ overlapped PROVE Standing'
  <2>1. Standing
    BY <1>6 DEF GroupInv
  <2> QED
    BY <1>1, <1>2, <1>3, <1>4, <1>5, <2>1, StandingKept DEF GroupTypes
<1>7. ASSUME ~ overlapped, ~ halfDone' PROVE Settled' /\ AllHalfWay'
  <2>1. Standing /\ Settled /\ AllHalfWay
    BY <1>1, <1>7 DEF GroupInv, AllHalfWay
  <2>2. mentorId[g] = "unborn"
    BY <1>1, <2>1 DEF Standing
  <2>3. pc'[r] # "idle" => HalfWay(r)'
    <3>1. SUFFICES ASSUME pc'[r] # "idle" PROVE HalfWay(r)'
      OBVIOUS
    <3>2. pc'[r] = "findOther" /\ req'[r] = req[r] /\ m \in Mentors
      BY <1>2, <1>3, <3>1
    <3>3. NamesEachOther(m)
      BY <1>1, <1>2, <2>1, <3>2, OwnSettled DEF Leaves, Joins
    <3>4. \A h, k \in GroupIds \ {g} : mentorId[h] = m /\ mentorId[k] = m => h = k
      BY <3>3 DEF NamesEachOther
    <3> QED
      BY <1>1, <1>2, <1>4, <3>2, <3>4, BranchDayAssumption DEF HalfWay, Leaves
  <2>4. \A n \in Mentors : n \in {req[r].user, req[r].old} /\ ~ Leaves(r, n)' /\ ~ Joins(r, n)' => NamesEachOther(n)'
    BY <1>2, <1>3, BranchDayAssumption DEF Joins
  <2> QED
    BY <1>1, <1>2, <1>3, <1>4, <2>1, <2>3, <2>4, CalmKept
<1> QED
  BY <1>1, <1>3, <1>6, <1>7 DEF GroupInv, AllHalfWay

\* An update clears the group of the mentor who led it, and goes on to the new one if any.
LEMMA GroupUpdateClearsOldKeeps ==
  ASSUME GroupInv, NEW r \in Requests, G!UpdateClearsOld(r)
  PROVE  GroupInv'
<1> DEFINE m == req[r].user
           old == req[r].old
           step == IF m = "none" THEN "writeGroup" ELSE "validate"
<1>1. /\ pc[r] = "clearOld" /\ pc' = [pc EXCEPT ![r] = step] /\ req' = req
      /\ groupId' = IF old = "none" THEN groupId ELSE [groupId EXCEPT ![old] = "none"]
      /\ edited' = edited \ {old}
      /\ mentorId' = mentorId /\ halfDone' = halfDone /\ overlapped' = overlapped
  BY DEF G!UpdateClearsOld, G!Goto, G!WriteUser
<1>2. GroupTypes /\ req[r].group \in GroupIds /\ {m, old} \subseteq Mentors \union {"none"} /\ m # old
  BY <1>1 DEF GroupInv, GroupTypes, Task, OfOperation
<1>3. GroupTypes' /\ GoesOn(r) /\ pc'[r] = step /\ req'[r] = req[r]
  <2>1. mentorId' \in [GroupIds -> Mentors \union {"none", "unborn", "deleted"}] /\ halfDone' \in BOOLEAN
    BY <1>1, <1>2 DEF GroupTypes
  <2>2. groupId' \in [Mentors \union Students -> GroupIds \union {"none"}]
        /\ edited' \in SUBSET (Mentors \union Students)
    BY <1>1, <1>2 DEF GroupTypes
  <2>3. OfOperation(step, req[r]) /\ step \in GroupSteps \ {"insert", "idle"}
    BY <1>2 DEF OfOperation, GroupSteps
  <2>4. pc[r] # "idle" /\ step # "idle"
    BY <1>1
  <2> HIDE DEF step
  <2> QED
    BY <1>1, <1>2, <2>1, <2>2, <2>3, <2>4, GroupPasses
<1>4. /\ old # "none" => groupId'[old] = "none"
      /\ \A u \in Mentors \union Students : u # old => groupId'[u] = groupId[u] /\ (u \in edited' <=> u \in edited)
  BY <1>1, <1>2 DEF GroupTypes
<1>5. ASSUME ~ overlapped PROVE Standing'
  <2>1. Standing /\ mentorId'[req[r].group] \notin {"unborn", "deleted"}
    BY <1>1, <1>5 DEF GroupInv, Standing
  <2>2. \A s \in Students : groupId'[s] = groupId[s] /\ (s \in edited' <=> s \in edited)
    BY <1>2, <1>4, BranchDayAssumption
  <2> QED
    BY <1>1, <1>2, <1>3, <2>1, <2>2, StandingKept DEF GroupTypes
<1>6. ASSUME ~ overlapped, ~ halfDone' PROVE Settled' /\ AllHalfWay'
  <2>1. Standing /\ Settled /\ AllHalfWay
    BY <1>1, <1>6 DEF GroupInv, AllHalfWay
  <2>2. old # "unborn"
    BY <1>2, BranchDayAssumption
  <2>3. mentorId[req[r].group] = old
    <3>1. HalfWay(r)
      BY <1>1, <2>1 DEF AllHalfWay
    <3> QED
      BY <1>1, <2>2, <3>1 DEF HalfWay
  <2>4. \A n \in Mentors : n \in {m, old} => NamesEachOther(n)
    BY <1>1, <1>2, <2>1, OwnSettled DEF Leaves, Joins
  <2>5. old \in Mentors => groupId'[old] = "none" /\ \A h \in GroupIds \ {req[r].group} : mentorId[h] # old
    BY <1>2, <1>4, <2>3, <2>4, BranchDayAssumption DEF NamesEachOther
  <2>6. HalfWay(r)'
    BY <1>1, <1>2, <1>3, <2>2, <2>3, <2>5, BranchDayAssumption DEF HalfWay
  <2>7. \A n \in Mentors : n \in {m, old} /\ ~ Leaves(r, n)' /\ ~ Joins(r, n)' => NamesEachOther(n)'
    <3>1. SUFFICES ASSUME NEW n \in Mentors, n \in {m, old}, ~ Leaves(r, n)' PROVE NamesEachOther(n)'
      OBVIOUS
    <3>2. n # old
      BY <1>3, <3>1 DEF Leaves
    <3> QED
      BY <1>1, <1>4, <2>4, <3>1, <3>2 DEF NamesEachOther
  <2> QED
    BY <1>1, <1>2, <1>3, <1>4, <2>1, <2>6, <2>7, CalmKept
<1> QED
  BY <1>1, <1>3, <1>5, <1>6 DEF GroupInv, AllHalfWay

\* It looks the new mentor up; when the check fails the request ends half done.
LEMMA GroupUpdateValidatesKeeps ==
  ASSUME GroupInv, NEW r \in Requests, G!UpdateValidates(r)
  PROVE  GroupInv'
<1> DEFINE m == req[r].user
           old == req[r].old
<1>1. /\ pc[r] = "validate" /\ mentorId' = mentorId /\ groupId' = groupId /\ edited' = edited /\ overlapped' = overlapped
      /\ \/ pc' = [pc EXCEPT ![r] = "findOther"] /\ req' = req /\ halfDone' = halfDone
         \/ /\ pc' = [pc EXCEPT ![r] = "idle"] /\ req' = [req EXCEPT ![r] = [rows |-> {}]]
            /\ halfDone' = (halfDone \/ old # "none")
  BY DEF G!UpdateValidates, G!Return, G!Goto, G!NoReq
<1>2. GroupTypes /\ req[r].group \in GroupIds /\ m \in Mentors /\ old \in Mentors \union {"none"} /\ m # old
  BY <1>1 DEF GroupInv, GroupTypes, Task, OfOperation
<1>3. GroupTypes' /\ GoesOn(r)
      /\ \/ pc'[r] = "findOther" /\ req'[r] = req[r] /\ halfDone' = halfDone
         \/ pc'[r] = "idle" /\ halfDone' = (halfDone \/ old # "none")
  <2>1. OfOperation("findOther", req[r]) /\ {"findOther", "idle"} \subseteq GroupSteps \ {"insert"}
    BY <1>2 DEF OfOperation, GroupSteps
  <2> QED
    BY <1>1, <1>2, <2>1, GroupPasses DEF GroupTypes
<1>4. ASSUME ~ overlapped PROVE Standing'
  <2>1. Standing /\ mentorId'[req[r].group] \notin {"unborn", "deleted"}
    BY <1>1, <1>4 DEF GroupInv, Standing
  <2> QED
    BY <1>1, <1>2, <1>3, <2>1, StandingKept DEF GroupTypes
<1>5. ASSUME ~ overlapped, ~ halfDone' PROVE Settled' /\ AllHalfWay'
  <2>1. Standing /\ Settled /\ AllHalfWay
    BY <1>1, <1>2, <1>5 DEF GroupInv, AllHalfWay, GroupTypes
  <2>2. NamesEachOther(m) /\ HalfWay(r)
    BY <1>1, <1>2, <2>1, OwnSettled DEF Leaves, Joins, AllHalfWay
  <2>3. pc'[r] # "idle" => HalfWay(r)'
    BY <1>1, <1>2, <1>3, <2>2, BranchDayAssumption DEF HalfWay, Leaves
  <2>4. \A n \in Mentors : n \in {m, old} /\ ~ Leaves(r, n)' /\ ~ Joins(r, n)' => NamesEachOther(n)'
    <3>1. SUFFICES ASSUME NEW n \in Mentors, n \in {m, old}, ~ Leaves(r, n)' PROVE NamesEachOther(n)'
      OBVIOUS
    <3>2. n = m
      BY <1>3, <1>5, <3>1, BranchDayAssumption DEF Leaves
    <3> QED
      BY <1>1, <2>2, <3>2 DEF NamesEachOther
  <2> QED
    BY <1>1, <1>2, <1>3, <2>1, <2>3, <2>4, CalmKept
<1> QED
  BY <1>1, <1>2, <1>3, <1>4, <1>5 DEF GroupInv, AllHalfWay, GroupTypes

\* It looks for another group of the new mentor.
LEMMA GroupFindOtherKeeps ==
  ASSUME GroupInv, NEW r \in Requests, G!FindOther(r)
  PROVE  GroupInv'
<1> DEFINE m == req[r].user
           old == req[r].old
           led == {h \in GroupIds \ {req[r].group} : mentorId[h] = m}
<1>1. /\ pc[r] = "findOther"
      /\ \/ led = {} /\ pc' = [pc EXCEPT ![r] = "setMentor"] /\ req' = req
         \/ \E h \in led : req' = [req EXCEPT ![r].other = h] /\ pc' = [pc EXCEPT ![r] = "clearOther"]
      /\ mentorId' = mentorId /\ groupId' = groupId /\ halfDone' = halfDone /\ edited' = edited /\ overlapped' = overlapped
  BY DEF G!FindOther, G!Goto, G!state
<1>2. /\ GroupTypes /\ req[r] \in Task /\ req[r].group \in GroupIds
      /\ m \in Mentors /\ old \in Mentors \union {"none", "unborn"} /\ m # old
  BY <1>1 DEF GroupInv, GroupTypes, Task, OfOperation
<1> DEFINE Found ==
             /\ req'[r] \in Task /\ req'[r].group = req[r].group /\ req'[r].user = m /\ req'[r].old = old
             /\ req'[r].rows = req[r].rows
             /\ \/ pc'[r] = "setMentor" /\ led = {}
                \/ pc'[r] = "clearOther" /\ req'[r].other \in led
             /\ req' = [q \in Requests |-> req'[q]] /\ pc' \in [Requests -> GroupSteps]
             /\ \A q \in Requests : q # r => pc'[q] = pc[q] /\ req'[q] = req[q]
<1>3. Found
  <2>1. CASE led = {} /\ pc' = [pc EXCEPT ![r] = "setMentor"] /\ req' = req
    BY <1>2, <2>1 DEF GroupTypes, GroupSteps
  <2>2. ASSUME NEW h \in led, req' = [req EXCEPT ![r].other = h], pc' = [pc EXCEPT ![r] = "clearOther"]
        PROVE  Found
    <3>1. req'[r] = [req[r] EXCEPT !.other = h]
      BY <1>2, <2>2 DEF GroupTypes
    <3>2. /\ req'[r] \in Task /\ req'[r].group = req[r].group /\ req'[r].user = m /\ req'[r].old = old
          /\ req'[r].rows = req[r].rows /\ req'[r].other = h
      BY <1>2, <2>2, <3>1 DEF Task
    <3>3. /\ req' = [q \in Requests |-> req'[q]] /\ pc' \in [Requests -> GroupSteps] /\ pc'[r] = "clearOther"
          /\ \A q \in Requests : q # r => pc'[q] = pc[q] /\ req'[q] = req[q]
      BY <1>2, <2>2 DEF GroupTypes, GroupSteps
    <3> QED
      BY <2>2, <3>2, <3>3
  <2> QED
    BY <1>1, <2>1, <2>2
<1>4. GroupTypes' /\ GoesOn(r)
  <2>1. OfOperation(pc'[r], req'[r])
    BY <1>2, <1>3 DEF OfOperation
  <2>2. \A q \in Requests : /\ pc'[q] = "idle" => req'[q].rows = {}
                            /\ pc'[q] # "idle" => req'[q] \in Task /\ OfOperation(pc'[q], req'[q])
    BY <1>2, <1>3, <2>1 DEF GroupTypes
  <2> QED
    BY <1>1, <1>2, <1>3, <2>2 DEF GroupTypes, GoesOn
<1>5. ASSUME ~ overlapped PROVE Standing'
  <2>1. Standing /\ mentorId'[req[r].group] \notin {"unborn", "deleted"}
    BY <1>1, <1>5 DEF GroupInv, Standing
  <2> QED
    BY <1>1, <1>2, <1>3, <1>4, <2>1, StandingKept DEF GroupTypes
<1>6. ASSUME ~ overlapped, ~ halfDone' PROVE Settled' /\ AllHalfWay'
  <2>1. Standing /\ Settled /\ AllHalfWay /\ HalfWay(r)
    BY <1>1, <1>6 DEF GroupInv, AllHalfWay
  <2>2. pc'[r] = "setMentor" => HalfWay(r)'
    BY <1>1, <1>3, <2>1, BranchDayAssumption DEF HalfWay, Leaves
  <2>3. pc'[r] = "clearOther" => HalfWay(r)'
    <3>1. SUFFICES ASSUME pc'[r] = "clearOther" PROVE HalfWay(r)'
      OBVIOUS
    <3>2. req'[r].other # req[r].group /\ mentorId[req'[r].other] = m
      BY <1>3, <3>1
    <3> QED
      BY <1>1, <1>3, <2>1, <3>1, <3>2 DEF HalfWay, Leaves
  <2>4. \A n \in Mentors : n \in {m, old} /\ ~ Leaves(r, n)' /\ ~ Joins(r, n)' => NamesEachOther(n)'
    <3>1. SUFFICES ASSUME NEW n \in Mentors, n \in {m, old}, ~ Leaves(r, n)', ~ Joins(r, n)' PROVE NamesEachOther(n)'
      OBVIOUS
    <3>2. n = m /\ old # "unborn"
      BY <1>3, <3>1 DEF Leaves, Joins
    <3>3. NamesEachOther(m)
      BY <1>1, <1>2, <2>1, <3>2, OwnSettled DEF Leaves, Joins
    <3> QED
      BY <1>1, <3>2, <3>3 DEF NamesEachOther
  <2> QED
    BY <1>1, <1>2, <1>3, <1>4, <2>1, <2>2, <2>3, <2>4, CalmKept
<1> QED
  BY <1>1, <1>4, <1>5, <1>6 DEF GroupInv, AllHalfWay

\* It takes the new mentor from that other group.
LEMMA GroupClearOtherKeeps ==
  ASSUME GroupInv, NEW r \in Requests, G!ClearOther(r)
  PROVE  GroupInv'
<1> DEFINE m == req[r].user
           old == req[r].old
           h == req[r].other
<1>1. /\ pc[r] = "clearOther" /\ groupId' = groupId /\ edited' = edited /\ overlapped' = overlapped
      /\ IF mentorId[h] \notin {"unborn", "deleted"}
         THEN /\ mentorId' = [mentorId EXCEPT ![h] = "none"] /\ pc' = [pc EXCEPT ![r] = "setMentor"]
              /\ req' = req /\ halfDone' = halfDone
         ELSE /\ pc' = [pc EXCEPT ![r] = "idle"] /\ req' = [req EXCEPT ![r] = [rows |-> {}]]
              /\ halfDone' = TRUE /\ mentorId' = mentorId
  BY DEF G!ClearOther, G!Return, G!Goto, G!NoReq, G!Exists
<1>2. /\ GroupTypes /\ req[r].group \in GroupIds /\ h \in GroupIds
      /\ m \in Mentors /\ old \in Mentors \union {"none", "unborn"} /\ m # old
  BY <1>1 DEF GroupInv, GroupTypes, Task, OfOperation
<1>3. /\ GroupTypes' /\ GoesOn(r)
      /\ \/ pc'[r] = "setMentor" /\ req'[r] = req[r] /\ mentorId[h] \notin {"unborn", "deleted"}
         \/ pc'[r] = "idle" /\ halfDone'
  <2>1. OfOperation("setMentor", req[r]) /\ {"setMentor", "idle"} \subseteq GroupSteps \ {"insert"}
    BY <1>2 DEF OfOperation, GroupSteps
  <2>2. mentorId' \in [GroupIds -> Mentors \union {"none", "unborn", "deleted"}] /\ halfDone' \in BOOLEAN
    BY <1>1, <1>2 DEF GroupTypes
  <2> QED
    BY <1>1, <1>2, <2>1, <2>2, GroupPasses DEF GroupTypes
<1>4. \A g \in GroupIds : mentorId'[g] # mentorId[g] =>
        g = h /\ mentorId'[g] = "none" /\ mentorId[g] \notin {"unborn", "deleted"}
  BY <1>1, <1>2 DEF GroupTypes
<1>5. "none" \notin Mentors
  BY BranchDayAssumption
<1>6. ASSUME ~ overlapped PROVE Standing'
  <2>1. Standing /\ mentorId'[req[r].group] \notin {"unborn", "deleted"}
    BY <1>1, <1>2, <1>4, <1>6 DEF GroupInv, Standing
  <2> QED
    BY <1>1, <1>2, <1>3, <1>4, <2>1, StandingKept DEF GroupTypes
<1>7. ASSUME ~ overlapped, ~ halfDone' PROVE Settled' /\ AllHalfWay'
  <2>1. Standing /\ Settled /\ AllHalfWay /\ HalfWay(r) /\ pc'[r] = "setMentor"
    BY <1>1, <1>3, <1>7 DEF GroupInv, AllHalfWay, GroupTypes
  <2>2. h # req[r].group /\ mentorId[h] = m
    BY <1>1, <2>1 DEF HalfWay
  <2>3. \A g \in GroupIds \ {req[r].group} : mentorId[g] = m => g = h
    <3>1. CASE old = "unborn"
      BY <1>1, <1>2, <2>1, <2>2, <3>1 DEF HalfWay
    <3>2. CASE old # "unborn"
      BY <1>1, <1>2, <2>1, <2>2, <3>2, OwnSettled DEF Leaves, Joins, NamesEachOther
    <3> QED
      BY <3>1, <3>2
  <2>4. mentorId'[h] = "none"
    BY <1>1, <1>2, <1>3, <2>1 DEF GroupTypes
  <2>5. \A g \in GroupIds \ {req[r].group} : mentorId'[g] # m
    BY <1>2, <1>4, <1>5, <2>2, <2>3, <2>4
  <2>6. mentorId'[req[r].group] = mentorId[req[r].group]
        /\ \A g \in GroupIds \ {req[r].group} : old \in Mentors /\ mentorId[g] # old => mentorId'[g] # old
    BY <1>2, <1>4, <1>5, <2>2
  <2>7. HalfWay(r)'
    BY <1>1, <1>3, <2>1, <2>5, <2>6 DEF HalfWay, Leaves
  <2>8. \A n \in Mentors : n \in {m, old} => Leaves(r, n)' \/ Joins(r, n)'
    BY <1>3, <2>1 DEF Leaves, Joins
  <2>9. \A g \in GroupIds : mentorId'[g] # mentorId[g] => mentorId[g] = m /\ mentorId'[g] = "none"
    BY <1>4, <2>2
  <2> QED
    BY <1>1, <1>2, <1>3, <2>1, <2>7, <2>8, <2>9, CalmKept
<1> QED
  BY <1>1, <1>3, <1>6, <1>7 DEF GroupInv, AllHalfWay

\* It writes the group on the row of the new mentor.
LEMMA GroupSetMentorKeeps ==
  ASSUME GroupInv, NEW r \in Requests, G!SetMentor(r)
  PROVE  GroupInv'
<1> DEFINE m == req[r].user
           old == req[r].old
           g == req[r].group
<1>1. /\ pc[r] = "setMentor"
      /\ groupId' = (IF m = "none" THEN groupId ELSE [groupId EXCEPT ![m] = g]) /\ edited' = edited \ {m}
      /\ IF old = "unborn" THEN pc' = [pc EXCEPT ![r] = "idle"] /\ req' = [req EXCEPT ![r] = [rows |-> {}]]
         ELSE pc' = [pc EXCEPT ![r] = "writeGroup"] /\ req' = req
      /\ mentorId' = mentorId /\ halfDone' = halfDone /\ overlapped' = overlapped
  BY DEF G!SetMentor, G!WriteUser, G!Return, G!Goto, G!NoReq
<1>2. /\ GroupTypes /\ g \in GroupIds /\ m \in Mentors /\ old \in Mentors \union {"none", "unborn"} /\ m # old
      /\ m # "none"
  BY <1>1, BranchDayAssumption DEF GroupInv, GroupTypes, Task, OfOperation
<1>3. /\ GroupTypes' /\ GoesOn(r)
      /\ IF old = "unborn" THEN pc'[r] = "idle" ELSE pc'[r] = "writeGroup" /\ req'[r] = req[r]
  <2>1. groupId' \in [Mentors \union Students -> GroupIds \union {"none"}]
        /\ edited' \in SUBSET (Mentors \union Students)
    BY <1>1, <1>2 DEF GroupTypes
  <2>2. CASE old = "unborn"
    <3>1. "idle" \in GroupSteps \ {"insert"}
      BY DEF GroupSteps
    <3> QED
      BY <1>1, <1>2, <2>1, <2>2, <3>1, GroupPasses DEF GroupTypes
  <2>3. CASE old # "unborn"
    <3>1. OfOperation("writeGroup", req[r]) /\ "writeGroup" \in GroupSteps \ {"insert", "idle"}
      BY <1>2, <2>3 DEF OfOperation, GroupSteps
    <3> QED
      BY <1>1, <1>2, <2>1, <2>3, <3>1, GroupPasses DEF GroupTypes
  <2> QED
    BY <2>2, <2>3
<1>4. /\ groupId'[m] = g
      /\ \A u \in Mentors \union Students : u # m => groupId'[u] = groupId[u] /\ (u \in edited' <=> u \in edited)
  BY <1>1, <1>2 DEF GroupTypes
<1>5. ASSUME ~ overlapped PROVE Standing'
  <2>1. Standing /\ mentorId'[g] \notin {"unborn", "deleted"}
    BY <1>1, <1>5 DEF GroupInv, Standing
  <2>2. \A s \in Students : groupId'[s] = groupId[s] /\ (s \in edited' <=> s \in edited)
    BY <1>2, <1>4, BranchDayAssumption
  <2> QED
    BY <1>1, <1>2, <1>3, <2>1, <2>2, StandingKept DEF GroupTypes
<1>6. ASSUME ~ overlapped, ~ halfDone' PROVE Settled' /\ AllHalfWay'
  <2>1. Standing /\ Settled /\ AllHalfWay /\ HalfWay(r)
    BY <1>1, <1>6 DEF GroupInv, AllHalfWay
  <2>2. mentorId[g] = (IF old = "unborn" THEN m ELSE old) /\ \A h \in GroupIds \ {g} : mentorId[h] # m
    BY <1>1, <2>1 DEF HalfWay
  <2>3. old \in Mentors => (old \in edited' \/ groupId'[old] = "none") /\ \A h \in GroupIds \ {g} : mentorId[h] # old
    BY <1>1, <1>2, <1>4, <2>1 DEF HalfWay, Leaves
  <2>4. pc'[r] # "idle" => HalfWay(r)'
    BY <1>1, <1>2, <1>3, <1>4, <2>2, <2>3 DEF HalfWay
  <2>5. \A n \in Mentors : n \in {m, old} /\ ~ Leaves(r, n)' /\ ~ Joins(r, n)' => NamesEachOther(n)'
    <3>1. SUFFICES ASSUME NEW n \in Mentors, n \in {m, old}, ~ Leaves(r, n)', ~ Joins(r, n)' PROVE NamesEachOther(n)'
      OBVIOUS
    <3>2. old = "unborn" /\ n = m
      BY <1>3, <3>1, BranchDayAssumption DEF Leaves, Joins
    <3> QED
      BY <1>1, <1>2, <1>4, <2>2, <3>2 DEF NamesEachOther
  <2> QED
    BY <1>1, <1>2, <1>3, <1>4, <2>1, <2>4, <2>5, CalmKept
<1> QED
  BY <1>1, <1>3, <1>5, <1>6 DEF GroupInv, AllHalfWay

\* The row of the group is written.
LEMMA GroupWritten ==
  ASSUME GroupInv, NEW r \in Requests, G!WriteGroup(r)
  PROVE  GroupInv'
<1> DEFINE m == req[r].user
           old == req[r].old
           g == req[r].group
<1>1. /\ pc[r] = "writeGroup" /\ pc' = [pc EXCEPT ![r] = "idle"] /\ req' = [req EXCEPT ![r] = [rows |-> {}]]
      /\ IF mentorId[g] \notin {"unborn", "deleted"}
         THEN mentorId' = [mentorId EXCEPT ![g] = m] /\ halfDone' = halfDone
         ELSE mentorId' = mentorId /\ halfDone' = TRUE
      /\ groupId' = groupId /\ edited' = edited /\ overlapped' = overlapped
  <2>1. halfDone \in BOOLEAN
    BY DEF GroupInv, GroupTypes
  <2> QED
    BY <2>1 DEF G!WriteGroup, G!Return, G!Goto, G!NoReq, G!Exists
<1>2. /\ GroupTypes /\ g \in GroupIds /\ {m, old} \subseteq Mentors \union {"none"} /\ m # old
  BY <1>1 DEF GroupInv, GroupTypes, Task, OfOperation
<1>3. GroupTypes' /\ GoesOn(r) /\ pc'[r] = "idle"
  <2>1. mentorId' \in [GroupIds -> Mentors \union {"none", "unborn", "deleted"}] /\ halfDone' \in BOOLEAN
    BY <1>1, <1>2 DEF GroupTypes
  <2>2. "idle" \in GroupSteps \ {"insert"}
    BY DEF GroupSteps
  <2> QED
    BY <1>1, <1>2, <2>1, <2>2, GroupPasses DEF GroupTypes
<1>4. m \notin {"unborn", "deleted"}
  BY <1>2, BranchDayAssumption
<1>5. ASSUME ~ overlapped PROVE /\ Standing /\ Standing' /\ mentorId'[g] = m /\ halfDone' = halfDone
                                /\ \A h \in GroupIds : h # g => mentorId'[h] = mentorId[h]
  <2>1. Standing /\ mentorId[g] \notin {"unborn", "deleted"}
    BY <1>1, <1>5 DEF GroupInv, Standing
  <2>2. mentorId'[g] = m /\ halfDone' = halfDone /\ \A h \in GroupIds : h # g => mentorId'[h] = mentorId[h]
    BY <1>1, <1>2, <2>1 DEF GroupTypes
  <2> QED
    BY <1>1, <1>2, <1>3, <1>4, <2>1, <2>2, StandingKept DEF GroupTypes
<1>6. ASSUME ~ overlapped, ~ halfDone' PROVE Settled' /\ AllHalfWay'
  <2>1. Settled /\ AllHalfWay /\ HalfWay(r)
    BY <1>1, <1>5, <1>6 DEF GroupInv, AllHalfWay
  <2>2. m \in Mentors => (m \in edited \/ groupId[m] = g) /\ \A h \in GroupIds \ {g} : mentorId[h] # m
    BY <1>1, <2>1 DEF HalfWay
  <2>3. old \in Mentors => (old \in edited \/ groupId[old] = "none") /\ \A h \in GroupIds \ {g} : mentorId[h] # old
    BY <1>1, <2>1 DEF HalfWay, Leaves
  <2>4. \A n \in Mentors : n \in {m, old} => NamesEachOther(n)'
    BY <1>1, <1>2, <1>5, <1>6, <2>2, <2>3, BranchDayAssumption DEF NamesEachOther
  <2> QED
    BY <1>1, <1>2, <1>3, <1>5, <1>6, <2>1, <2>4, CalmKept
<1> QED
  BY <1>1, <1>3, <1>5, <1>6 DEF GroupInv, AllHalfWay

\* A student comes into the group or leaves it.
LEMMA GroupStudentMoves ==
  ASSUME GroupInv, NEW r \in Requests, G!AddWrites(r) \/ G!RemoveWrites(r)
  PROVE  GroupInv'
<1> DEFINE s == req[r].user
           g == req[r].group
<1>1. /\ pc[r] \in {"add", "remove"}
      /\ pc' = [pc EXCEPT ![r] = "idle"] /\ req' = [req EXCEPT ![r] = [rows |-> {}]]
      /\ s # "none" => groupId' = [groupId EXCEPT ![s] = g] \/ groupId' = [groupId EXCEPT ![s] = "none"]
      /\ edited' = edited \ {s}
      /\ mentorId' = mentorId /\ halfDone' = halfDone /\ overlapped' = overlapped
  BY DEF G!AddWrites, G!RemoveWrites, G!WriteUser, G!Return, G!Goto, G!NoReq
<1>2. /\ GroupTypes /\ g \in GroupIds /\ s \in Students /\ req[r].old \in Mentors \union {"none"}
      /\ s # "none"
  BY <1>1, BranchDayAssumption DEF GroupInv, GroupTypes, Task, OfOperation
<1>3. GroupTypes' /\ GoesOn(r) /\ pc'[r] = "idle"
  <2>1. groupId' \in [Mentors \union Students -> GroupIds \union {"none"}]
        /\ edited' \in SUBSET (Mentors \union Students)
    BY <1>1, <1>2 DEF GroupTypes
  <2>2. "idle" \in GroupSteps \ {"insert"}
    BY DEF GroupSteps
  <2> QED
    BY <1>1, <1>2, <2>1, <2>2, GroupPasses DEF GroupTypes
<1>4. /\ groupId'[s] \in {g, "none"}
      /\ \A u \in Mentors \union Students : u # s => groupId'[u] = groupId[u] /\ (u \in edited' <=> u \in edited)
  BY <1>1, <1>2 DEF GroupTypes
<1>5. ASSUME ~ overlapped PROVE Standing'
  <2>1. Standing /\ mentorId'[g] \notin {"unborn", "deleted"}
    BY <1>1, <1>5 DEF GroupInv, Standing
  <2> QED
    BY <1>1, <1>2, <1>3, <1>4, <2>1, StandingKept DEF GroupTypes
<1>6. ASSUME ~ overlapped, ~ halfDone' PROVE Settled' /\ AllHalfWay'
  <2>1. Standing /\ Settled /\ AllHalfWay
    BY <1>1, <1>6 DEF GroupInv, AllHalfWay
  <2>2. s \notin Mentors
    BY <1>2, BranchDayAssumption
  <2>3. \A n \in Mentors : n \in {s, req[r].old} => NamesEachOther(n)
    BY <1>1, <1>2, <2>1, OwnSettled DEF Leaves, Joins
  <2>4. \A n \in Mentors : n \in {s, req[r].old} => NamesEachOther(n)'
    BY <1>1, <1>4, <2>2, <2>3 DEF NamesEachOther
  <2> QED
    BY <1>1, <1>2, <1>3, <1>4, <2>1, <2>2, <2>4, CalmKept
<1> QED
  BY <1>1, <1>3, <1>5, <1>6 DEF GroupInv, AllHalfWay

\* A deletion is refused while the group has students.
LEMMA GroupDeleteCountsKeeps ==
  ASSUME GroupInv, NEW r \in Requests, G!DeleteCounts(r)
  PROVE  GroupInv'
<1> DEFINE g == req[r].group
<1>1. /\ pc[r] = "count"
      /\ \/ pc' = [pc EXCEPT ![r] = "idle"] /\ req' = [req EXCEPT ![r] = [rows |-> {}]]
         \/ /\ pc' = [pc EXCEPT ![r] = "clearMentor"] /\ req' = req
            /\ \A s \in Students : groupId[s] # g
      /\ mentorId' = mentorId /\ groupId' = groupId /\ halfDone' = halfDone /\ edited' = edited /\ overlapped' = overlapped
  BY DEF G!DeleteCounts, G!Return, G!Goto, G!NoReq, G!state
<1>2. /\ GroupTypes /\ g \in GroupIds /\ req[r].user = "none" /\ req[r].old \in Mentors \union {"none"}
  BY <1>1 DEF GroupInv, GroupTypes, Task, OfOperation
<1>3. GroupTypes' /\ GoesOn(r)
      /\ \/ pc'[r] = "idle"
         \/ pc'[r] = "clearMentor" /\ req'[r] = req[r] /\ \A s \in Students : groupId[s] # g
  <2>1. OfOperation("clearMentor", req[r]) /\ {"clearMentor", "idle"} \subseteq GroupSteps \ {"insert"}
    BY <1>2 DEF OfOperation, GroupSteps
  <2> QED
    BY <1>1, <1>2, <2>1, GroupPasses DEF GroupTypes
<1>4. ASSUME ~ overlapped PROVE Standing'
  <2>1. Standing /\ mentorId'[g] \notin {"unborn", "deleted"}
    BY <1>1, <1>4 DEF GroupInv, Standing
  <2> QED
    BY <1>1, <1>2, <1>3, <2>1, StandingKept DEF GroupTypes
<1>5. ASSUME ~ overlapped, ~ halfDone' PROVE Settled' /\ AllHalfWay'
  <2>1. Standing /\ Settled /\ AllHalfWay /\ HalfWay(r)
    BY <1>1, <1>5 DEF GroupInv, AllHalfWay
  <2>2. \A n \in Mentors : n \in {req[r].user, req[r].old} => NamesEachOther(n)'
    BY <1>1, <1>2, <2>1, OwnSettled DEF Leaves, Joins, NamesEachOther
  <2>3. pc'[r] # "idle" => HalfWay(r)'
    BY <1>1, <1>3, <2>1 DEF HalfWay, Leaves
  <2> QED
    BY <1>1, <1>2, <1>3, <2>1, <2>2, <2>3, CalmKept
<1> QED
  BY <1>1, <1>3, <1>4, <1>5 DEF GroupInv, AllHalfWay

\* It takes the group from its mentor.
LEMMA GroupDeleteClearsKeeps ==
  ASSUME GroupInv, NEW r \in Requests, G!DeleteClearsMentor(r)
  PROVE  GroupInv'
<1> DEFINE old == req[r].old
           g == req[r].group
<1>1. /\ pc[r] = "clearMentor" /\ pc' = [pc EXCEPT ![r] = "delete"] /\ req' = req
      /\ groupId' = IF old = "none" THEN groupId ELSE [groupId EXCEPT ![old] = "none"]
      /\ edited' = edited \ {old}
      /\ mentorId' = mentorId /\ halfDone' = halfDone /\ overlapped' = overlapped
  BY DEF G!DeleteClearsMentor, G!WriteUser, G!Goto
<1>2. /\ GroupTypes /\ g \in GroupIds /\ req[r].user = "none" /\ old \in Mentors \union {"none"}
  BY <1>1 DEF GroupInv, GroupTypes, Task, OfOperation
<1>3. GroupTypes' /\ GoesOn(r) /\ pc'[r] = "delete" /\ req'[r] = req[r]
  <2>1. groupId' \in [Mentors \union Students -> GroupIds \union {"none"}]
        /\ edited' \in SUBSET (Mentors \union Students)
    BY <1>1, <1>2 DEF GroupTypes
  <2>2. OfOperation("delete", req[r]) /\ "delete" \in GroupSteps \ {"insert", "idle"}
    BY <1>2 DEF OfOperation, GroupSteps
  <2> QED
    BY <1>1, <1>2, <2>1, <2>2, GroupPasses DEF GroupTypes
<1>4. /\ old # "none" => groupId'[old] = "none"
      /\ \A u \in Mentors \union Students : u # old => groupId'[u] = groupId[u] /\ (u \in edited' <=> u \in edited)
  BY <1>1, <1>2 DEF GroupTypes
<1>5. \A s \in Students : groupId'[s] = groupId[s] /\ (s \in edited' <=> s \in edited)
  BY <1>2, <1>4, BranchDayAssumption
<1>6. ASSUME ~ overlapped PROVE Standing'
  <2>1. /\ Standing /\ mentorId'[g] \notin {"unborn", "deleted"}
        /\ \A s \in Students \ edited' : groupId'[s] # g
    BY <1>1, <1>5, <1>6 DEF GroupInv, Standing
  <2> QED
    BY <1>1, <1>2, <1>3, <1>5, <2>1, StandingKept DEF GroupTypes
<1>7. ASSUME ~ overlapped, ~ halfDone' PROVE Settled' /\ AllHalfWay'
  <2>1. Standing /\ Settled /\ AllHalfWay /\ HalfWay(r) /\ old # "unborn"
    BY <1>1, <1>2, <1>7, BranchDayAssumption DEF GroupInv, AllHalfWay
  <2>2. mentorId[g] = old
    BY <1>1, <2>1 DEF HalfWay
  <2>3. \A n \in Mentors : n = old => NamesEachOther(n)
    BY <1>1, <1>2, <2>1, OwnSettled DEF Leaves, Joins
  <2>4. old \in Mentors => groupId'[old] = "none" /\ \A h \in GroupIds \ {g} : mentorId[h] # old
    BY <1>2, <1>4, <2>2, <2>3, BranchDayAssumption DEF NamesEachOther
  <2>5. HalfWay(r)'
    BY <1>1, <1>3, <2>1, <2>2, <2>4 DEF HalfWay
  <2>6. \A n \in Mentors : n \in {req[r].user, old} => Leaves(r, n)'
    BY <1>2, <1>3, BranchDayAssumption DEF Leaves
  <2> QED
    BY <1>1, <1>2, <1>3, <1>4, <2>1, <2>5, <2>6, CalmKept
<1> QED
  BY <1>1, <1>3, <1>6, <1>7 DEF GroupInv, AllHalfWay

\* It marks the group deleted.
LEMMA GroupDeleteWritesKeeps ==
  ASSUME GroupInv, NEW r \in Requests, G!DeleteWrites(r)
  PROVE  GroupInv'
<1> DEFINE old == req[r].old
           g == req[r].group
<1>1. /\ pc[r] = "delete" /\ pc' = [pc EXCEPT ![r] = "idle"] /\ req' = [req EXCEPT ![r] = [rows |-> {}]]
      /\ mentorId' = [mentorId EXCEPT ![g] = "deleted"]
      /\ groupId' = groupId /\ halfDone' = halfDone /\ edited' = edited /\ overlapped' = overlapped
  BY DEF G!DeleteWrites, G!Return, G!Goto, G!NoReq
<1>2. /\ GroupTypes /\ g \in GroupIds /\ req[r].user = "none" /\ old \in Mentors \union {"none"}
  BY <1>1 DEF GroupInv, GroupTypes, Task, OfOperation
<1>3. GroupTypes' /\ GoesOn(r) /\ pc'[r] = "idle"
  <2>1. mentorId' \in [GroupIds -> Mentors \union {"none", "unborn", "deleted"}]
    BY <1>1, <1>2 DEF GroupTypes
  <2>2. "idle" \in GroupSteps \ {"insert"}
    BY DEF GroupSteps
  <2> QED
    BY <1>1, <1>2, <2>1, <2>2, GroupPasses DEF GroupTypes
<1>4. mentorId'[g] = "deleted" /\ \A h \in GroupIds : h # g => mentorId'[h] = mentorId[h]
  BY <1>1, <1>2 DEF GroupTypes
<1>5. ASSUME ~ overlapped PROVE Standing'
  <2>1. /\ Standing /\ \A s \in Students \ edited : groupId[s] # g
    BY <1>1, <1>5 DEF GroupInv, Standing
  <2> QED
    BY <1>1, <1>2, <1>3, <1>4, <2>1, StandingKept DEF GroupTypes
<1>6. ASSUME ~ overlapped, ~ halfDone' PROVE Settled' /\ AllHalfWay'
  <2>1. Standing /\ Settled /\ AllHalfWay /\ HalfWay(r)
    BY <1>1, <1>6 DEF GroupInv, AllHalfWay
  <2>2. old \in Mentors => (old \in edited \/ groupId[old] = "none") /\ \A h \in GroupIds \ {g} : mentorId[h] # old
    BY <1>1, <2>1 DEF HalfWay, Leaves
  <2>3. \A n \in Mentors : n \in {req[r].user, old} => NamesEachOther(n)'
    BY <1>1, <1>2, <1>4, <2>2, BranchDayAssumption DEF NamesEachOther
  <2> QED
    BY <1>1, <1>2, <1>3, <1>4, <2>1, <2>3, CalmKept
<1> QED
  BY <1>1, <1>3, <1>5, <1>6 DEF GroupInv, AllHalfWay

\* What a failure leaves half done is no longer settled, but every group stands.
LEMMA GroupServerFailsKeeps ==
  ASSUME GroupInv, NEW r \in Requests, G!ServerFails(r)
  PROVE  GroupInv'
<1>1. /\ pc[r] # "idle" /\ pc' = [pc EXCEPT ![r] = "idle"] /\ req' = [req EXCEPT ![r] = [rows |-> {}]]
      /\ halfDone' = TRUE /\ mentorId' = mentorId /\ groupId' = groupId /\ edited' = edited /\ overlapped' = overlapped
  BY DEF G!ServerFails, G!Return, G!Goto, G!NoReq
<1>2. GroupTypes /\ req[r].group \in GroupIds
  BY <1>1 DEF GroupInv, GroupTypes, Task
<1>3. GroupTypes' /\ GoesOn(r) /\ pc'[r] = "idle"
  <2>1. "idle" \in GroupSteps \ {"insert"}
    BY DEF GroupSteps
  <2> QED
    BY <1>1, <1>2, <2>1, GroupPasses DEF GroupTypes
<1>4. ASSUME ~ overlapped PROVE Standing'
  <2>1. Standing
    BY <1>4 DEF GroupInv
  <2>2. mentorId[req[r].group] \in {"unborn", "deleted"} => \A s \in Students \ edited : groupId[s] # req[r].group
    BY <1>2, <2>1, BranchDayAssumption DEF Standing
  <2> QED
    BY <1>1, <1>2, <1>3, <2>1, <2>2, StandingKept DEF GroupTypes
<1> QED
  BY <1>1, <1>3, <1>4 DEF GroupInv

\* An edit of a person writes his group and nothing else.
LEMMA GroupUserEditKeeps ==
  ASSUME GroupInv, G!Other
  PROVE  GroupInv'
<1>1. PICK u \in Mentors \union Students, g \in GroupIds \union {"none"} : G!UserEdit(u, g)
  BY DEF G!Other, G!Users
<1>2. /\ groupId' = [groupId EXCEPT ![u] = g] /\ edited' = edited \union {u}
      /\ mentorId' = mentorId /\ halfDone' = halfDone /\ pc' = pc /\ req' = req /\ overlapped' = overlapped
  BY <1>1 DEF G!UserEdit
<1>3. GroupTypes
  BY DEF GroupInv
<1>4. GroupTypes'
  BY <1>2, <1>3 DEF GroupTypes
<1>5. \A v \in Mentors \union Students : v \notin edited' => v \notin edited /\ groupId'[v] = groupId[v]
  BY <1>2, <1>3 DEF GroupTypes
<1>6. ASSUME ~ overlapped PROVE Standing'
  BY <1>2, <1>5, <1>6 DEF GroupInv, Standing
<1>7. ASSUME ~ overlapped, ~ halfDone' PROVE Settled' /\ AllHalfWay'
  <2>1. Settled /\ AllHalfWay
    BY <1>2, <1>7 DEF GroupInv, AllHalfWay
  <2>2. Settled'
    BY <1>2, <1>5, <2>1 DEF Settled, NamesEachOther, Leaves, Joins
  <2>3. ASSUME NEW r \in Requests, pc[r] # "idle" PROVE HalfWay(r)'
    BY <1>2, <1>5, <2>1, <2>3 DEF AllHalfWay, HalfWay, Leaves
  <2> QED
    BY <1>2, <2>2, <2>3 DEF AllHalfWay
<1> QED
  BY <1>2, <1>4, <1>6, <1>7 DEF GroupInv, AllHalfWay

\* THEOREM (groups.service.ts:115-152, 212-229, 259-278).  Whatever the groups,
\* mentors, students and requests: with requests that work on rows of their own
\* and none cut off half way, a group and its mentor name each other whenever no
\* request is under way; and no student is ever in a group that was deleted.
\* Both are said of the people whose group this service wrote last: what
\* users.update and users.create write (users.service.ts:58-74, 292-348) is
\* checked by nobody.
THEOREM Groups == Spec => []GroupsAgree
<1>1. GroupsInv /\ [Next]_vars => GroupsInv'
  <2> SUFFICES ASSUME GroupsInv, [Next]_vars PROVE GroupsInv'
    OBVIOUS
  <2>1. /\ part' = part
        /\ part = "groups" => \/ (\E r \in Requests : G!Step(r)) \/ G!Other
                              \/ UNCHANGED <<mentorId, groupId, halfDone, edited, pc, req, overlapped>>
        /\ part # "groups" => UNCHANGED <<mentorId, groupId, halfDone, edited>>
    BY GroupMove
  <2>2. CASE part # "groups"
    BY <2>1, <2>2 DEF GroupsInv, G!Empty
  <2>3. CASE part = "groups" /\ UNCHANGED <<mentorId, groupId, halfDone, edited, pc, req, overlapped>>
    BY <2>1, <2>3 DEF GroupsInv, GroupInv, GroupTypes, Standing, Settled, NamesEachOther, HalfWay, Leaves, Joins
  <2>4. ASSUME part = "groups", NEW r \in Requests, G!Step(r) PROVE GroupInv'
    <3>1. GroupInv
      BY <2>4 DEF GroupsInv
    <3>2. mentorId \in [GroupIds -> Mentors \union {"none", "unborn", "deleted"}]
          /\ groupId \in [Mentors \union Students -> GroupIds \union {"none"}]
      BY <3>1 DEF GroupInv, GroupTypes
    <3>3. CASE G!Create(r)
      BY <3>1, <3>3, GroupBegins DEF G!Create
    <3>4. CASE G!Update(r)
      BY <3>1, <3>4, GroupBegins DEF G!Update, G!Exists
    <3>5. CASE G!AddStudent(r)
      BY <3>1, <3>5, GroupBegins DEF G!AddStudent, G!Exists
    <3>6. CASE G!RemoveStudent(r)
      BY <3>1, <3>2, <3>6, GroupBegins DEF G!RemoveStudent, G!Exists
    <3>7. CASE G!Delete(r)
      BY <3>1, <3>7, GroupBegins DEF G!Delete, G!Exists
    <3>8. CASE G!CreateInserts(r)
      BY <3>1, <3>8, GroupCreateInsertsKeeps
    <3>9. CASE G!UpdateClearsOld(r) \/ G!UpdateValidates(r)
      BY <3>1, <3>9, GroupUpdateClearsOldKeeps, GroupUpdateValidatesKeeps
    <3>10. CASE G!FindOther(r) \/ G!ClearOther(r)
      BY <3>1, <3>10, GroupFindOtherKeeps, GroupClearOtherKeeps
    <3>11. CASE G!SetMentor(r) \/ G!WriteGroup(r)
      BY <3>1, <3>11, GroupSetMentorKeeps, GroupWritten
    <3>12. CASE G!AddWrites(r) \/ G!RemoveWrites(r)
      BY <3>1, <3>12, GroupStudentMoves
    <3>13. CASE G!DeleteCounts(r) \/ G!DeleteClearsMentor(r) \/ G!DeleteWrites(r)
      BY <3>1, <3>13, GroupDeleteCountsKeeps, GroupDeleteClearsKeeps, GroupDeleteWritesKeeps
    <3>14. CASE G!ServerFails(r)
      BY <3>1, <3>14, GroupServerFailsKeeps
    <3> QED
      BY <2>4, <3>3, <3>4, <3>5, <3>6, <3>7, <3>8, <3>9, <3>10, <3>11, <3>12, <3>13, <3>14 DEF G!Step
  <2>5. ASSUME part = "groups", G!Other PROVE GroupInv'
    BY <2>5, GroupUserEditKeeps DEF GroupsInv
  <2> QED
    BY <2>1, <2>2, <2>3, <2>4, <2>5 DEF GroupsInv
<1>2. GroupsInv => GroupsAgree
  <2> SUFFICES ASSUME GroupsInv PROVE GroupsAgree
    OBVIOUS
  <2>1. CASE part = "groups"
    <3>0. GroupInv
      BY <2>1 DEF GroupsInv
    <3>1. G!PointersAgree
      BY <3>0 DEF GroupInv, Settled, NamesEachOther, Leaves, Joins, G!PointersAgree, G!Calm, G!Quiet
    <3>2. G!NoStudentLeftBehind
      BY <3>0 DEF GroupInv, Standing, G!NoStudentLeftBehind, G!Exists
    <3> QED
      BY <3>1, <3>2 DEF GroupsAgree
  <2>2. CASE part # "groups"
    <3>1. mentorId = [g \in GroupIds |-> "unborn"] /\ groupId = [u \in Mentors \union Students |-> "none"]
      BY <2>2 DEF GroupsInv, G!Empty, G!Users
    <3>2. G!PointersAgree
      BY <3>1, BranchDayAssumption DEF G!PointersAgree
    <3>3. G!NoStudentLeftBehind
      BY <3>1 DEF G!NoStudentLeftBehind
    <3> QED
      BY <3>2, <3>3 DEF GroupsAgree
  <2> QED
    BY <2>1, <2>2
<1> QED
  BY GroupsStart, <1>1, <1>2, PTL DEF Spec

------------------------------------------------------------------------------
\* The page of an oral exam and the server it talks to (OralExamPage).

PageVars == <<view, heard, ears, handle, timer, speech, count, shown, posts, turns, graded, disturbed>>

\* Which steps change the page of the oral exam and its server.
LEMMA PageMove ==
  ASSUME [Next]_vars
  PROVE  /\ part' = part
         /\ part = "page" => X!Next \/ UNCHANGED PageVars
         /\ part # "page" => UNCHANGED PageVars
<1>1. CASE Next
  <2>1. CASE PageStep
    BY <2>1 DEF PageStep, requests
  <2> QED
    BY <1>1, <2>1 DEF Next, TaskStep, VisitStep, ColourStep, GroupStep, VideoStep, LessonStep, StreakStep,
      ContestStep, ChatStep, ErasureStep, EventStep, requests, studentRows, pageRows, PageVars
<1>2. CASE UNCHANGED vars
  BY <1>2 DEF vars, requests, studentRows, pageRows, PageVars
<1> QED
  BY <1>1, <1>2

Text == [answer : BOOLEAN, interim : BOOLEAN]

PagePost ==
  [kind : {"none", "start", "respond", "finalize"}, at : {"none", "sent", "asking", "answered", "failed"},
   turn : Nat, final : BOOLEAN, heeded : BOOLEAN]

\* A call is served, and answered to a page that waits for it.
PostTold(p) ==
  /\ p.kind = "none" <=> p.at = "none"
  /\ p.kind = "none" => ~ p.heeded
  /\ p.at \in {"answered", "failed"} => p.heeded
  /\ p.kind = "start" => p.at # "asking" /\ ~ p.final
  /\ p.at = "answered" /\ p.final => graded

PageTypes ==
  /\ view \in {"start", "starting", "listening", "ready", "recording", "review", "submitting", "finalizing"}
  /\ heard \in Text
  /\ ears \in [Ears -> [step : {"off", "on", "stopping", "failed"}, seen : Text, more : BOOLEAN]]
  /\ handle \in Ears \union {Nobody} /\ timer \in Ears \union {Nobody}
  /\ speech \in {"none", "queued", "speaking"}
  /\ count \in Nat /\ shown \in BOOLEAN
  /\ posts \in [Posts -> PagePost] /\ \A c \in Posts : PostTold(posts[c])
  /\ turns \in Nat /\ graded \in BOOLEAN /\ disturbed \in BOOLEAN

\* The view in which the page waits for a call, and that it waits for one only.
WaitingView(kind) ==
  CASE kind = "start" -> "starting" [] kind = "respond" -> "submitting" [] kind = "finalize" -> "finalizing"

WaitsForOne ==
  /\ \A c \in Posts : posts[c].heeded => view = WaitingView(posts[c].kind) /\ speech = "none" /\ ~ shown
  /\ \A c, d \in Posts : posts[c].heeded /\ posts[d].heeded => c = d
  /\ \A c \in Posts : posts[c].kind = "respond" => posts[c].heeded

\* Only the recogniser started last listens, and only while the page records.
ListensAlone ==
  /\ \A e \in Ears : ears[e].step = "on" => view = "recording" /\ handle = e
  /\ speech # "none" => view \in {"listening", "submitting", "finalizing"}

\* An answer is given below the agreed number, a verdict is asked for at it.
Answering == \E c \in Posts : posts[c].kind = "respond"

Budgeted ==
  /\ view \in {"recording", "review"} => count < QuestionCount
  /\ Answering => count < QuestionCount /\ \A c \in Posts : posts[c].kind # "finalize"
  /\ \A c \in Posts : posts[c].kind = "finalize" => turns >= QuestionCount
  /\ turns <= QuestionCount

\* What the page counts is what the server has, but for the answer under way.
Counted ==
  /\ view \notin {"start", "starting"} /\ ~ Answering => turns = count
  /\ \A c \in Posts :
       /\ posts[c].kind = "respond" =>
            /\ turns = IF posts[c].at = "answered" THEN count + 1 ELSE count
            /\ posts[c].at \in {"asking", "answered"} => posts[c].turn = count + 1
       /\ posts[c].kind = "finalize" /\ posts[c].at = "asking" => posts[c].turn = turns
       /\ posts[c].kind = "start" /\ posts[c].at = "answered" => posts[c].turn = turns

PageInv ==
  /\ PageTypes
  /\ shown => graded
  /\ ~ disturbed => WaitsForOne /\ ListensAlone /\ Budgeted /\ Counted

PagesInv == IF part = "page" THEN PageInv ELSE X!Opened

\* The page begins before the first question.
LEMMA PagesStart == Init => PagesInv
<1> SUFFICES ASSUME Init PROVE PagesInv
  OBVIOUS
<1>1. X!Opened
  BY DEF Init
<1>2. posts = [c \in Posts |-> X!NoPost] /\ ears = [e \in Ears |-> X!Off]
  BY <1>1 DEF X!Opened
<1>3. PageTypes
  <2>1. X!Nothing \in Text
    BY DEF X!Nothing, Text
  <2>2. X!Off \in [step : {"off", "on", "stopping", "failed"}, seen : Text, more : BOOLEAN]
    BY <2>1 DEF X!Off
  <2>3. X!NoPost \in PagePost /\ PostTold(X!NoPost)
    BY DEF X!NoPost, PagePost, PostTold
  <2> QED
    BY <1>1, <1>2, <2>1, <2>2, <2>3 DEF X!Opened, PageTypes
<1>4. WaitsForOne /\ ListensAlone
  BY <1>1, <1>2 DEF X!Opened, X!NoPost, X!Off, WaitsForOne, ListensAlone
<1>5. Budgeted /\ Counted
  BY <1>1, <1>2, BranchDayAssumption DEF X!Opened, X!NoPost, Budgeted, Counted, Answering
<1> QED
  BY <1>1, <1>3, <1>4, <1>5 DEF X!Opened, PagesInv, PageInv

\* The page sends a call and waits for the answer.
LEMMA PageCalls ==
  ASSUME PageInv, NEW kind \in {"start", "respond", "finalize"}, X!Post(kind), ~ shown,
         view' = WaitingView(kind),
         UNCHANGED <<heard, ears, handle, timer, speech, count, shown, turns, graded, disturbed>>,
         kind = "start" => view = "start",
         kind = "respond" => view = "review",
         kind = "finalize" => view = "ready" /\ count >= QuestionCount
  PROVE  PageInv'
<1>1. PageTypes
  BY DEF PageInv
<1>2. PICK c \in Posts : posts[c] = X!NoPost /\ posts' = [posts EXCEPT ![c] = X!Sent(kind)]
  BY DEF X!Post
<1>3. posts[c].kind = "none" /\ posts[c].heeded = FALSE
  BY <1>2 DEF X!NoPost
<1>4. /\ posts'[c].kind = kind /\ posts'[c].at = "sent" /\ posts'[c].heeded = TRUE /\ posts'[c].final = FALSE
      /\ posts' \in [Posts -> PagePost] /\ \A d \in Posts : d # c => posts'[d] = posts[d]
  BY <1>1, <1>2 DEF X!Sent, PageTypes, PagePost
<1>5. PageTypes'
  <2>1. \A d \in Posts : PostTold(posts[d])'
    <3>1. PostTold(posts[c])'
      BY <1>4 DEF PostTold
    <3>2. \A d \in Posts : d # c => PostTold(posts[d])'
      BY <1>1, <1>4 DEF PostTold, PageTypes
    <3> QED
      BY <3>1, <3>2
  <2>2. view' \in {"starting", "submitting", "finalizing"}
    BY Zenon DEF WaitingView
  <2> QED
    BY <1>1, <1>4, <2>1, <2>2 DEF PageTypes
<1>6. WaitingView("start") = "starting" /\ WaitingView("respond") = "submitting" /\ WaitingView("finalize") = "finalizing"
  <2>1. "start" # "respond" /\ "start" # "finalize" /\ "respond" # "finalize"
    OBVIOUS
  <2> QED
    BY <2>1, Zenon DEF WaitingView
<1>7. ASSUME ~ disturbed PROVE WaitsForOne' /\ ListensAlone' /\ Budgeted' /\ Counted'
  <2>1. WaitsForOne /\ ListensAlone /\ Budgeted /\ Counted
    BY <1>7 DEF PageInv
  <2>2. \A d \in Posts : ~ posts[d].heeded /\ posts[d].kind # "respond"
    <3>1. SUFFICES ASSUME NEW d \in Posts, posts[d].heeded PROVE FALSE
      BY <2>1 DEF WaitsForOne
    <3>2. posts[d].kind \in {"start", "respond", "finalize"}
      BY <1>1, <3>1 DEF PageTypes, PagePost, PostTold
    <3>3. view \in {"starting", "submitting", "finalizing"}
      BY <1>6, <2>1, <3>1, <3>2 DEF WaitsForOne
    <3> QED
      BY <3>3
  <2>3. speech = "none" /\ \A e \in Ears : ears[e].step # "on"
    BY <1>1, <2>1 DEF ListensAlone, PageTypes
  <2>4. WaitsForOne'
    BY <1>4, <2>2, <2>3 DEF WaitsForOne
  <2>5. ListensAlone'
    BY <2>3 DEF ListensAlone
  <2>6. kind # "start" => turns = count
    BY <2>1, <2>2 DEF Counted, Answering
  <2>7. kind = "respond" => count < QuestionCount /\ \A d \in Posts : posts[d].kind # "finalize"
    BY <1>1, <2>1, <2>6, BranchDayAssumption DEF Budgeted, PageTypes
  <2>8. Budgeted'
    BY <1>1, <1>4, <1>6, <2>1, <2>2, <2>6, <2>7 DEF Budgeted, Answering, PageTypes
  <2>9. Counted'
    BY <1>1, <1>4, <1>6, <2>1, <2>2, <2>6 DEF Counted, Answering
  <2> QED
    BY <2>4, <2>5, <2>8, <2>9
<1> QED
  BY <1>5, <1>7 DEF PageInv

\* The server goes on with a call: the page is as it was.
Becomes(c, at, turn, final) ==
  /\ posts' \in [Posts -> PagePost]
  /\ \A d \in Posts : d # c => posts'[d] = posts[d]
  /\ \/ /\ posts'[c].kind = posts[c].kind /\ posts'[c].heeded = posts[c].heeded
        /\ posts'[c].at = at /\ posts'[c].turn = turn /\ posts'[c].final = final
        /\ at \in {"answered", "failed"} => posts[c].heeded
     \/ ~ posts[c].heeded /\ posts'[c] = X!NoPost

\* The server changes a post the page is waiting for: asked, answered or failed.
LEMMA PageServed ==
  ASSUME PageInv, NEW c \in Posts, posts[c].at \in {"sent", "asking"},
         UNCHANGED <<view, heard, ears, handle, timer, speech, count, shown, disturbed>>,
         NEW at \in {"asking", "answered", "failed"}, NEW turn, NEW final, Becomes(c, at, turn, final),
         graded => graded', graded' \in BOOLEAN, turns' \in Nat,
         posts[c].kind = "start" => at # "asking" /\ ~ final,
         at = "answered" /\ final => graded',
         ~ disturbed =>
           /\ posts[c].kind = "respond" =>
                /\ turns' = IF at = "answered" THEN count + 1 ELSE count
                /\ at \in {"asking", "answered"} => turn = count + 1
           /\ posts[c].kind # "respond" =>
                /\ turns' = turns
                /\ at # "failed" => turn = turns
  PROVE  PageInv'
<1>1. PageTypes
  BY DEF PageInv
<1>2. PageTypes'
  <2>1. \A d \in Posts : PostTold(posts[d])'
    <3>1. PostTold(posts[c])'
      BY <1>1 DEF Becomes, PostTold, PageTypes, X!NoPost
    <3>2. \A d \in Posts : d # c => PostTold(posts[d])'
      BY <1>1 DEF Becomes, PostTold, PageTypes
    <3> QED
      BY <3>1, <3>2
  <2> QED
    BY <1>1, <2>1 DEF PageTypes, Becomes
<1>3. ASSUME ~ disturbed PROVE WaitsForOne' /\ ListensAlone' /\ Budgeted' /\ Counted'
  <2>1. WaitsForOne /\ ListensAlone /\ Budgeted /\ Counted
    BY <1>3 DEF PageInv
  <2>2. \A d \in Posts : d # c => posts'[d] = posts[d]
    BY DEF Becomes
  <2>3. \/ /\ posts'[c].kind = posts[c].kind /\ posts'[c].heeded = posts[c].heeded
           /\ posts'[c].at = at /\ posts'[c].turn = turn
           /\ at \in {"answered", "failed"} => posts[c].heeded
        \/ /\ posts[c].kind # "respond" /\ posts'[c].kind = "none" /\ posts'[c].heeded = FALSE
    BY <2>1 DEF Becomes, WaitsForOne, X!NoPost
  <2>4. WaitsForOne'
    BY <2>1, <2>2, <2>3 DEF WaitsForOne
  <2>5. ListensAlone'
    BY <2>1 DEF ListensAlone
  <2>6. Answering' <=> Answering
    BY <2>2, <2>3 DEF Answering
  <2>7. posts[c].kind = "respond" => Answering /\ count < QuestionCount /\ \A d \in Posts : posts[d].kind # "finalize"
    BY <2>1 DEF Answering, Budgeted
  <2>8. Budgeted'
    <3>1. CASE posts[c].kind = "respond"
      <4>1. turns' <= QuestionCount
        BY <1>1, <1>3, <2>7, <3>1, BranchDayAssumption DEF PageTypes
      <4> QED
        BY <2>1, <2>2, <2>3, <2>6, <2>7, <3>1, <4>1 DEF Budgeted
    <3>2. CASE posts[c].kind # "respond"
      BY <1>3, <2>1, <2>2, <2>3, <2>6, <3>2 DEF Budgeted
    <3> QED
      BY <3>1, <3>2
  <2>9. Counted'
    <3>1. CASE posts[c].kind = "respond"
      <4>1. \A d \in Posts : d # c => ~ posts[d].heeded /\ posts[d].kind # "respond" /\ posts[d].at # "answered"
        BY <1>1, <2>1, <3>1 DEF WaitsForOne, PageTypes, PostTold
      <4>2. Answering'
        BY <2>3, <3>1 DEF Answering
      <4> QED
        BY <1>3, <2>1, <2>2, <2>3, <2>7, <3>1, <4>1, <4>2 DEF Counted
    <3>2. CASE posts[c].kind # "respond"
      <4>1. turns' = turns /\ (at # "failed" => turn = turns)
        BY <1>3, <3>2
      <4> QED
        BY <2>1, <2>2, <2>3, <2>6, <3>2, <4>1 DEF Counted
    <3> QED
      BY <3>1, <3>2
  <2> QED
    BY <2>4, <2>5, <2>8, <2>9
<1> QED
  BY <1>2, <1>3 DEF PageInv

\* An answer reaches the page only if the page still heeds its post.
LEMMA PageAnswers ==
  ASSUME PageTypes, NEW c \in Posts, NEW at \in {"answered", "failed"}, NEW turn \in Nat,
         NEW final \in BOOLEAN, X!Answer(c, at, turn, final)
  PROVE  Becomes(c, at, turn, final)
<1>1. X!NoPost \in PagePost
  BY DEF X!NoPost, PagePost
<1>2. posts' = [posts EXCEPT ![c] = IF posts[c].heeded
                  THEN [posts[c] EXCEPT !.at = at, !.turn = turn, !.final = final] ELSE X!NoPost]
  BY DEF X!Answer
<1>3. CASE posts[c].heeded
  <2>1. PICK told \in PagePost : told = [posts[c] EXCEPT !.at = at, !.turn = turn, !.final = final]
    BY DEF PageTypes, PagePost
  <2>2. /\ told.kind = posts[c].kind /\ told.heeded = posts[c].heeded
        /\ told.at = at /\ told.turn = turn /\ told.final = final
    BY <2>1 DEF PageTypes, PagePost
  <2>3. posts' \in [Posts -> PagePost] /\ posts'[c] = told /\ \A d \in Posts : d # c => posts'[d] = posts[d]
    BY <1>2, <1>3, <2>1 DEF PageTypes
  <2> QED
    BY <1>3, <2>2, <2>3 DEF Becomes
<1>4. CASE ~ posts[c].heeded
  BY <1>1, <1>2, <1>4 DEF Becomes, PageTypes
<1> QED
  BY <1>3, <1>4

\* A post is put to the model.
LEMMA PageAsks ==
  ASSUME PageTypes, NEW c \in Posts, NEW turn \in Nat, posts' = [posts EXCEPT ![c].at = "asking", ![c].turn = turn]
  PROVE  \E final \in BOOLEAN : Becomes(c, "asking", turn, final)
<1>1. PICK mid \in PagePost : mid = [posts[c] EXCEPT !.at = "asking"]
  BY DEF PageTypes, PagePost
<1>2. PICK told \in PagePost : told = [mid EXCEPT !.turn = turn]
  BY <1>1 DEF PagePost
<1>3. /\ told.kind = posts[c].kind /\ told.heeded = posts[c].heeded
      /\ told.at = "asking" /\ told.turn = turn /\ told.final \in BOOLEAN
  BY <1>1, <1>2 DEF PageTypes, PagePost
<1>4. posts' \in [Posts -> PagePost] /\ posts'[c] = told /\ \A d \in Posts : d # c => posts'[d] = posts[d]
  BY <1>1, <1>2 DEF PageTypes
<1> QED
  BY <1>3, <1>4 DEF Becomes

\* Every step of the server keeps the invariant.
LEMMA PageServes ==
  ASSUME PageInv, NEW c \in Posts,
         \/ X!ServeStart(c) \/ X!ServeRespond(c) \/ X!RespondAnswers(c) \/ X!ServeFinalize(c)
         \/ X!ServerFails(c)
  PROVE  PageInv'
<1>1. PageTypes /\ turns \in Nat /\ graded \in BOOLEAN /\ posts[c].turn \in Nat
  BY DEF PageInv, PageTypes, PagePost
<1>2. ~ disturbed => \A d \in Posts :
        /\ posts[d].kind = "respond" =>
             /\ turns = IF posts[d].at = "answered" THEN count + 1 ELSE count
             /\ posts[d].at \in {"asking", "answered"} => posts[d].turn = count + 1
        /\ posts[d].kind = "finalize" /\ posts[d].at = "asking" => posts[d].turn = turns
  BY DEF PageInv, Counted
<1>3. CASE X!ServeStart(c)
  <2>1. /\ posts[c].kind = "start" /\ posts[c].at = "sent"
        /\ X!Answer(c, "failed", 0, FALSE) \/ X!Answer(c, "answered", turns, FALSE)
        /\ UNCHANGED <<view, heard, ears, handle, timer, speech, count, shown, disturbed, turns, graded>>
    BY <1>3 DEF X!ServeStart, X!page, X!mic
  <2>2. Becomes(c, "failed", 0, FALSE) \/ Becomes(c, "answered", turns, FALSE)
    BY <1>1, <2>1, PageAnswers
  <2>3. CASE Becomes(c, "failed", 0, FALSE)
    BY <1>1, <2>1, <2>3, PageServed
  <2>4. CASE Becomes(c, "answered", turns, FALSE)
    BY <1>1, <2>1, <2>4, PageServed
  <2> QED
    BY <2>2, <2>3, <2>4
<1>4. CASE X!ServeRespond(c)
  <2>1. /\ posts[c].kind = "respond" /\ posts[c].at = "sent"
        /\ \/ X!Answer(c, "failed", 0, FALSE)
           \/ posts' = [posts EXCEPT ![c].at = "asking", ![c].turn = turns + 1]
        /\ UNCHANGED <<view, heard, ears, handle, timer, speech, count, shown, disturbed, turns, graded>>
    BY <1>4 DEF X!ServeRespond, X!page, X!mic
  <2>2. CASE X!Answer(c, "failed", 0, FALSE)
    <3>1. Becomes(c, "failed", 0, FALSE)
      BY <1>1, <2>2, PageAnswers
    <3> QED
      BY <1>1, <1>2, <2>1, <3>1, PageServed
  <2>3. CASE posts' = [posts EXCEPT ![c].at = "asking", ![c].turn = turns + 1]
    <3>0. turns + 1 \in Nat
      BY <1>1
    <3>1. PICK final \in BOOLEAN : Becomes(c, "asking", turns + 1, final)
      BY <1>1, <2>3, <3>0, PageAsks
    <3>2. ~ disturbed => turns = count
      BY <1>2, <2>1
    <3> QED
      BY <1>1, <2>1, <3>1, <3>2, PageServed
  <2> QED
    BY <2>1, <2>2, <2>3
<1>5. CASE X!RespondAnswers(c)
  <2>1. PICK final \in BOOLEAN :
          /\ posts[c].kind = "respond" /\ posts[c].at = "asking"
          /\ X!Answer(c, "answered", posts[c].turn, final) /\ turns' = posts[c].turn
          /\ graded' = (graded \/ final)
          /\ UNCHANGED <<view, heard, ears, handle, timer, speech, count, shown, disturbed>>
    BY <1>5 DEF X!RespondAnswers, X!page, X!mic
  <2>2. Becomes(c, "answered", posts[c].turn, final)
    BY <1>1, <2>1, PageAnswers
  <2>3. ~ disturbed => posts[c].turn = count + 1
    BY <1>2, <2>1
  <2> QED
    BY <1>1, <2>1, <2>2, <2>3, PageServed
<1>6. CASE X!ServeFinalize(c)
  <2>1. /\ posts[c].kind = "finalize"
        /\ UNCHANGED <<view, heard, ears, handle, timer, speech, count, shown, disturbed>>
    BY <1>6 DEF X!ServeFinalize, X!page, X!mic
  <2>2. CASE posts[c].at = "sent" /\ graded /\ X!Answer(c, "answered", turns, TRUE) /\ UNCHANGED <<turns, graded>>
    <3>1. Becomes(c, "answered", turns, TRUE)
      BY <1>1, <2>2, PageAnswers
    <3> QED
      BY <1>1, <2>1, <2>2, <3>1, PageServed
  <2>3. CASE posts[c].at = "sent" /\ posts' = [posts EXCEPT ![c].at = "asking", ![c].turn = turns] /\ UNCHANGED <<turns, graded>>
    <3>1. PICK final \in BOOLEAN : Becomes(c, "asking", turns, final)
      BY <1>1, <2>3, PageAsks
    <3> QED
      BY <1>1, <2>1, <2>3, <3>1, PageServed
  <2>4. CASE posts[c].at = "asking" /\ turns' = posts[c].turn /\ graded' = TRUE /\ X!Answer(c, "answered", posts[c].turn, TRUE)
    <3>1. Becomes(c, "answered", posts[c].turn, TRUE)
      BY <1>1, <2>4, PageAnswers
    <3>2. ~ disturbed => posts[c].turn = turns
      BY <1>2, <2>1, <2>4
    <3> QED
      BY <1>1, <2>1, <2>4, <3>1, <3>2, PageServed
  <2> QED
    BY <1>6, <2>2, <2>3, <2>4 DEF X!ServeFinalize
<1>7. CASE X!ServerFails(c)
  <2>1. /\ posts[c].at \in {"sent", "asking"} /\ X!Answer(c, "failed", 0, FALSE)
        /\ UNCHANGED <<view, heard, ears, handle, timer, speech, count, shown, disturbed, turns, graded>>
    BY <1>7 DEF X!ServerFails, X!page, X!mic
  <2>2. Becomes(c, "failed", 0, FALSE)
    BY <1>1, <2>1, PageAnswers
  <2>3. ~ disturbed /\ posts[c].kind = "respond" => turns = count
    BY <1>2, <2>1
  <2> QED
    BY <1>1, <2>1, <2>2, <2>3, PageServed
<1> QED
  BY <1>3, <1>4, <1>5, <1>6, <1>7

\* The answer arrives, or the news that there is none.
LEMMA PageReceives ==
  ASSUME PageInv, NEW c \in Posts, X!Receive(c)
  PROVE  PageInv'
<1> DEFINE p == posts[c]
<1>1. /\ p.at = "answered" /\ view' = IF p.kind = "start" THEN "listening" ELSE view
      /\ count' = IF p.kind = "finalize" THEN count ELSE IF p.final THEN count + 1 ELSE p.turn
      /\ heard' = [heard EXCEPT !.answer = p.kind # "respond" /\ heard.answer]
      /\ shown' = (shown \/ p.final) /\ speech' = "queued"
      /\ posts' = [posts EXCEPT ![c] = X!NoPost]
      /\ UNCHANGED <<ears, handle, timer, turns, graded, disturbed>>
  BY DEF X!Receive
<1>2. /\ PageTypes /\ p \in PagePost /\ PostTold(p) /\ p.kind \in {"start", "respond", "finalize"}
      /\ p.heeded /\ (p.final => graded)
  BY <1>1 DEF PageInv, PageTypes, PagePost, PostTold
<1>3. /\ posts' \in [Posts -> PagePost] /\ posts'[c] = X!NoPost
      /\ \A d \in Posts : d # c => posts'[d] = posts[d]
  BY <1>1, <1>2 DEF PageTypes, PagePost, X!NoPost
<1>4. X!NoPost.kind = "none" /\ ~ X!NoPost.heeded /\ X!NoPost.at = "none"
  BY DEF X!NoPost
<1>5. PageTypes'
  <2>1. \A d \in Posts : PostTold(posts[d])'
    BY <1>1, <1>2, <1>3, <1>4 DEF PageTypes, PostTold
  <2>2. heard' \in Text
    BY <1>1, <1>2 DEF PageTypes, Text
  <2>3. count' \in Nat /\ shown' \in BOOLEAN
    BY <1>1, <1>2 DEF PageTypes, PagePost
  <2>4. view' \in {"start", "starting", "listening", "ready", "recording", "review", "submitting", "finalizing"}
    BY <1>1, <1>2 DEF PageTypes
  <2> QED
    BY <1>1, <1>2, <1>3, <2>1, <2>2, <2>3, <2>4 DEF PageTypes
<1>6. shown' => graded'
  BY <1>1, <1>2 DEF PageInv
<1>7. ASSUME ~ disturbed PROVE WaitsForOne' /\ ListensAlone' /\ Budgeted' /\ Counted'
  <2>1. WaitsForOne /\ ListensAlone /\ Budgeted /\ Counted
    BY <1>7 DEF PageInv
  <2>2. \A d \in Posts : d # c => ~ posts[d].heeded /\ posts[d].kind # "respond"
    BY <1>2, <2>1 DEF WaitsForOne
  <2>3. view = WaitingView(p.kind)
    BY <1>2, <2>1 DEF WaitsForOne
  <2>4. view \in {"starting", "submitting", "finalizing"} /\ view' \in {"listening", "submitting", "finalizing"}
    BY <1>1, <1>2, <2>3, Zenon DEF WaitingView
  <2>5. WaitsForOne'
    BY <1>3, <1>4, <2>2 DEF WaitsForOne
  <2>6. ListensAlone'
    BY <1>1, <2>1, <2>4 DEF ListensAlone
  <2>7. ~ Answering'
    BY <1>3, <1>4, <2>2 DEF Answering
  <2>8. Budgeted'
    BY <1>1, <1>3, <1>4, <2>1, <2>4, <2>7 DEF Budgeted
  <2>9. turns = count'
    <3>1. CASE p.kind = "start"
      <4>1. ~ p.final
        BY <1>2, <3>1 DEF PostTold
      <4> QED
        BY <1>1, <2>1, <3>1, <4>1 DEF Counted
    <3>2. CASE p.kind = "respond"
      BY <1>1, <2>1, <3>2 DEF Counted
    <3>3. CASE p.kind = "finalize"
      <4>1. view = "finalizing"
        BY <1>2, <2>3, <3>3, Zenon DEF WaitingView
      <4>2. ~ Answering
        BY <2>2, <3>3 DEF Answering
      <4> QED
        BY <1>1, <2>1, <3>3, <4>1, <4>2 DEF Counted
    <3> QED
      BY <1>2, <3>1, <3>2, <3>3
  <2>10. Counted'
    BY <1>1, <1>3, <1>4, <2>1, <2>2, <2>9 DEF Counted
  <2> QED
    BY <2>5, <2>6, <2>8, <2>10
<1> QED
  BY <1>1, <1>5, <1>6, <1>7 DEF PageInv

\* An error comes back to the page.
LEMMA PageReceivesError ==
  ASSUME PageInv, NEW c \in Posts, X!ReceiveError(c)
  PROVE  PageInv'
<1> DEFINE p == posts[c]
<1>1. /\ p.at = "failed" /\ view' = X!ViewAfterError(p.kind) /\ posts' = [posts EXCEPT ![c] = X!NoPost]
      /\ UNCHANGED <<heard, ears, handle, timer, speech, count, shown, turns, graded, disturbed>>
  BY DEF X!ReceiveError, X!mic
<1>2. PageTypes /\ p \in PagePost /\ PostTold(p) /\ p.kind \in {"start", "respond", "finalize"} /\ p.heeded
  BY <1>1 DEF PageInv, PageTypes, PagePost, PostTold
<1>3. /\ posts' \in [Posts -> PagePost] /\ posts'[c] = X!NoPost
      /\ \A d \in Posts : d # c => posts'[d] = posts[d]
  BY <1>1, <1>2 DEF PageTypes, PagePost, X!NoPost
<1>4. X!NoPost.kind = "none" /\ ~ X!NoPost.heeded /\ X!NoPost.at = "none"
  BY DEF X!NoPost
<1>5. view' = IF p.kind = "start" THEN "start" ELSE IF p.kind = "respond" THEN "review" ELSE "ready"
  <2>1. "start" # "respond" /\ "start" # "finalize" /\ "respond" # "finalize"
    OBVIOUS
  <2> QED
    BY <1>1, <1>2, <2>1, Zenon DEF X!ViewAfterError
<1>6. PageTypes'
  <2>1. \A d \in Posts : PostTold(posts[d])'
    BY <1>1, <1>2, <1>3, <1>4 DEF PageTypes, PostTold
  <2> QED
    BY <1>1, <1>2, <1>3, <1>5, <2>1 DEF PageTypes
<1>7. ASSUME ~ disturbed PROVE WaitsForOne' /\ ListensAlone' /\ Budgeted' /\ Counted'
  <2>1. WaitsForOne /\ ListensAlone /\ Budgeted /\ Counted
    BY <1>7 DEF PageInv
  <2>2. \A d \in Posts : d # c => ~ posts[d].heeded /\ posts[d].kind # "respond"
    BY <1>2, <2>1 DEF WaitsForOne
  <2>3. view = WaitingView(p.kind) /\ speech = "none"
    BY <1>2, <2>1 DEF WaitsForOne
  <2>4. view \in {"starting", "submitting", "finalizing"} /\ (p.kind # "start" => view \in {"submitting", "finalizing"})
    BY <1>2, <2>3, Zenon DEF WaitingView
  <2>5. WaitsForOne'
    BY <1>3, <1>4, <2>2 DEF WaitsForOne
  <2>6. ListensAlone'
    BY <1>1, <2>1, <2>3, <2>4 DEF ListensAlone
  <2>7. ~ Answering'
    BY <1>3, <1>4, <2>2 DEF Answering
  <2>8. p.kind = "respond" => Answering
    BY DEF Answering
  <2>9. Budgeted'
    BY <1>1, <1>2, <1>3, <1>4, <1>5, <2>1, <2>7, <2>8 DEF Budgeted
  <2>10. p.kind # "start" => turns = count
    <3>1. p.kind = "respond" => turns = count
      BY <1>1, <2>1 DEF Counted
    <3>2. p.kind = "finalize" => ~ Answering
      BY <2>2 DEF Answering
    <3> QED
      BY <1>2, <2>1, <2>4, <3>1, <3>2 DEF Counted
  <2>11. Counted'
    BY <1>1, <1>3, <1>4, <1>5, <2>1, <2>2, <2>10 DEF Counted
  <2> QED
    BY <2>5, <2>6, <2>9, <2>11
<1> QED
  BY <1>1, <1>6, <1>7 DEF PageInv

\* A call is given up: from here on only what the server knows is claimed.
LEMMA PageBreaks ==
  ASSUME PageInv, NEW c \in Posts, X!Break(c)
  PROVE  PageInv'
<1> DEFINE p == posts[c]
<1>1. /\ p.heeded /\ p.at \in {"sent", "asking", "answered"} /\ view' = X!ViewAfterError(p.kind)
      /\ posts' = [posts EXCEPT ![c] = IF p.at = "answered" THEN X!NoPost ELSE [p EXCEPT !.heeded = FALSE]]
      /\ disturbed' = TRUE
      /\ UNCHANGED <<heard, ears, handle, timer, speech, count, shown, turns, graded>>
  BY DEF X!Break, X!mic
<1>2. PageTypes /\ p \in PagePost /\ PostTold(p) /\ p.kind \in {"start", "respond", "finalize"}
  BY <1>1 DEF PageInv, PageTypes, PagePost, PostTold
<1>3. view' \in {"start", "review", "ready"}
  BY <1>1, <1>2, Zenon DEF X!ViewAfterError
<1>4. posts'[c] \in PagePost /\ PostTold(posts[c])'
  <2>1. CASE p.at = "answered"
    <3>1. posts'[c] = X!NoPost
      BY <1>1, <1>2, <2>1 DEF PageTypes
    <3> QED
      BY <3>1 DEF X!NoPost, PagePost, PostTold
  <2>2. CASE p.at # "answered"
    <3>1. posts'[c] = [p EXCEPT !.heeded = FALSE]
      BY <1>1, <1>2, <2>2 DEF PageTypes
    <3>2. /\ posts'[c] \in PagePost /\ posts'[c].kind = p.kind /\ posts'[c].at = p.at
          /\ posts'[c].final = p.final
      BY <1>2, <3>1 DEF PagePost
    <3> QED
      BY <1>1, <1>2, <2>2, <3>2 DEF PostTold
  <2> QED
    BY <2>1, <2>2
<1>5. \A d \in Posts : d # c => posts'[d] = posts[d]
  BY <1>1, <1>2 DEF PageTypes
<1>6. \A d \in Posts : PostTold(posts[d])'
  BY <1>1, <1>2, <1>4, <1>5 DEF PageTypes, PostTold
<1>7. posts' \in [Posts -> PagePost]
  <2>1. posts' = [d \in Posts |-> posts'[d]]
    BY <1>1, <1>2 DEF PageTypes
  <2>2. \A d \in Posts : posts'[d] \in PagePost
    BY <1>2, <1>4, <1>5 DEF PageTypes
  <2> QED
    BY <2>1, <2>2
<1>8. PageTypes'
  BY <1>1, <1>2, <1>3, <1>6, <1>7 DEF PageTypes
<1> QED
  BY <1>1, <1>8 DEF PageInv

\* While the page speaks, listens or rests it heeds no post.
LEMMA NobodyWaits ==
  ASSUME PageInv, ~ disturbed, speech # "none" \/ view \notin {"starting", "submitting", "finalizing"}
  PROVE  \A c \in Posts : ~ posts[c].heeded
<1>1. SUFFICES ASSUME NEW c \in Posts, posts[c].heeded PROVE FALSE
  OBVIOUS
<1>2. posts[c].kind \in {"start", "respond", "finalize"}
  BY <1>1 DEF PageInv, PageTypes, PagePost, PostTold
<1>3. WaitingView(posts[c].kind) \in {"starting", "submitting", "finalizing"}
  BY <1>2, Zenon DEF WaitingView
<1> QED
  BY <1>1, <1>3 DEF PageInv, WaitsForOne

\* The page speaks or listens, and waits for no call meanwhile.
LEMMA PageMoves ==
  ASSUME PageInv, UNCHANGED <<count, shown, posts, turns, graded>>,
         disturbed => disturbed', disturbed' \in BOOLEAN,
         view' \in {"start", "starting", "listening", "ready", "recording", "review", "submitting", "finalizing"},
         heard' \in Text, handle' \in Ears \union {Nobody}, timer' \in Ears \union {Nobody},
         ears' \in [Ears -> [step : {"off", "on", "stopping", "failed"}, seen : Text, more : BOOLEAN]],
         speech' \in {"none", "queued", "speaking"},
         ~ disturbed' =>
           /\ ListensAlone'
           /\ view' \in {"recording", "review"} => view' = view \/ count < QuestionCount
           /\ \/ view' = view /\ speech' = speech
              \/ /\ speech # "none" \/ view \notin {"starting", "submitting", "finalizing"}
                 /\ view \notin {"start", "starting"}
  PROVE  PageInv'
<1>1. PageTypes'
  BY DEF PageInv, PageTypes, PostTold
<1>2. ASSUME ~ disturbed' PROVE WaitsForOne' /\ Budgeted' /\ Counted'
  <2>1. WaitsForOne /\ Budgeted /\ Counted
    BY <1>2 DEF PageInv
  <2>2. WaitsForOne'
    <3>1. CASE view' = view /\ speech' = speech
      BY <2>1, <3>1 DEF WaitsForOne
    <3>2. CASE speech # "none" \/ view \notin {"starting", "submitting", "finalizing"}
      BY <1>2, <2>1, <3>2, NobodyWaits DEF WaitsForOne
    <3> QED
      BY <1>2, <3>1, <3>2
  <2>3. Budgeted'
    BY <1>2, <2>1 DEF Budgeted, Answering
  <2>4. Counted'
    BY <1>2, <2>1 DEF Counted, Answering
  <2> QED
    BY <2>2, <2>3, <2>4
<1> QED
  BY <1>1, <1>2 DEF PageInv

\* The page reads a question aloud.
LEMMA PageSpeaks ==
  ASSUME PageInv, X!SpeechStarts \/ X!SpeechEnds
  PROVE  PageInv'
<1>1. /\ speech # "none"
      /\ \/ speech' = "speaking" /\ view' = "listening"
         \/ speech' = "none" /\ view' = IF view = "listening" THEN "ready" ELSE view
      /\ UNCHANGED <<heard, ears, handle, timer, count, shown, posts, turns, graded, disturbed>>
  BY DEF X!SpeechStarts, X!SpeechEnds, X!mic
<1>2. PageTypes
  BY DEF PageInv
<1>3. ~ disturbed => /\ view \in {"listening", "submitting", "finalizing"}
                     /\ \A e \in Ears : ears[e].step # "on"
  BY <1>1 DEF PageInv, ListensAlone
<1>4. ~ disturbed => ListensAlone'
  BY <1>1, <1>3 DEF ListensAlone
<1> QED
  BY <1>1, <1>2, <1>3, <1>4, PageMoves DEF PageTypes

Ear == [step : {"off", "on", "stopping", "failed"}, seen : Text, more : BOOLEAN]

\* The record of a recogniser keeps its type.
LEMMA EarMoves ==
  ASSUME PageTypes
  PROVE  /\ \A e \in Ears : ears[e] \in Ear
         /\ X!Nothing \in Text /\ X!Off \in Ear
         /\ \A ear \in Ear, step \in {"off", "on", "stopping", "failed"} :
              [ear EXCEPT !.step = step] \in Ear /\ [ear EXCEPT !.step = step].step = step
<1>1. \A e \in Ears : ears[e] \in Ear
  BY DEF PageTypes, Ear
<1>2. X!Nothing \in Text
  BY DEF X!Nothing, Text
<1>3. X!Off \in Ear
  BY <1>2 DEF X!Off, Ear
<1>4. \A ear \in Ear, step \in {"off", "on", "stopping", "failed"} :
        [ear EXCEPT !.step = step] \in Ear /\ [ear EXCEPT !.step = step].step = step
  BY DEF Ear
<1> QED
  BY <1>1, <1>2, <1>3, <1>4

\* The recogniser hears, falls silent or fails.
LEMMA PageListens ==
  ASSUME PageInv, X!Listening
  PROVE  PageInv'
<1>1. PageTypes /\ ears \in [Ears -> Ear] /\ handle \in Ears \union {Nobody} /\ timer \in Ears \union {Nobody} /\ heard \in Text
  BY DEF PageInv, PageTypes, Ear
<1>2. ~ disturbed => \A e \in Ears : ears[e].step = "on" => view = "recording" /\ handle = e
  BY DEF PageInv, ListensAlone
<1>3. ~ disturbed => (speech # "none" => view \in {"listening", "submitting", "finalizing"})
  BY DEF PageInv, ListensAlone
<1>4. ASSUME NEW e \in Ears, X!StartMic(e) PROVE PageInv'
  <2>1. /\ view = "ready" /\ ~ (count >= QuestionCount)
        /\ ears' = [ears EXCEPT ![e] = [step |-> "on", seen |-> heard, more |-> TRUE]]
        /\ heard' = X!Nothing /\ handle' = e /\ timer' = e /\ view' = "recording"
        /\ UNCHANGED <<speech, count, shown, posts, turns, graded, disturbed>>
    BY <1>4 DEF X!StartMic, X!Due
  <2>2. count < QuestionCount
    BY <1>1, <2>1, BranchDayAssumption DEF PageTypes
  <2>3. [step |-> "on", seen |-> heard, more |-> TRUE] \in Ear
    BY <1>1 DEF Ear
  <2>4. ears' \in [Ears -> Ear] /\ \A d \in Ears : d # e => ears'[d] = ears[d]
    BY <1>1, <2>1, <2>3
  <2>5. ~ disturbed' => ListensAlone'
    BY <1>2, <1>3, <2>1, <2>4 DEF ListensAlone
  <2> QED
    BY <1>1, <2>1, <2>2, <2>4, <2>5, EarMoves, PageMoves DEF PageTypes, Ear
<1>5. ASSUME NEW e \in Ears, X!Hears(e) PROVE PageInv'
  <2>1. /\ heard' \in {[heard EXCEPT !.interim = TRUE], [answer |-> TRUE, interim |-> FALSE]} /\ timer' = e
        /\ UNCHANGED <<view, ears, handle, speech, count, shown, posts, turns, graded, disturbed>>
    BY <1>5 DEF X!Hears
  <2>2. heard' \in Text
    <3>1. [heard EXCEPT !.interim = TRUE] \in Text
      BY <1>1 DEF Text
    <3>2. [answer |-> TRUE, interim |-> FALSE] \in Text
      BY DEF Text
    <3> QED
      BY <2>1, <3>1, <3>2
  <2>3. ~ disturbed' => ListensAlone'
    BY <1>2, <1>3, <2>1 DEF ListensAlone
  <2> QED
    BY <1>1, <2>1, <2>2, <2>3, PageMoves DEF PageTypes, Ear
<1>6. ASSUME NEW e \in Ears, X!Ends(e) PROVE PageInv'
  <2>1. /\ ears' = [ears EXCEPT ![e] = X!Off] /\ timer' = Nobody
        /\ UNCHANGED <<view, heard, handle, speech, count, shown, posts, turns, graded, disturbed>>
    BY <1>6 DEF X!Ends
  <2>2. ears' \in [Ears -> Ear] /\ ears'[e].step = "off" /\ \A d \in Ears : d # e => ears'[d] = ears[d]
    BY <1>1, <2>1, EarMoves DEF X!Off
  <2>3. ~ disturbed' => ListensAlone'
    BY <1>2, <1>3, <2>1, <2>2 DEF ListensAlone
  <2> QED
    BY <1>1, <2>1, <2>2, <2>3, PageMoves DEF PageTypes, Ear
<1>7. ASSUME NEW e \in Ears, X!Fails(e) PROVE PageInv'
  <2>1. /\ ears' = [ears EXCEPT ![e].step = "failed"] /\ view' = "ready"
        /\ disturbed' = (disturbed \/ view # "recording" \/ handle # e)
        /\ UNCHANGED <<heard, handle, timer, speech, count, shown, posts, turns, graded>>
    BY <1>7 DEF X!Fails, X!Late
  <2>2. ears'[e] = [ears[e] EXCEPT !.step = "failed"] /\ \A d \in Ears : d # e => ears'[d] = ears[d]
    BY <1>1, <2>1
  <2>3. ears' \in [Ears -> Ear] /\ ears'[e].step = "failed"
    BY <1>1, <2>1, <2>2, EarMoves
  <2>4. disturbed' \in BOOLEAN
    BY <1>1, <2>1 DEF PageTypes
  <2>5. ~ disturbed' => ListensAlone'
    BY <1>2, <1>3, <2>1, <2>2, <2>3 DEF ListensAlone
  <2> QED
    BY <1>1, <2>1, <2>3, <2>4, <2>5, PageMoves DEF PageTypes, Ear
<1>8. ASSUME NEW e \in Ears, NEW other \in Ears, X!FallsBack(e, other) PROVE PageInv'
  <2> DEFINE mid == [ears EXCEPT ![e].step = "failed"]
             new == [step |-> "on", seen |-> ears[e].seen, more |-> FALSE]
  <2>1. /\ ears[e].step \in {"on", "stopping"} /\ ears[other].step = "off"
        /\ ears' = [ears EXCEPT ![e].step = "failed", ![other] = new] /\ handle' = other
        /\ disturbed' = (disturbed \/ view # "recording" \/ handle # e)
        /\ UNCHANGED <<view, heard, timer, speech, count, shown, posts, turns, graded>>
    BY <1>8 DEF X!FallsBack, X!Late
  <2>2. mid[e] = [ears[e] EXCEPT !.step = "failed"] /\ \A d \in Ears : d # e => mid[d] = ears[d]
    BY <1>1
  <2>3. mid \in [Ears -> Ear] /\ mid[e].step = "failed"
    BY <1>1, <2>2, EarMoves
  <2>4. new \in Ear
    BY <1>1 DEF Ear
  <2>5. e # other /\ ears' = [mid EXCEPT ![other] = new]
    BY <2>1
  <2> HIDE DEF mid
  <2>6. ears' \in [Ears -> Ear] /\ ears'[e].step = "failed" /\ \A d \in Ears : d \notin {e, other} => ears'[d] = ears[d]
    BY <2>2, <2>3, <2>4, <2>5
  <2>7. disturbed' \in BOOLEAN
    BY <1>1, <2>1 DEF PageTypes
  <2>8. ~ disturbed' => ListensAlone'
    BY <1>2, <1>3, <2>1, <2>6 DEF ListensAlone
  <2> QED
    BY <1>1, <2>1, <2>6, <2>7, <2>8, PageMoves DEF PageTypes, Ear
<1> QED
  BY <1>4, <1>5, <1>6, <1>7, <1>8 DEF X!Listening

\* Recording ends by the silence timer or by the button.
LEMMA PageStops ==
  ASSUME PageInv, NEW seen, X!StopMic(seen)
  PROVE  PageInv'
<1>1. PageTypes /\ ears \in [Ears -> Ear] /\ handle \in Ears \union {Nobody} /\ heard \in Text
  BY DEF PageInv, PageTypes, Ear
<1>2. /\ timer' = Nobody
      /\ ears' = [e \in Ears |-> IF e = handle /\ ears[e].step = "on"
                                 THEN [ears[e] EXCEPT !.step = "stopping"] ELSE ears[e]]
      /\ IF view = "recording" THEN view' \in {"review", "ready"} ELSE view' = view
      /\ heard' = [answer |-> heard.answer \/ (view = "recording" /\ ~ seen.answer /\ seen.interim), interim |-> FALSE]
      /\ UNCHANGED <<handle, speech, count, shown, posts, turns, graded, disturbed>>
  BY DEF X!StopMic
<1>3. heard' \in Text
  BY <1>1, <1>2 DEF Text
<1>4. ears' \in [Ears -> Ear] /\ \A e \in Ears : ears'[e].step = "on" => ears[e].step = "on" /\ handle # e
  BY <1>1, <1>2, EarMoves
<1>5. ~ disturbed => /\ \A e \in Ears : ears'[e].step # "on"
                     /\ speech # "none" => view \in {"listening", "submitting", "finalizing"}
  BY <1>4 DEF PageInv, ListensAlone
<1>6. ~ disturbed' => ListensAlone'
  BY <1>2, <1>5 DEF ListensAlone
<1>7. ~ disturbed /\ view = "recording" => count < QuestionCount
  BY DEF PageInv, Budgeted
<1> QED
  BY <1>1, <1>2, <1>3, <1>4, <1>6, <1>7, PageMoves DEF PageTypes, Ear

\* The student throws the recorded answer away.
LEMMA PageRetries ==
  ASSUME PageInv, X!Retry
  PROVE  PageInv'
<1>1. /\ view = "review" /\ view' = "ready" /\ heard' = X!Nothing
      /\ UNCHANGED <<ears, handle, timer, speech, count, shown, posts, turns, graded, disturbed>>
  BY DEF X!Retry
<1>2. PageTypes /\ X!Nothing \in Text
  BY EarMoves DEF PageInv
<1>3. ~ disturbed' => ListensAlone'
  BY <1>1 DEF PageInv, ListensAlone
<1> QED
  BY <1>1, <1>2, <1>3, PageMoves DEF PageTypes

\* The page is opened again: the calls the server has go on without it.
LEMMA PageReloads ==
  ASSUME PageInv, X!Reload
  PROVE  PageInv'
<1> DEFINE left(p) == IF p.at \in {"sent", "asking"} THEN [p EXCEPT !.heeded = FALSE] ELSE X!NoPost
<1>1. /\ view' = "start" /\ heard' = X!Nothing /\ count' = 0 /\ shown' = graded
      /\ ears' = [e \in Ears |-> X!Off] /\ handle' = Nobody /\ timer' = Nobody /\ speech' = "none"
      /\ posts' = [c \in Posts |-> left(posts[c])]
      /\ disturbed' = (disturbed \/ \E c \in Posts : posts[c].kind = "respond" /\ posts[c].at \in {"sent", "asking"})
      /\ UNCHANGED <<turns, graded>>
  BY DEF X!Reload
<1>2. PageTypes /\ X!Off \in Ear /\ X!Nothing \in Text
  BY EarMoves DEF PageInv
<1>3. X!NoPost \in PagePost /\ X!NoPost.kind = "none" /\ X!NoPost.at = "none" /\ ~ X!NoPost.heeded /\ ~ X!NoPost.final
  BY DEF X!NoPost, PagePost
<1>4. \A p \in PagePost :
        /\ left(p) \in PagePost /\ ~ left(p).heeded
        /\ p.at \in {"sent", "asking"} =>
             left(p).kind = p.kind /\ left(p).at = p.at /\ left(p).turn = p.turn /\ left(p).final = p.final
        /\ p.at \notin {"sent", "asking"} => left(p).kind = "none" /\ left(p).at = "none" /\ ~ left(p).final
  <2>1. SUFFICES ASSUME NEW p \in PagePost
                 PROVE  /\ left(p) \in PagePost /\ ~ left(p).heeded
                        /\ p.at \in {"sent", "asking"} =>
                             left(p).kind = p.kind /\ left(p).at = p.at /\ left(p).turn = p.turn /\ left(p).final = p.final
                        /\ p.at \notin {"sent", "asking"} => left(p).kind = "none" /\ left(p).at = "none" /\ ~ left(p).final
    OBVIOUS
  <2>2. CASE p.at \in {"sent", "asking"}
    BY <2>1, <2>2 DEF PagePost
  <2>3. CASE p.at \notin {"sent", "asking"}
    BY <1>3, <2>3
  <2> QED
    BY <2>2, <2>3
<1> HIDE DEF left
<1>5. \A c \in Posts : posts'[c] = left(posts[c]) /\ posts[c] \in PagePost
  BY <1>1, <1>2 DEF PageTypes
<1>6. \A c \in Posts : PostTold(posts[c])'
  BY <1>1, <1>2, <1>4, <1>5 DEF PostTold, PageTypes
<1>7. posts' \in [Posts -> PagePost]
  BY <1>1, <1>4, <1>5
<1>8. ears' \in [Ears -> Ear] /\ \A e \in Ears : ears'[e].step = "off"
  BY <1>1, <1>2 DEF X!Off
<1>9. PageTypes'
  BY <1>1, <1>2, <1>6, <1>7, <1>8 DEF PageTypes, Ear
<1>10. ASSUME ~ disturbed' PROVE WaitsForOne' /\ ListensAlone' /\ Budgeted' /\ Counted'
  <2>1. WaitsForOne /\ Budgeted /\ Counted /\ \A c \in Posts : ~ (posts[c].kind = "respond" /\ posts[c].at \in {"sent", "asking"})
    BY <1>1, <1>10 DEF PageInv
  <2>2. \A c \in Posts : ~ posts'[c].heeded /\ posts'[c].kind # "respond" /\ posts'[c].at # "answered"
    BY <1>4, <1>5, <2>1
  <2>3. WaitsForOne' /\ ListensAlone'
    BY <1>1, <1>8, <2>2 DEF WaitsForOne, ListensAlone
  <2>4. \A c \in Posts : posts'[c].kind = "finalize" => posts[c].kind = "finalize" /\ posts'[c].at = posts[c].at /\ posts'[c].turn = posts[c].turn
    BY <1>4, <1>5
  <2>5. Budgeted'
    BY <1>1, <2>1, <2>2, <2>4 DEF Budgeted, Answering
  <2>6. Counted'
    BY <1>1, <2>1, <2>2, <2>4 DEF Counted
  <2> QED
    BY <2>3, <2>5, <2>6
<1> QED
  BY <1>1, <1>9, <1>10 DEF PageInv

\* THEOREM (OralExamRunner.tsx:193-440).  For every number of questions, of
\* recognisers and of open calls: as long as no call is given up and no
\* recogniser fails late, the page goes by the count of the server but for the
\* answer under way, never asks for an answer beyond the agreed number and does
\* not listen to its own voice; and a result it shows is always the server's.
THEOREM ExamPage == Spec => []PageAgrees
<1>1. PagesInv /\ [Next]_vars => PagesInv'
  <2> SUFFICES ASSUME PagesInv, [Next]_vars PROVE PagesInv'
    OBVIOUS
  <2>1. /\ part' = part
        /\ part = "page" => X!Next \/ UNCHANGED PageVars
        /\ part # "page" => UNCHANGED PageVars
    BY PageMove
  <2>2. CASE part # "page"
    BY <2>1, <2>2 DEF PagesInv, PageVars, X!Opened
  <2>3. CASE part = "page" /\ UNCHANGED PageVars
    BY <2>1, <2>3 DEF PagesInv, PageInv, PageVars, PageTypes, PostTold, WaitsForOne, ListensAlone, Budgeted, Counted, Answering
  <2>4. ASSUME part = "page", X!Next PROVE PageInv'
    <3>1. PageInv
      BY <2>4 DEF PagesInv
    <3>2. WaitingView("start") = "starting" /\ WaitingView("respond") = "submitting" /\ WaitingView("finalize") = "finalizing"
      <4>1. "start" # "respond" /\ "start" # "finalize" /\ "respond" # "finalize"
        OBVIOUS
      <4> QED
        BY <4>1, Zenon DEF WaitingView
    <3>3. CASE X!Begin
      BY <3>1, <3>2, <3>3, PageCalls DEF X!Begin, X!mic
    <3>4. CASE X!Submit
      BY <3>1, <3>2, <3>4, PageCalls DEF X!Submit, X!mic
    <3>5. CASE X!ForceFinalize
      BY <3>1, <3>2, <3>5, PageCalls DEF X!ForceFinalize, X!Due, X!mic
    <3>6. ASSUME NEW c \in Posts, X!Call(c) PROVE PageInv'
      BY <3>1, <3>6, PageServes, PageReceives, PageReceivesError, PageBreaks DEF X!Call
    <3>7. CASE X!SpeechStarts \/ X!SpeechEnds
      BY <3>1, <3>7, PageSpeaks
    <3>8. CASE X!Listening
      BY <3>1, <3>8, PageListens
    <3>9. CASE X!Silence
      BY <3>1, <3>9, PageStops DEF X!Silence
    <3>10. CASE X!TapStop
      BY <3>1, <3>10, PageStops DEF X!TapStop
    <3>11. CASE X!Retry \/ X!Reload
      BY <3>1, <3>11, PageRetries, PageReloads
    <3> QED
      BY <2>4, <3>3, <3>4, <3>5, <3>6, <3>7, <3>8, <3>9, <3>10, <3>11 DEF X!Next
  <2> QED
    BY <2>1, <2>2, <2>3, <2>4 DEF PagesInv
<1>2. PagesInv => PageAgrees
  <2> SUFFICES ASSUME PagesInv PROVE PageAgrees
    OBVIOUS
  <2>1. CASE part = "page"
    <3>1. PageInv
      BY <2>1 DEF PagesInv
    <3>2. X!CountAgrees
      <4>1. SUFFICES ASSUME ~ disturbed, view \notin {"start", "starting"}
                     PROVE  turns = count \/ (turns = count + 1 /\ Answering)
        BY DEF X!CountAgrees, X!Conversing, Answering
      <4>2. CASE Answering
        BY <3>1, <4>1, <4>2 DEF PageInv, Counted, Answering
      <4>3. CASE ~ Answering
        BY <3>1, <4>1, <4>3 DEF PageInv, Counted
      <4> QED
        BY <4>2, <4>3
    <3>3. X!BudgetKept
      BY <3>1 DEF X!BudgetKept, PageInv, Budgeted
    <3>4. X!EarsShutWhileSpeaking
      BY <3>1 DEF X!EarsShutWhileSpeaking, PageInv, ListensAlone
    <3>5. X!ResultIsServers
      BY <3>1 DEF X!ResultIsServers, PageInv
    <3> QED
      BY <3>2, <3>3, <3>4, <3>5 DEF PageAgrees
  <2>2. CASE part # "page"
    <3>1. X!Opened
      BY <2>2 DEF PagesInv
    <3> QED
      BY <3>1, BranchDayAssumption DEF X!Opened, PageAgrees, X!CountAgrees, X!Conversing, X!BudgetKept,
        X!EarsShutWhileSpeaking, X!ResultIsServers
  <2> QED
    BY <2>1, <2>2
<1> QED
  BY PagesStart, <1>1, <1>2, PTL DEF Spec

------------------------------------------------------------------------------
\* What was recorded is not taken back, part by part.

\* The assignee of a task that was seen stays.
LEMMA AssigneeStays ==
  TasksInv /\ [Next]_vars =>
    [~ overlapped' /\ task.status # "sent" => task'.assignee = task.assignee]_(T!vars)
<1> SUFFICES ASSUME TasksInv, [Next]_vars, ~ overlapped', task.status # "sent"
             PROVE  task'.assignee = task.assignee \/ UNCHANGED T!vars
  OBVIOUS
<1>1. CASE part # "tasks" \/ UNCHANGED <<task, points, doer, worth, dropped, pc, req, overlapped>>
  BY <1>1, TasksMove
<1>2. ASSUME part = "tasks", NEW r \in Requests, T!Step(r) PROVE task'.assignee = task.assignee
  <2>1. task \in TaskRow /\ HeldTasks
    BY <1>2 DEF TasksInv, TaskInv, TaskTypes
  <2>2. CASE T!StatusReads(r) \/ T!EditReads(r) \/ T!RemoveReads(r) \/ T!ConfirmReads(r)
    BY <2>2 DEF T!StatusReads, T!EditReads, T!RemoveReads, T!ConfirmReads, T!Read, T!state
  <2>3. CASE T!StatusWrites(r)
    BY <2>1, <2>3 DEF T!StatusWrites, T!Write, TaskRow
  <2>4. CASE T!RemoveWrites(r)
    BY <2>1, <2>4 DEF T!RemoveWrites, T!Write, TaskRow
  <2>5. CASE T!ConfirmWrites(r)
    BY <2>1, <2>5 DEF T!ConfirmWrites, T!Write, TaskRow
  <2>6. CASE T!ConfirmPays(r) \/ T!ConfirmFails(r)
    BY <2>6 DEF T!ConfirmPays, T!ConfirmFails
  <2>7. CASE T!EditWrites(r)
    <3>1. pc[r] = "edit" /\ task = req[r].was
      BY <2>7 DEF T!EditWrites, T!Write
    <3>2. req[r].to.who = "keep"
      BY <2>1, <3>1 DEF HeldTasks
    <3> QED
      BY <2>1, <2>7, <3>2 DEF T!EditWrites, T!Write, TaskRow
  <2> QED
    BY <1>2, <2>2, <2>3, <2>4, <2>5, <2>6, <2>7 DEF T!Step
<1> QED
  BY <1>1, <1>2, TasksMove

\* The status of a submitted video never falls.
LEMMA StatusStays ==
  VideosInv /\ [Next]_vars =>
    [overlapped' \/ U!Rank[video'.status] >= U!Rank[video.status]]_<<video, overlapped>>
<1> SUFFICES ASSUME VideosInv, [Next]_vars, ~ overlapped', video' # video
             PROVE  U!Rank[video'.status] >= U!Rank[video.status]
  <2>1. video' = video /\ VideosInv => U!Rank[video'.status] >= U!Rank[video.status]
    BY DEF U!Rank, VideosInv, VideoInv, VideoTypes, VideoRow, U!Morning
  <2> QED
    BY <2>1
<1>1. part = "videos" /\ ((\E r \in Requests : U!Step(r)) \/ U!Other)
  BY VideosMove
<1>2. video \in VideoRow /\ VideoTypes /\ Late
  BY <1>1 DEF VideosInv, VideoInv, VideoTypes
<1>3. ASSUME NEW r \in Requests, U!Save(r) PROVE U!Rank[video'.status] >= U!Rank[video.status]
  <2>1. /\ pc[r] = "removed" /\ video = req[r].was
        /\ video' = [status |-> U!FinalStatus(r), path |-> r, by |-> r]
    BY <1>3 DEF U!Save
  <2>2. req[r].status \in {"late", "submitted"}
    BY <1>2, <2>1 DEF VideoTypes
  <2>3. video'.status = IF video.status = "submitted" THEN "submitted" ELSE req[r].status
    BY <2>1 DEF U!FinalStatus
  <2> QED
    BY <1>2, <2>2, <2>3 DEF U!Rank, VideoRow
<1>4. ASSUME U!MarkMissedWrites PROVE U!Rank[video'.status] >= U!Rank[video.status]
  <2>1. video = job.was /\ job.step = "looked" /\ video' = [video EXCEPT !.status = "missed"]
    BY <1>4 DEF U!MarkMissedWrites
  <2>2. video.status \in {"none", "missed"} /\ video'.status = "missed"
    BY <1>2, <2>1 DEF Late, U!Submitted, VideoRow
  <2> QED
    BY <2>2 DEF U!Rank
<1>5. ASSUME (\E r \in Requests : U!SetPath(r)) \/ U!PruneRows PROVE U!Rank[video'.status] >= U!Rank[video.status]
  <2>1. PICK path : video' = [video EXCEPT !.path = path]
    BY <1>5 DEF U!SetPath, U!PruneRows
  <2>2. video'.status = video.status
    BY <1>2, <2>1 DEF VideoRow
  <2> QED
    BY <1>2, <2>2 DEF U!Rank, VideoRow
<1> QED
  BY <1>1, <1>3, <1>4, <1>5 DEF U!Step, U!Other, U!Arrive, U!LookUp, U!RemoveOld, U!Rename, U!Break, U!TimePasses,
    U!ListDone, U!MarkMissedLooks, U!Look, U!PruneFiles, U!state

\* A completed lesson stays completed.
LEMMA CompletionStays ==
  LessonsInv /\ [Next]_vars =>
    [\A l \in L!Lessons : progress[l].academy => progress'[l].academy]_progress
<1> SUFFICES ASSUME LessonsInv, [Next]_vars, progress' # progress, NEW l \in 1..LastLesson, progress[l].academy
             PROVE  progress'[l].academy
  BY DEF L!Lessons
<1>1. part = "lessons" /\ ((\E r \in Requests : L!Step(r)) \/ L!Other)
  BY LessonMove
<1>2. LessonTypes
  BY <1>1 DEF LessonsInv, LessonInv
<1>3. progress \in [1..LastLesson -> LessonRow]
  BY <1>2 DEF LessonTypes
<1>4. ASSUME NEW m \in 1..LastLesson, L!StartAcademy(m) PROVE progress'[l].academy
  BY <1>3, <1>4 DEF L!StartAcademy, LessonRow
<1>5. ASSUME NEW m \in 1..LastLesson, L!ExamPassed(m) PROVE progress'[l].academy
  <2> DEFINE mid == [progress EXCEPT ![m].exists = TRUE]
  <2>1. mid \in [1..LastLesson -> LessonRow] /\ (l # m => mid[l] = progress[l])
    BY <1>3 DEF LessonRow
  <2>2. progress' = [mid EXCEPT ![m].academy = TRUE]
    BY <1>5 DEF L!ExamPassed
  <2> HIDE DEF mid
  <2>3. CASE l = m
    <3>1. progress'[l] = [mid[l] EXCEPT !.academy = TRUE] /\ mid[l] \in LessonRow
      BY <2>1, <2>2, <2>3
    <3> QED
      BY <3>1 DEF LessonRow
  <2>4. CASE l # m
    BY <2>1, <2>2, <2>4
  <2> QED
    BY <2>3, <2>4
<1>6. ASSUME NEW r \in Requests, L!SessionWrites(r) PROVE progress'[l].academy
  <2> DEFINE m == req[r].lesson
  <2>1. pc[r] = "count"
    BY <1>6 DEF L!SessionWrites, L!Counts
  <2>2. m \in 1..LastLesson
    BY <1>2, <2>1 DEF LessonTypes, Carries
  <2>3. PICK n, done : progress' = [progress EXCEPT ![m] = [exists |-> TRUE, count |-> n, home |-> done, academy |-> progress[m].academy]]
    BY <1>6 DEF L!SessionWrites, L!Counts
  <2> QED
    BY <1>3, <2>2, <2>3
<1>7. ASSUME NEW r \in Requests, NEW m \in 1..LastLesson, L!MarkAcademy(r, m) PROVE progress'[l].academy
  BY <1>3, <1>7 DEF L!MarkAcademy, LessonRow
<1>8. ASSUME NEW r \in Requests, L!BulkWrites(r) PROVE progress'[l].academy
  <2> DEFINE m == req[r].next
             new == [exists |-> TRUE, count |-> L!BulkCount(req[r].rows[m]), home |-> TRUE, academy |-> TRUE]
  <2>1. progress' = [progress EXCEPT ![m] = new] \/ progress' = progress
    BY <1>8 DEF L!BulkWrites
  <2>2. new.academy
    OBVIOUS
  <2> HIDE DEF new, m
  <2> QED
    BY <1>3, <2>1, <2>2
<1> QED
  BY <1>1, <1>4, <1>5, <1>6, <1>7, <1>8 DEF L!Step, L!Other, L!Lessons, L!SessionBegins, L!BulkReads, L!SessionReads, L!CityLooks,
    L!CityCounts, L!CityBuilds, L!CityFails, L!CertificateCounts, L!CertificateLooks, L!CertificateIssues,
    L!BulkSkips, L!SetOverride, L!rows, L!state

\* A request that was withdrawn or carried out stays so.
LEMMA AsksStay ==
  AsksInv /\ [Next]_vars =>
    [\A i \in E!Ids : asks[i] \in E!Final => overlapped' \/ asks'[i] = asks[i]]_<<asks, overlapped>>
<1> SUFFICES ASSUME AsksInv, [Next]_vars, ~ overlapped', NEW i \in E!Ids, asks[i] \in E!Final
             PROVE  asks'[i] = asks[i]
  OBVIOUS
<1>1. CASE part # "erasure" \/ UNCHANGED <<asks, due, erased, found, agreed, pc, req, overlapped>>
  BY <1>1, ErasureMove
<1>2. CASE part = "erasure" /\ ((\E r \in Requests : E!Step(r)) \/ E!Other)
  <2>1. asks \in [E!Ids -> AskStatus] /\ HeldAsks
    BY <1>2 DEF AsksInv, ErasureInv, ErasureTypes
  <2>2. asks[i] \notin {"none", "pending", "scheduled"}
    BY DEF E!Final
  <2>3. ASSUME NEW r \in Requests, E!CancelWrites(r) \/ E!ApproveWrites(r) PROVE asks'[i] = asks[i]
    <3>1. /\ pc[r] \in {"cancel", "approve"} /\ asks[req[r].on] = req[r].was
          /\ asks' = [asks EXCEPT ![req[r].on] = "cancelled"] \/ asks' = [asks EXCEPT ![req[r].on] = "scheduled"]
      BY <2>3 DEF E!CancelWrites, E!ApproveWrites, E!Write
    <3>2. asks[req[r].on] \in {"pending", "scheduled"}
      BY <2>1, <3>1 DEF HeldAsks, E!Open
    <3> QED
      BY <2>1, <2>2, <3>1, <3>2
  <2>4. ASSUME NEW r \in Requests, E!AskCreates(r) PROVE asks'[i] = asks[i]
    BY <2>1, <2>2, <2>4 DEF E!AskCreates
  <2>5. CASE E!JobErases
    <3>1. PICK j \in found : asks' = [asks EXCEPT ![j] = "completed"] /\ asks[j] = "scheduled"
      BY <2>5 DEF E!JobErases
    <3> QED
      BY <2>1, <2>2, <3>1
  <2> QED
    BY <1>2, <2>3, <2>4, <2>5 DEF E!Step, E!Other, E!AskReads, E!CancelReads, E!ApproveReads, E!Read, E!rows,
      E!TimePasses, E!JobReads, E!JobFails
<1> QED
  BY <1>1, <1>2, ErasureMove

\* What was recorded is not taken back, unless a write was overtaken by another:
\* the assignee of a task that was seen (tasks.service.ts:180-213), a video that
\* was submitted (video-checkin.service.ts:150-265), a lesson that was completed
\* (progress.service.ts:106-122), a request that was withdrawn or carried out
\* (privacy.service.ts:105-140).
THEOREM RecordsStay == Spec => NothingTakenBack
<1>1. TasksInv /\ VideosInv /\ LessonsInv /\ AsksInv /\ [Next]_vars => (TasksInv /\ VideosInv /\ LessonsInv /\ AsksInv)'
  BY TasksNext, VideosNext, LessonsNext, AsksNext
<1>2. Init => TasksInv /\ VideosInv /\ LessonsInv /\ AsksInv
  BY TasksStart, VideosStart, LessonsStart, AsksStart
<1> QED
  BY <1>1, <1>2, AssigneeStays, StatusStays, CompletionStays, AsksStay, PTL DEF NothingTakenBack, T!AssigneeStaysOnceSeen,
    U!StatusNeverFalls, L!AcademyStays, E!FinalStays, Spec
====
