-------------------------------- MODULE Outbox --------------------------------
(***************************************************************************)
(* Analytics events on their way from PostgreSQL to ClickHouse.  logEvent  *)
(* (analytics/analytics.service.ts) writes a row, and behind the answer    *)
(* inserts it into ClickHouse and marks it; a nightly job                  *)
(* (cron/cron.service.ts, clickhouse_retry) does the same for the oldest   *)
(* rows without a mark.  The table of ClickHouse has no key, so a row that *)
(* is sent twice is there twice.                                           *)
(***************************************************************************)
EXTENDS Integers, FiniteSets

CONSTANTS
  Requests,   \* calls of logEvent whose promise can be open at the same time
  MaxEvents,  \* bound: analytics events
  Batch       \* rows the job takes in one night

VARIABLES
  events,     \* analytics_events: none, waiting (syncedAt is null), synced
  stored,     \* how often each event is in ClickHouse
  ready,      \* the client of ClickHouse connected when the server started
  todo,       \* the rows the job read and has not handled
  sending,    \* where the job is with the first of them
  pc, req,    \* where each open promise is, and its event
  doubtful    \* history: events whose insert or mark went unanswered, or that
              \* two senders had at the same time

outbox == <<events, stored, ready, todo, sending, doubtful>>
vars == <<outbox, pc, req>>

Ids == 1..MaxEvents       \* in the order of createdAt
NoReq == [event |-> 0]
MaxCopies == 3            \* bound: unanswered inserts of one event

Silent ==
  /\ events = [e \in Ids |-> "none"]
  /\ stored = [e \in Ids |-> 0]
  /\ ready \in BOOLEAN
  /\ todo = {} /\ sending = "idle" /\ doubtful = {}

Row(e) ==
  /\ events[e] = "none" /\ \A d \in Ids : d < e => events[d] # "none"
  /\ events' = [events EXCEPT ![e] = "waiting"]

Return(r) ==
  /\ pc' = [pc EXCEPT ![r] = "idle"]
  /\ req' = [req EXCEPT ![r] = NoReq]

\* logEvent: the row must be written; ClickHouse is tried if it is there.
LogCreates(r) ==
  \E e \in Ids :
    /\ pc[r] = "idle" /\ Row(e)
    /\ IF ready
       THEN /\ pc' = [pc EXCEPT ![r] = "insert"]
            /\ req' = [req EXCEPT ![r] = [event |-> e]]
       ELSE UNCHANGED <<pc, req>>
    /\ UNCHANGED <<stored, ready, todo, sending, doubtful>>

\* The nightly mirror of study time writes rows and leaves them to the job.
MirrorCreates ==
  /\ \E e \in Ids : Row(e)
  /\ UNCHANGED <<stored, ready, todo, sending, doubtful, pc, req>>

Insert(e) ==
  /\ stored[e] < MaxCopies
  /\ stored' = [stored EXCEPT ![e] = @ + 1]

\* The insert took place or not; nobody knows.
Unanswered(e) ==
  /\ stored[e] < MaxCopies
  /\ stored' \in {stored, [stored EXCEPT ![e] = @ + 1]}
  /\ doubtful' = doubtful \union {e}

Inserts(r) ==
  /\ pc[r] = "insert"
  /\ Insert(req[r].event)
  /\ pc' = [pc EXCEPT ![r] = "mark"]
  /\ UNCHANGED <<events, ready, todo, sending, req, doubtful>>

\* Faulty variant: the failure is caught before the mark is set.
InsertFailsMarks(r) ==
  /\ pc[r] = "insert"
  /\ Unanswered(req[r].event)
  /\ pc' = [pc EXCEPT ![r] = "mark"]
  /\ UNCHANGED <<events, ready, todo, sending, req>>

InsertFails(r) ==
  /\ pc[r] = "insert"
  /\ Unanswered(req[r].event)
  /\ Return(r)
  /\ UNCHANGED <<events, ready, todo, sending>>

Marks(r) ==
  /\ pc[r] = "mark"
  /\ events' = [events EXCEPT ![req[r].event] = "synced"]
  /\ Return(r)
  /\ UNCHANGED <<stored, ready, todo, sending, doubtful>>

MarkFails(r) ==
  /\ pc[r] = "mark"
  /\ doubtful' = doubtful \union {req[r].event}
  /\ Return(r)
  /\ UNCHANGED <<events, stored, ready, todo, sending>>

Step(r) == LogCreates(r) \/ Inserts(r) \/ InsertFails(r) \/ Marks(r) \/ MarkFails(r)

------------------------------------------------------------------------------
InHand == {req[r].event : r \in {s \in Requests : pc[s] # "idle"}}

\* Faulty variant: the oldest rows, marked or not.
OldestAny == {e \in Ids : events[e] # "none" /\ e <= Batch}

\* The oldest rows without a mark.
Oldest ==
  LET waiting == {e \in Ids : events[e] = "waiting"} IN
  {e \in waiting : Cardinality({d \in waiting : d < e}) < Batch}

JobReads ==
  /\ sending = "idle" /\ ready /\ Oldest # {}
  /\ todo' = Oldest
  /\ sending' = "insert"
  /\ doubtful' = doubtful \union (Oldest \intersect InHand)
  /\ UNCHANGED <<events, stored, ready, pc, req>>

First == CHOOSE e \in todo : \A d \in todo : e <= d

NextRow ==
  /\ todo' = todo \ {First}
  /\ sending' = IF todo = {First} THEN "idle" ELSE "insert"

JobInserts ==
  /\ sending = "insert"
  /\ Insert(First)
  /\ sending' = "mark"
  /\ UNCHANGED <<events, ready, todo, pc, req, doubtful>>

JobInsertFails ==
  /\ sending = "insert"
  /\ Unanswered(First)
  /\ NextRow
  /\ UNCHANGED <<events, ready, pc, req>>

JobMarks ==
  /\ sending = "mark"
  /\ events' = [events EXCEPT ![First] = "synced"]
  /\ NextRow
  /\ UNCHANGED <<stored, ready, pc, req, doubtful>>

JobMarkFails ==
  /\ sending = "mark"
  /\ doubtful' = doubtful \union {First}
  /\ NextRow
  /\ UNCHANGED <<events, stored, ready, pc, req>>

\* The server stops with everything it had in hand, and comes back with
\* ClickHouse or without it.
Restart ==
  /\ doubtful' = doubtful \union InHand \union (IF sending = "mark" THEN {First} ELSE {})
  /\ ready' \in BOOLEAN
  /\ todo' = {} /\ sending' = "idle"
  /\ pc' = [r \in Requests |-> "idle"]
  /\ req' = [r \in Requests |-> NoReq]
  /\ UNCHANGED <<events, stored>>

Other == MirrorCreates \/ JobReads \/ JobInserts \/ JobInsertFails \/ JobMarks \/ JobMarkFails \/ Restart

------------------------------------------------------------------------------
\* Nothing is lost: an event is marked only when ClickHouse has it, whatever
\* fails or overlaps, so that the job still finds what has not arrived
\* (analytics.service.ts:863-889, cron.service.ts:642-661).
MarkedIsStored == \A e \in Ids : events[e] = "synced" => stored[e] > 0

\* Nothing is counted twice, except an event whose insert or mark went
\* unanswered or that the job took from under an open promise.
StoredOnce == \A e \in Ids \ doubtful : stored[e] <= 1
==============================================================================
