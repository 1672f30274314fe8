---------------------------- MODULE KioskCheckin ----------------------------
(***************************************************************************)
(* Staff attendance through the web kiosk of a branch (kiosk/page.tsx,     *)
(* lib/offline-queue.ts) and the server behind it (face.controller.ts,     *)
(* attendance-staff.service.ts).  A face that matches is posted; when the  *)
(* network fails the check-in is put in a queue of the browser and the     *)
(* person is shown a success.  The queue is drained when the page mounts   *)
(* and on every 'online' event, and two drains may overlap.  The server    *)
(* looks for a record of the day and creates it in two steps; the database *)
(* has a unique key on (user, date).  One kiosk is modelled: check-ins     *)
(* made elsewhere (staff/checkin, manual login) are the desk's.            *)
(***************************************************************************)
EXTENDS Integers, FiniteSets

CONSTANTS
  Staff,      \* users who check in
  Drains,     \* drains of the queue that may overlap
  Requests,   \* HTTP requests that can be open at the same time
  MaxDay,     \* bound: days modelled
  MaxItems    \* bound: check-ins ever queued; then no face is posted any more

ASSUME BoundsAssumption == MaxDay \in Nat \ {0} /\ MaxItems \in Nat
ASSUME ClientsAssumption == Drains \intersect {"tap", "nobody"} = {}

VARIABLES
  day,       \* UTC day, which is what the server writes
  rows,      \* attendance_staff: <<userId, date>>
  active,    \* branch_devices.isActive of the kiosk
  queue,     \* the object store of the queue
  nextId,    \* its auto-increment key
  tap,       \* the kiosk page: "idle", or "posting" a matched face
  drain,     \* each drain: "idle", "next" (about to peek) or "posting"
  req,       \* the open requests
  shown,     \* history: <<user, day>> of every success shown
  refused    \* history: items dropped because the server refused the kiosk

kiosk == <<queue, nextId, tap, drain>>
hist  == <<shown, refused>>
vars  == <<day, rows, active, kiosk, req, hist>>

\* since is the record's ts: the kiosk keeps it and never sends it.
Items == [id : 0..MaxItems, who : Staff, since : 1..MaxDay]
Answers == {"created", "taken", "refused", "failed"}
Stages == {"free", "sent", "checked"} \union Answers
Clients == Drains \union {"tap", "nobody"}

NoItem == [id |-> 0, who |-> "none", since |-> 1]
Free == [stage |-> "free", by |-> "nobody", day |-> 1, item |-> NoItem]

Init ==
  /\ day = 1 /\ rows = {} /\ active = TRUE
  /\ queue = {} /\ nextId = 1
  /\ tap = "idle" /\ drain = [d \in Drains |-> "idle"]
  /\ req = [r \in Requests |-> Free]
  /\ shown = {} /\ refused = {}

Send(r, client, item) ==
  /\ req[r].stage = "free"
  /\ req' = [req EXCEPT ![r] = [stage |-> "sent", by |-> client, day |-> 1, item |-> item]]

Answered(r) == req[r].stage \in Answers

\* The client no longer waits: what the server has still to do is done for nobody.
Orphan(r) == IF req[r].stage \in {"sent", "checked"} THEN [req[r] EXCEPT !.by = "nobody"] ELSE Free

\* The connection fails: the request never arrives, or its answer does not.
Lose(r) ==
  \/ req[r].stage = "sent" /\ req' = [req EXCEPT ![r] = Free]
  \/ req' = [req EXCEPT ![r] = Orphan(r)]

------------------------------------------------------------------------------
\* The server.
Reply(r, answer) ==
  req' = [req EXCEPT ![r] = IF req[r].by = "nobody" THEN Free ELSE [req[r] EXCEPT !.stage = answer]]

\* validateToken, or the rate limit in front of it: 401 or 429.
ServerRefuses(r) ==
  /\ req[r].stage = "sent"
  /\ Reply(r, "refused")
  /\ UNCHANGED <<day, rows, active, kiosk, hist>>

\* Faulty variant: any record of the user counts.
IsRecordedEver(u) == \E d \in 1..MaxDay : <<u, d>> \in rows

IsRecorded(u) == <<u, day>> \in rows

\* validateToken passes; checkIn fixes the day and looks for a record of it: 409
\* when there is one.
Check(r) ==
  /\ req[r].stage = "sent" /\ active
  /\ IF IsRecorded(req[r].item.who)
     THEN Reply(r, "taken")
     ELSE req' = [req EXCEPT ![r] = [req[r] EXCEPT !.stage = "checked", !.day = day]]
  /\ UNCHANGED <<day, rows, active, kiosk, hist>>

Row(r) == <<req[r].item.who, req[r].day>>

\* The create; a duplicate breaks the unique key, which is a 500.
Create(r) ==
  /\ req[r].stage = "checked"
  /\ Reply(r, IF Row(r) \in rows THEN "failed" ELSE "created")
  /\ rows' = rows \union {Row(r)}
  /\ UNCHANGED <<day, active, kiosk, hist>>

ServerFails(r) ==
  /\ req[r].stage \in {"sent", "checked"}
  /\ Reply(r, "failed")
  /\ UNCHANGED <<day, rows, active, kiosk, hist>>

Deactivate ==
  /\ active /\ active' = FALSE
  /\ UNCHANGED <<day, rows, kiosk, req, hist>>

\* A check-in made elsewhere (staff/checkin, manual login) runs the same two
\* steps; what the kiosk can see of it is the record, of today or, when it
\* crossed midnight, of yesterday.
DeskRecords == \E u \in Staff, d \in 1..day :
  /\ d >= day - 1
  /\ <<u, d>> \notin rows
  /\ rows' = rows \union {<<u, d>>}
  /\ UNCHANGED <<day, active, kiosk, req, hist>>

------------------------------------------------------------------------------
\* The kiosk page.
TapMatched(r) == \E u \in Staff :
  /\ tap = "idle" /\ nextId <= MaxItems
  /\ tap' = "posting"
  /\ Send(r, "tap", [id |-> 0, who |-> u, since |-> day])
  /\ UNCHANGED <<day, rows, active, queue, nextId, drain, hist>>

\* Faulty variant: the success is shown without waiting for enqueue.
EnqueueUnawaited(u) ==
  /\ nextId <= MaxItems
  /\ \/ queue' = queue \union {[id |-> nextId, who |-> u, since |-> day]} /\ nextId' = nextId + 1
     \/ UNCHANGED <<queue, nextId>>
  /\ shown' = shown \union {<<u, day>>}

\* enqueue appends; only then is the success shown.
Enqueue(u) ==
  /\ nextId <= MaxItems
  /\ queue' = queue \union {[id |-> nextId, who |-> u, since |-> day]}
  /\ nextId' = nextId + 1
  /\ shown' = shown \union {<<u, day>>}

\* An error is shown: the page is online, or IndexedDB failed.
ShowError == UNCHANGED <<queue, nextId, shown>>

\* The answer of a posted face.  A refusal or a failure that arrives while
\* navigator.onLine is false counts as a network error.
TapAnswered(r) ==
  /\ Answered(r) /\ req[r].by = "tap"
  /\ req' = [req EXCEPT ![r] = Free]
  /\ tap' = "idle"
  /\ CASE req[r].stage = "created" ->
            /\ shown' = shown \union {<<req[r].item.who, req[r].item.since>>}
            /\ UNCHANGED <<queue, nextId>>
       [] req[r].stage = "taken" -> ShowError
       [] OTHER -> ShowError \/ Enqueue(req[r].item.who)
  /\ UNCHANGED <<day, rows, active, drain, refused>>

\* The network fails under a posted face.
TapLost(r) ==
  /\ req[r].by = "tap"
  /\ Lose(r)
  /\ tap' = "idle"
  /\ ShowError \/ Enqueue(req[r].item.who)
  /\ UNCHANGED <<day, rows, active, drain, refused>>

\* The page mounts, or the browser reports that it is online.
DrainStarts(d) ==
  /\ drain[d] = "idle"
  /\ drain' = [drain EXCEPT ![d] = "next"]
  /\ UNCHANGED <<day, rows, active, queue, nextId, tap, req, hist>>

DrainEnds(d) ==
  /\ drain[d] = "next" /\ queue = {}
  /\ drain' = [drain EXCEPT ![d] = "idle"]
  /\ UNCHANGED <<day, rows, active, queue, nextId, tap, req, hist>>

Oldest(p) == \A q \in queue : p.id <= q.id

\* peek the oldest item and post it.
DrainPosts(d, r) == \E p \in queue :
  /\ drain[d] = "next" /\ Oldest(p)
  /\ Send(r, d, p)
  /\ drain' = [drain EXCEPT ![d] = "posting"]
  /\ UNCHANGED <<day, rows, active, queue, nextId, tap, hist>>

\* Faulty variant: dequeue removes the oldest item.
DequeueOldest(item) == queue' = {q \in queue : ~Oldest(q)}

\* dequeue removes the item that was posted.
Dequeue(item) == queue' = queue \ {item}

\* Only a failure of the server stops the drain: a 401 or a 429 drops the item.
DrainAnswered(r) ==
  /\ Answered(r) /\ req[r].by \in Drains
  /\ req' = [req EXCEPT ![r] = Free]
  /\ IF req[r].stage = "failed"
     THEN /\ drain' = [drain EXCEPT ![req[r].by] = "idle"]
          /\ UNCHANGED <<queue, refused>>
     ELSE /\ drain' = [drain EXCEPT ![req[r].by] = "next"]
          /\ Dequeue(req[r].item)
          /\ refused' = IF req[r].stage = "refused" THEN refused \union ({req[r].item} \intersect queue)
                        ELSE refused
  /\ UNCHANGED <<day, rows, active, nextId, tap, shown>>

DrainLost(r) ==
  /\ req[r].by \in Drains
  /\ Lose(r)
  /\ drain' = [drain EXCEPT ![req[r].by] = "idle"]
  /\ UNCHANGED <<day, rows, active, queue, nextId, tap, hist>>

\* The page is reloaded: the queue stays, what was under way is forgotten.
Reload ==
  /\ tap' = "idle" /\ drain' = [d \in Drains |-> "idle"]
  /\ req' = [r \in Requests |-> Orphan(r)]
  /\ UNCHANGED <<day, rows, active, queue, nextId, hist>>

Midnight ==
  /\ day < MaxDay
  /\ day' = day + 1
  /\ UNCHANGED <<rows, active, kiosk, req, hist>>

Server(r) == ServerRefuses(r) \/ Check(r) \/ Create(r) \/ ServerFails(r)
Page(r)   == TapMatched(r) \/ TapAnswered(r) \/ TapLost(r) \/ DrainAnswered(r) \/ DrainLost(r)
Drain(d)  == DrainStarts(d) \/ DrainEnds(d) \/ \E r \in Requests : DrainPosts(d, r)

Next ==
  \/ \E r \in Requests : Server(r) \/ Page(r)
  \/ \E d \in Drains : Drain(d)
  \/ DeskRecords \/ Reload \/ Deactivate \/ Midnight

Spec == Init /\ [][Next]_vars

------------------------------------------------------------------------------
\* Every variable keeps its type.
TypeOK ==
  /\ day \in 1..MaxDay
  /\ rows \subseteq Staff \X (1..MaxDay)
  /\ active \in BOOLEAN
  /\ queue \subseteq Items
  /\ nextId \in 1..(MaxItems + 1)
  /\ tap \in {"idle", "posting"}
  /\ drain \in [Drains -> {"idle", "next", "posting"}]
  /\ req \in [Requests -> [stage : Stages, by : Clients, day : 1..MaxDay, item : Items \union {NoItem}]]
  /\ \A r \in Requests : IF req[r].stage = "free" THEN req[r].by = "nobody" ELSE req[r].item \in Items
  /\ shown \subseteq Staff \X (1..MaxDay)
  /\ refused \subseteq Items

\* The ids of the queue's items, past ones included, were handed out before,
\* and each once.
Numbered ==
  /\ \A p \in queue \union refused : p.id < nextId /\ p.since <= day
  /\ \A p, q \in queue \union refused : p.id = q.id => p = q

RecordedSince(item) == \E d \in item.since..day : <<item.who, d>> \in rows

\* What the server says is so: the day it looked at is not before the check-in,
\* and after "created" or "taken" there is a record.
AnswersAreTrue == \A r \in Requests :
  /\ req[r].item.since <= day
  /\ req[r].stage = "checked" => req[r].day \in req[r].item.since..day
  /\ req[r].stage \in {"created", "taken"} => RecordedSince(req[r].item)

Inv == TypeOK /\ Numbered /\ AnswersAreTrue

\* A success the kiosk has shown (page.tsx:184-195) stands: the person has a
\* record of that day or a later one, or the check-in is still in the queue,
\* or the server refused it.
ShownIsBacked == \A s \in shown :
  \/ \E d \in s[2]..day : <<s[1], d>> \in rows
  \/ \E p \in queue \union refused : p.who = s[1] /\ p.since = s[2]

\* The kiosk keeps the promise of CheckinPromise: overlapping drains, lost
\* answers, reloads and midnight never make it forget a queued check-in.
Promises == INSTANCE CheckinPromise WITH owed <- queue, Ids <- 0..MaxItems
PromiseKept == Promises!Spec
=============================================================================
