------------------------ MODULE KioskCheckin_proofs ------------------------
(* For every number of people, drains and requests: the answers of the       *)
(* server are true, a shown success stands, and the kiosk implements         *)
(* CheckinPromise.                                                           *)
EXTENDS KioskCheckin, TLAPS

Req == [stage : Stages, by : Clients, day : 1..MaxDay, item : Items \union {NoItem}]

\* What Inv says of one request.
Good(q) ==
  /\ q \in Req
  /\ IF q.stage = "free" THEN q.by = "nobody" ELSE q.item \in Items
  /\ q.item.since <= day
  /\ q.stage = "checked" => q.day \in q.item.since..day
  /\ q.stage \in {"created", "taken"} => RecordedSince(q.item)

Requested == req = [r \in Requests |-> req[r]] /\ \A r \in Requests : Good(req[r])

\* What it says of everything else.
Stored ==
  /\ day \in 1..MaxDay
  /\ rows \subseteq Staff \X (1..MaxDay)
  /\ active \in BOOLEAN
  /\ tap \in {"idle", "posting"}
  /\ drain \in [Drains -> {"idle", "next", "posting"}]
  /\ shown \subseteq Staff \X (1..MaxDay)

Queued ==
  /\ queue \subseteq Items /\ refused \subseteq Items
  /\ nextId \in 1..(MaxItems + 1)
  /\ Numbered

Parts == Requested /\ Stored /\ Queued

LEMMA InvParts == Inv <=> Parts
<1>1. Inv => Requested /\ Stored /\ Queued
  BY DEF Inv, TypeOK, AnswersAreTrue, Requested, Stored, Queued, Good, Req
<1>2. ASSUME Requested, Stored, Queued PROVE Inv
  <2>1. req \in [Requests -> Req]
    BY <1>2 DEF Requested, Good
  <2>2. TypeOK
    BY <1>2, <2>1 DEF Requested, Stored, Queued, Good, TypeOK, Req
  <2>3. AnswersAreTrue
    BY <1>2 DEF Requested, Good, AnswersAreTrue
  <2> QED
    BY <1>2, <2>2, <2>3 DEF Inv, Queued
<1> QED
  BY <1>1, <1>2 DEF Parts

LEMMA FreeIsGood == ASSUME Stored PROVE Good(Free)
<1>1. Free.stage = "free" /\ Free.by = "nobody" /\ Free.item = NoItem /\ NoItem.since = 1
  BY DEF Free, NoItem
<1>2. Free \in Req
  BY BoundsAssumption DEF Free, Req, Stages, Clients
<1>3. 1 <= day
  BY DEF Stored
<1> QED
  BY <1>1, <1>2, <1>3 DEF Good

\* A request stays good as time passes and records are added.
LEMMA GoodStays ==
  ASSUME Stored, day' \in Int, day <= day', rows \subseteq rows', NEW q, Good(q)
  PROVE  Good(q)'
<1>1. q.item.since \in Int /\ day \in Int
  BY DEF Good, Stored, Req, Items, NoItem
<1>2. RecordedSince(q.item) => RecordedSince(q.item)'
  BY <1>1 DEF RecordedSince
<1>3. q.stage = "checked" => q.day \in q.item.since..day'
  BY <1>1 DEF Good, Req
<1> QED
  BY <1>1, <1>2, <1>3 DEF Good

\* So does one whose client is gone, or that lost its answer.
LEMMA OrphanIsGood ==
  ASSUME Stored, NEW r \in Requests, Good(req[r])
  PROVE  Good(Orphan(r))
<1>1. CASE req[r].stage \in {"sent", "checked"}
  <2> DEFINE o == [req[r] EXCEPT !.by = "nobody"]
  <2>1. /\ o.stage = req[r].stage /\ o.item = req[r].item /\ o.day = req[r].day
        /\ o \in Req
    BY DEF Good, Req, Clients
  <2>2. Orphan(r) = o
    BY <1>1 DEF Orphan
  <2> QED
    BY <2>1, <2>2 DEF Good
<1>2. CASE req[r].stage \notin {"sent", "checked"}
  BY <1>2, FreeIsGood DEF Orphan
<1> QED
  BY <1>1, <1>2

\* One request changes, time passes or records are added.
LEMMA RequestedStep ==
  ASSUME Requested, Stored, day' \in Int, day <= day', rows \subseteq rows',
         NEW r \in Requests, NEW q, req' = [req EXCEPT ![r] = q], Good(q)'
  PROVE  Requested'
<1>1. \A s \in Requests : Good(req[s])'
  BY GoodStays DEF Requested
<1> QED
  BY <1>1 DEF Requested
\* The server's answer is good if it is true.
LEMMA ReplyIsGood ==
  ASSUME Requested, Stored, day' = day, rows \subseteq rows',
         NEW r \in Requests, NEW a \in Answers, Reply(r, a), req[r].stage # "free",
         NEW i, i = req[r].item,
         a \in {"created", "taken"} => \E d \in i.since..day : <<i.who, d>> \in rows'
  PROVE  Requested'
<1> DEFINE q == IF req[r].by = "nobody" THEN Free ELSE [req[r] EXCEPT !.stage = a]
<1>0. day' \in Int /\ day <= day' /\ Stored
  BY DEF Stored
<1>1. req' = [req EXCEPT ![r] = q]
  BY DEF Reply
<1>2. Good(req[r]) /\ Good(Free)
  BY FreeIsGood DEF Requested
<1>3. CASE req[r].by = "nobody"
  <2>1. Good(Free)'
    BY <1>0, <1>2, GoodStays DEF Free
  <2> QED
    BY <1>0, <1>1, <1>3, <2>1, RequestedStep
<1>4. CASE req[r].by # "nobody"
  <2> DEFINE n == [req[r] EXCEPT !.stage = a]
  <2>1. n.stage = a /\ n.item = i /\ n \in Req
    BY <1>2 DEF Good, Req, Stages
  <2>2. a # "free" /\ a # "checked"
    BY DEF Answers
  <2>3. \A m : /\ m.stage = a /\ m.item = i /\ m \in Req
               => Good(m)'
    BY <1>0, <1>2, <2>2 DEF Good, RecordedSince
  <2> QED
    BY <1>0, <1>1, <1>4, <2>1, <2>3, RequestedStep
<1> QED
  BY <1>3, <1>4

------------------------------------------------------------------------------
LEMMA ServerStep ==
  ASSUME Parts, NEW r \in Requests, Server(r)
  PROVE  Parts'
<1> USE DEF Parts
<1>0. Good(req[r]) /\ day \in Int /\ req[r] \in Req
  BY DEF Requested, Stored, Good
<1>1. ASSUME ServerRefuses(r) PROVE Parts'
  <2>1. Stored' /\ Queued'
    BY <1>1 DEF ServerRefuses, kiosk, hist, Stored, Queued, Numbered
  <2>2. Requested'
    BY <1>1, ReplyIsGood DEF ServerRefuses, Answers
  <2> QED
    BY <2>1, <2>2
<1>2. ASSUME Check(r) PROVE Parts'
  <2>1. Stored' /\ Queued'
    BY <1>2 DEF Check, kiosk, hist, Stored, Queued, Numbered
  <2>2. CASE IsRecorded(req[r].item.who)
    <3>1. \E d \in req[r].item.since..day : <<req[r].item.who, d>> \in rows
      BY <1>0, <2>2 DEF IsRecorded, Good, Req, Items, NoItem
    <3>2. Reply(r, "taken") /\ req[r].stage # "free" /\ day' = day /\ rows' = rows
      BY <1>2, <2>2 DEF Check
    <3>3. Requested'
      BY <3>1, <3>2, ReplyIsGood DEF Answers
    <3> QED
      BY <2>1, <3>3
  <2>3. CASE ~IsRecorded(req[r].item.who)
    <3>1. PICK q : q = [req[r] EXCEPT !.stage = "checked", !.day = day]
      OBVIOUS
    <3>2. req' = [req EXCEPT ![r] = q] /\ day' = day /\ rows' = rows /\ req[r].stage = "sent"
      BY <1>2, <2>3, <3>1 DEF Check
    <3>3. q \in Req /\ q.stage = "checked" /\ q.day = day /\ q.item = req[r].item
      BY <1>0, <3>1 DEF Stored, Req, Stages
    <3>4. Good(q)
      BY <1>0, <3>2, <3>3 DEF Good, Req, Items, NoItem
    <3>5. day' \in Int /\ day <= day' /\ rows \subseteq rows' /\ Stored /\ Requested
      BY <1>0, <3>2
    <3>6. Good(q)'
      BY <3>4, <3>5, GoodStays
    <3>7. Requested'
      BY <3>2, <3>5, <3>6, RequestedStep
    <3> QED
      BY <2>1, <3>7
  <2> QED
    BY <2>2, <2>3
<1>3. ASSUME Create(r) PROVE Parts'
  <2>1. /\ req[r].stage = "checked" /\ day' = day /\ rows \subseteq rows'
        /\ rows' = rows \union {Row(r)}
        /\ Reply(r, IF Row(r) \in rows THEN "failed" ELSE "created")
    BY <1>3 DEF Create
  <2>2. /\ req[r].item \in Items /\ req[r].day \in req[r].item.since..day
        /\ req[r].day \in 1..MaxDay
    BY <1>0, <2>1 DEF Good, Req
  <2>3. Row(r) \in Staff \X (1..MaxDay)
    BY <2>2 DEF Row, Items
  <2>4. Stored' /\ Queued'
    BY <1>3, <2>3 DEF Create, kiosk, hist, Stored, Queued, Numbered
  <2>5. \E d \in req[r].item.since..day : <<req[r].item.who, d>> \in rows'
    BY <2>1, <2>2 DEF Row
  <2>6. Requested'
    BY <2>1, <2>5, ReplyIsGood DEF Answers
  <2> QED
    BY <2>4, <2>6
<1>4. ASSUME ServerFails(r) PROVE Parts'
  <2>1. Stored' /\ Queued'
    BY <1>4 DEF ServerFails, kiosk, hist, Stored, Queued, Numbered
  <2>2. Requested'
    BY <1>4, ReplyIsGood DEF ServerFails, Answers
  <2> QED
    BY <2>1, <2>2
<1> QED
  BY <1>1, <1>2, <1>3, <1>4 DEF Server

------------------------------------------------------------------------------
\* What the page does to a request keeps it good.
LEMMA SendIsGood ==
  ASSUME Requested, Stored, day' = day, rows' = rows, NEW r \in Requests,
         NEW c \in Clients, NEW i \in Items, i.since <= day, Send(r, c, i)
  PROVE  Requested'
<1>1. PICK q : q = [stage |-> "sent", by |-> c, day |-> 1, item |-> i]
  OBVIOUS
<1>2. req' = [req EXCEPT ![r] = q]
  BY <1>1 DEF Send
<1>3. q \in Req /\ q.stage = "sent" /\ q.item = i
  BY <1>1, BoundsAssumption DEF Req, Stages
<1>4. Good(q)
  BY <1>3 DEF Good
<1>5. day' \in Int /\ day <= day' /\ rows \subseteq rows'
  BY DEF Stored
<1>6. Good(q)'
  BY <1>4, <1>5, GoodStays
<1> QED
  BY <1>2, <1>5, <1>6, RequestedStep

LEMMA AnyIsGood ==
  ASSUME Requested, Stored, day' = day, rows' = rows, NEW r \in Requests,
         NEW q, Good(q), req' = [req EXCEPT ![r] = q]
  PROVE  Requested'
<1>1. day' \in Int /\ day <= day' /\ rows \subseteq rows'
  BY DEF Stored
<1>2. Good(q)'
  BY <1>1, GoodStays
<1> QED
  BY <1>1, <1>2, RequestedStep

LEMMA FreeStep ==
  ASSUME Requested, Stored, day' = day, rows' = rows, NEW r \in Requests,
         req' = [req EXCEPT ![r] = Free]
  PROVE  Requested'
<1>1. PICK q : q = Free
  OBVIOUS
<1>2. Good(q)
  BY <1>1, FreeIsGood
<1> QED
  BY <1>1, <1>2, AnyIsGood

LEMMA LoseStep ==
  ASSUME Requested, Stored, day' = day, rows' = rows, NEW r \in Requests, Lose(r)
  PROVE  Requested'
<1>1. CASE req' = [req EXCEPT ![r] = Free]
  BY <1>1, FreeStep
<1>2. CASE req' = [req EXCEPT ![r] = Orphan(r)]
  <2>1. PICK q : q = Orphan(r)
    OBVIOUS
  <2>2. Good(q)
    BY <2>1, OrphanIsGood DEF Requested
  <2> QED
    BY <1>2, <2>1, <2>2, AnyIsGood
<1> QED
  BY <1>1, <1>2 DEF Lose

\* A new item has a new id.
LEMMA EnqueueStep ==
  ASSUME Stored, Queued, NEW u \in Staff, Enqueue(u), UNCHANGED <<day, refused>>
  PROVE  Queued' /\ shown' \subseteq Staff \X (1..MaxDay)
<1>1. PICK p : p = [id |-> nextId, who |-> u, since |-> day]
  OBVIOUS
<1>2. /\ queue' = queue \union {p} /\ nextId' = nextId + 1
      /\ shown' = shown \union {<<u, day>>} /\ nextId <= MaxItems
  BY <1>1 DEF Enqueue
<1>3. nextId \in 0..MaxItems /\ nextId + 1 \in 1..(MaxItems + 1) /\ day \in 1..MaxDay
  BY <1>2, BoundsAssumption DEF Stored, Queued
<1>4. p \in Items /\ p.id = nextId /\ p.since = day
  BY <1>1, <1>3 DEF Items
<1>5. \A x \in queue \union refused : x \in Items /\ x.id \in Int /\ x.id < nextId /\ x.since <= day
  BY DEF Queued, Numbered, Items
<1>6. queue' \subseteq Items /\ refused' \subseteq Items /\ nextId' \in 1..(MaxItems + 1)
  BY <1>2, <1>3, <1>4 DEF Queued
<1>7. \A x \in queue' \union refused' : x.id < nextId' /\ x.since <= day'
  BY <1>2, <1>3, <1>4, <1>5
<1>8. \A x, y \in queue' \union refused' : x.id = y.id => x = y
  BY <1>2, <1>3, <1>4, <1>5 DEF Queued, Numbered
<1>9. Numbered'
  BY <1>7, <1>8 DEF Numbered
<1>10. shown' \subseteq Staff \X (1..MaxDay)
  BY <1>2, <1>3 DEF Stored
<1> QED
  BY <1>6, <1>9, <1>10 DEF Queued

LEMMA TapStep ==
  ASSUME Parts, NEW r \in Requests, TapMatched(r) \/ TapAnswered(r) \/ TapLost(r)
  PROVE  Parts'
<1> USE DEF Parts
<1>0. /\ Good(req[r]) /\ req[r] \in Req /\ day \in 1..MaxDay
      /\ req[r].by # "nobody" => req[r].item \in Items
      /\ req[r].stage # "free" => req[r].item \in Items
  BY DEF Requested, Stored, Good
<1>1. ASSUME TapMatched(r) PROVE Parts'
  <2>1. PICK u \in Staff : Send(r, "tap", [id |-> 0, who |-> u, since |-> day])
    BY <1>1 DEF TapMatched
  <2>2. /\ UNCHANGED <<day, rows, active, queue, nextId, drain, shown, refused>>
        /\ tap' \in {"idle", "posting"}
    BY <1>1 DEF TapMatched, hist
  <2>3. PICK i : i = [id |-> 0, who |-> u, since |-> day]
    OBVIOUS
  <2>4. i \in Items /\ i.since <= day
    BY <1>0, <2>3, BoundsAssumption DEF Items
  <2>5. Requested'
    BY <2>1, <2>2, <2>3, <2>4, SendIsGood DEF Clients
  <2> QED
    BY <2>2, <2>5 DEF Stored, Queued, Numbered
<1>2. ASSUME TapAnswered(r) PROVE Parts'
  <2>1. /\ UNCHANGED <<day, rows, active, drain, refused>>
        /\ tap' \in {"idle", "posting"} /\ req' = [req EXCEPT ![r] = Free]
        /\ req[r].item \in Items
    BY <1>0, <1>2 DEF TapAnswered, Answered, Answers
  <2>2. Requested'
    BY <2>1, FreeStep
  <2>3. CASE UNCHANGED <<queue, nextId, shown>>
    BY <2>1, <2>2, <2>3 DEF Stored, Queued, Numbered
  <2>4. CASE Enqueue(req[r].item.who)
    <3>1. PICK u \in Staff : u = req[r].item.who
      BY <2>1 DEF Items
    <3>2. Queued' /\ shown' \subseteq Staff \X (1..MaxDay)
      BY <2>1, <2>4, <3>1, EnqueueStep
    <3> QED
      BY <2>1, <2>2, <3>2 DEF Stored
  <2>5. CASE /\ shown' = shown \union {<<req[r].item.who, req[r].item.since>>}
             /\ UNCHANGED <<queue, nextId>>
    BY <2>1, <2>2, <2>5 DEF Stored, Queued, Numbered, Items
  <2> QED
    BY <1>2, <2>3, <2>4, <2>5 DEF TapAnswered, ShowError
<1>3. ASSUME TapLost(r) PROVE Parts'
  <2>1. /\ UNCHANGED <<day, rows, active, drain, refused>>
        /\ tap' \in {"idle", "posting"} /\ Lose(r) /\ req[r].by = "tap"
    BY <1>3 DEF TapLost
  <2>2. Requested'
    BY <2>1, LoseStep
  <2>3. CASE ShowError
    BY <2>1, <2>2, <2>3 DEF ShowError, Stored, Queued, Numbered
  <2>4. CASE Enqueue(req[r].item.who)
    <3>1. PICK u \in Staff : u = req[r].item.who
      BY <1>0, <2>1 DEF Items
    <3>2. Queued' /\ shown' \subseteq Staff \X (1..MaxDay)
      BY <2>1, <2>4, <3>1, EnqueueStep
    <3> QED
      BY <2>1, <2>2, <3>2 DEF Stored
  <2> QED
    BY <1>3, <2>3, <2>4 DEF TapLost
<1> QED
  BY <1>1, <1>2, <1>3

\* Dropping items, or remembering dropped ones, keeps the numbering.
LEMMA FewerItems ==
  ASSUME Queued, UNCHANGED <<day, nextId>>,
         queue' \union refused' \subseteq queue \union refused
  PROVE  Queued'
BY DEF Queued, Numbered

LEMMA DrainStep ==
  ASSUME Parts,
         \/ \E r \in Requests : DrainAnswered(r) \/ DrainLost(r)
         \/ \E d \in Drains : Drain(d)
  PROVE  Parts'
<1> USE DEF Parts
<1>1. ASSUME NEW r \in Requests, DrainAnswered(r) PROVE Parts'
  <2>1. /\ UNCHANGED <<day, rows, active, nextId, tap, shown>>
        /\ req' = [req EXCEPT ![r] = Free]
        /\ queue' \union refused' \subseteq queue \union refused
        /\ drain' \in [Drains -> {"idle", "next", "posting"}]
    BY <1>1 DEF DrainAnswered, Dequeue, Stored
  <2>2. Requested'
    BY <2>1, FreeStep
  <2> QED
    BY <2>1, <2>2, FewerItems DEF Stored
<1>2. ASSUME NEW r \in Requests, DrainLost(r) PROVE Parts'
  <2>1. /\ UNCHANGED <<day, rows, active, queue, nextId, tap, shown, refused>> /\ Lose(r)
        /\ drain' \in [Drains -> {"idle", "next", "posting"}]
    BY <1>2 DEF DrainLost, Stored, hist
  <2>2. Requested'
    BY <2>1, LoseStep
  <2> QED
    BY <2>1, <2>2, FewerItems DEF Stored
<1>3. ASSUME NEW d \in Drains, DrainStarts(d) \/ DrainEnds(d) PROVE Parts'
  <2>1. /\ UNCHANGED <<day, rows, active, queue, nextId, tap, req, shown, refused>>
        /\ drain' \in [Drains -> {"idle", "next", "posting"}]
    BY <1>3 DEF DrainStarts, DrainEnds, Stored, hist
  <2>2. Requested'
    BY <2>1 DEF Requested, Good, RecordedSince
  <2> QED
    BY <2>1, <2>2, FewerItems DEF Stored
<1>4. ASSUME NEW d \in Drains, NEW r \in Requests, DrainPosts(d, r) PROVE Parts'
  <2>1. PICK p \in queue : Send(r, d, p)
    BY <1>4 DEF DrainPosts
  <2>2. /\ UNCHANGED <<day, rows, active, queue, nextId, tap, shown, refused>>
        /\ drain' \in [Drains -> {"idle", "next", "posting"}]
    BY <1>4 DEF DrainPosts, Stored, hist
  <2>3. p \in Items /\ p.since <= day
    BY DEF Queued, Numbered
  <2>4. Requested'
    BY <2>1, <2>2, <2>3, SendIsGood DEF Clients
  <2> QED
    BY <2>2, <2>4, FewerItems DEF Stored
<1> QED
  BY <1>1, <1>2, <1>3, <1>4 DEF Drain

LEMMA EnvironmentStep ==
  ASSUME Parts, DeskRecords \/ Reload \/ Deactivate \/ Midnight
  PROVE  Parts'
<1> USE DEF Parts
<1>1. ASSUME DeskRecords PROVE Parts'
  <2>1. /\ UNCHANGED <<day, active, queue, nextId, tap, drain, req, shown, refused>>
        /\ rows \subseteq rows' /\ rows' \subseteq Staff \X (1..MaxDay)
    <3>1. PICK u \in Staff, d \in 1..day : rows' = rows \union {<<u, d>>}
      BY <1>1 DEF DeskRecords
    <3>2. d \in 1..MaxDay
      BY BoundsAssumption DEF Stored
    <3>3. UNCHANGED <<day, active, queue, nextId, tap, drain, req, shown, refused>>
      BY <1>1 DEF DeskRecords, kiosk, hist
    <3> QED
      BY <3>1, <3>2, <3>3 DEF Stored
  <2>2. day' \in Int /\ day <= day' /\ \A r \in Requests : req'[r] = req[r]
    BY <2>1 DEF Stored
  <2>3. Requested'
    BY <2>1, <2>2, GoodStays DEF Requested
  <2> QED
    BY <2>1, <2>3, FewerItems DEF Stored
<1>2. ASSUME Reload PROVE Parts'
  <2>1. /\ UNCHANGED <<day, rows, active, queue, nextId, shown, refused>>
        /\ req' = [r \in Requests |-> Orphan(r)]
        /\ tap' \in {"idle", "posting"} /\ drain' \in [Drains -> {"idle", "next", "posting"}]
    BY <1>2 DEF Reload, hist
  <2>2. \A r \in Requests : Good(Orphan(r))
    BY OrphanIsGood DEF Requested
  <2>3. day' \in Int /\ day <= day' /\ rows \subseteq rows'
    BY <2>1 DEF Stored
  <2>4. \A q : Good(q) => Good(q)'
    BY <2>3, GoodStays
  <2>5. Requested'
    BY <2>1, <2>2, <2>4 DEF Requested
  <2> QED
    BY <2>1, <2>5, FewerItems DEF Stored
<1>3. ASSUME Deactivate PROVE Parts'
  BY <1>3 DEF Deactivate, kiosk, hist, Requested, Good, RecordedSince, Stored, Queued, Numbered
<1>4. ASSUME Midnight PROVE Parts'
  <2>1. /\ UNCHANGED <<rows, active, queue, nextId, tap, drain, req, shown, refused>>
        /\ day < MaxDay /\ day' = day + 1 /\ day \in 1..MaxDay
    BY <1>4 DEF Midnight, kiosk, hist, Stored
  <2>2. day' \in 1..MaxDay /\ day <= day' /\ day' \in Int
    BY <2>1, BoundsAssumption
  <2>3. Requested'
    BY <2>1, <2>2, GoodStays DEF Requested
  <2>4. \A x \in queue \union refused : x.since \in Int
    BY DEF Queued, Items
  <2>5. Queued'
    BY <2>1, <2>2, <2>4 DEF Queued, Numbered, Stored
  <2> QED
    BY <2>1, <2>2, <2>3, <2>5 DEF Stored
<1> QED
  BY <1>1, <1>2, <1>3, <1>4

LEMMA Inductive == Parts /\ [Next]_vars => Parts'
<1> SUFFICES ASSUME Parts, [Next]_vars PROVE Parts'
  OBVIOUS
<1>1. CASE UNCHANGED vars
  BY <1>1 DEF vars, kiosk, hist, Parts, Requested, Good, RecordedSince, Stored, Queued, Numbered
<1>2. ASSUME NEW r \in Requests, Server(r) PROVE Parts'
  BY <1>2, ServerStep
<1>3. ASSUME NEW r \in Requests, Page(r) PROVE Parts'
  BY <1>3, TapStep, DrainStep DEF Page
<1>4. ASSUME NEW d \in Drains, Drain(d) PROVE Parts'
  BY <1>4, DrainStep
<1>5. CASE DeskRecords \/ Reload \/ Deactivate \/ Midnight
  BY <1>5, EnvironmentStep
<1> QED
  BY <1>1, <1>2, <1>3, <1>4, <1>5 DEF Next

LEMMA Initial == Init => Parts
<1> SUFFICES ASSUME Init PROVE Parts
  OBVIOUS
<1>1. Stored
  BY BoundsAssumption DEF Init, Stored
<1>2. Queued
  BY BoundsAssumption DEF Init, Queued, Numbered
<1>3. Requested
  BY <1>1, FreeIsGood DEF Init, Requested
<1> QED
  BY <1>1, <1>2, <1>3 DEF Parts

\* The state of kiosk and server is sound: types, ids, and answers that are
\* true, for any number of overlapping drains and orphaned requests.
THEOREM InvHolds == Spec => []Inv
<1>1. Spec => []Parts
  BY Initial, Inductive, PTL DEF Spec
<1> QED
  BY <1>1, InvParts, PTL

------------------------------------------------------------------------------
\* What a drain drops is recorded or refused.
LEMMA DropIsEarned ==
  ASSUME Parts, NEW r \in Requests, DrainAnswered(r)
  PROVE  LET i == req[r].item IN
         /\ UNCHANGED <<day, rows, shown>>
         /\ \/ UNCHANGED <<queue, refused>>
            \/ /\ i \in queue /\ queue' = queue \ {i}
               /\ \/ refused' = refused /\ RecordedSince(i)
                  \/ refused' = refused \union {i}
<1> DEFINE i == req[r].item
<1>1. UNCHANGED <<day, rows, shown>>
  BY DEF DrainAnswered
<1>2. CASE req[r].stage = "failed" \/ i \notin queue
  BY <1>1, <1>2 DEF DrainAnswered, Dequeue
<1>3. CASE req[r].stage \in {"created", "taken"} /\ i \in queue
  BY <1>1, <1>3 DEF DrainAnswered, Dequeue, Parts, Requested, Good
<1>4. CASE req[r].stage = "refused" /\ i \in queue
  BY <1>1, <1>4 DEF DrainAnswered, Dequeue
<1> QED
  BY <1>2, <1>3, <1>4 DEF DrainAnswered, Answered, Answers

\* Every step leaves queue, records and promises alone, or is one of these.
Quiet == UNCHANGED <<rows, queue, refused, shown>>
Records == \E u \in Staff, d \in 1..day :
  rows' = rows \union {<<u, d>>} /\ UNCHANGED <<day, queue, refused, shown>>
Drops == \E i \in queue :
  /\ UNCHANGED <<day, rows, shown>> /\ queue' = queue \ {i}
  /\ \/ refused' = refused /\ RecordedSince(i)
     \/ refused' = refused \union {i}
Accepts == \E u \in Staff :
  UNCHANGED <<day, rows, refused>> /\ Enqueue(u)
Succeeds == \E r \in Requests :
  /\ UNCHANGED <<day, rows, queue, refused>>
  /\ req[r].stage = "created"
  /\ shown' = shown \union {<<req[r].item.who, req[r].item.since>>}
Passes == Quiet /\ (UNCHANGED day \/ day' = day + 1)

LEMMA KindsOfStep ==
  Parts /\ [Next]_vars => Passes \/ Records \/ Drops \/ Accepts \/ Succeeds
<1> SUFFICES ASSUME Parts, [Next]_vars
             PROVE  Passes \/ Records \/ Drops \/ Accepts \/ Succeeds
  OBVIOUS
<1>1. CASE UNCHANGED vars
  BY <1>1 DEF vars, kiosk, hist, Passes, Quiet
<1>2. ASSUME NEW r \in Requests, Server(r) PROVE Passes \/ Records
  <2>1. CASE Create(r)
    <3>1. req[r].item \in Items /\ req[r].day \in req[r].item.since..day
      BY <2>1 DEF Create, Parts, Requested, Good
    <3>2. req[r].item.who \in Staff /\ req[r].day \in 1..day
      BY <3>1 DEF Items, Parts, Stored
    <3> QED
      BY <2>1, <3>2 DEF Create, Row, kiosk, hist, Records
  <2>2. CASE ServerRefuses(r) \/ Check(r) \/ ServerFails(r)
    BY <2>2 DEF ServerRefuses, Check, ServerFails, kiosk, hist, Passes, Quiet
  <2> QED
    BY <1>2, <2>1, <2>2 DEF Server
<1>3. ASSUME NEW r \in Requests, TapMatched(r) \/ TapAnswered(r) \/ TapLost(r)
      PROVE  Passes \/ Accepts \/ Succeeds
  <2>1. CASE TapMatched(r)
    BY <2>1 DEF TapMatched, hist, Passes, Quiet
  <2>2. ASSUME req[r].by # "nobody" PROVE req[r].item.who \in Staff
    BY <2>2 DEF Parts, Requested, Good, Items
  <2>3. ASSUME Answered(r) PROVE req[r].item.who \in Staff
    BY <2>3 DEF Answered, Answers, Parts, Requested, Good, Items
  <2>4. CASE TapAnswered(r)
    BY <2>3, <2>4 DEF TapAnswered, ShowError, Passes, Quiet, Accepts, Succeeds
  <2>5. CASE TapLost(r)
    BY <2>2, <2>5 DEF TapLost, ShowError, Passes, Quiet, Accepts
  <2> QED
    BY <1>3, <2>1, <2>4, <2>5
<1>4. ASSUME NEW r \in Requests, DrainAnswered(r) \/ DrainLost(r) PROVE Passes \/ Drops
  <2>1. CASE DrainAnswered(r)
    BY <2>1, DropIsEarned DEF Passes, Quiet, Drops
  <2>2. CASE DrainLost(r)
    BY <2>2 DEF DrainLost, hist, Passes, Quiet
  <2> QED
    BY <1>4, <2>1, <2>2
<1>5. ASSUME NEW d \in Drains, Drain(d) PROVE Passes
  BY <1>5 DEF Drain, DrainStarts, DrainEnds, DrainPosts, hist, Passes, Quiet
<1>6. CASE DeskRecords \/ Reload \/ Deactivate \/ Midnight
  BY <1>6 DEF DeskRecords, Reload, Deactivate, Midnight, kiosk, hist, Passes, Quiet, Records
<1> QED
  BY <1>1, <1>2, <1>3, <1>4, <1>5, <1>6 DEF Next, Page

\* What was shown to one person is backed.
Backed(u, e) ==
  \/ \E d \in e..day : <<u, d>> \in rows
  \/ \E p \in queue \union refused : p.who = u /\ p.since = e

LEMMA BackedStep ==
  ASSUME Parts, ShownIsBacked, [Next]_vars
  PROVE  ShownIsBacked'
<1>0. /\ day \in 1..MaxDay /\ queue \subseteq Items /\ shown \subseteq Staff \X (1..MaxDay)
      /\ \A s \in shown : Backed(s[1], s[2])
  BY DEF Parts, Stored, Queued, ShownIsBacked, Backed
<1>1. ASSUME NEW s \in shown PROVE Backed(s[1], s[2])'
  <2>1. s[2] \in Int
    BY <1>0
  <2>2. CASE Passes \/ Records \/ Succeeds
    BY <1>0, <2>1, <2>2 DEF Passes, Quiet, Records, Succeeds, Backed
  <2>3. CASE Accepts
    BY <1>0, <2>3 DEF Accepts, Enqueue, Backed
  <2>4. CASE Drops
    BY <1>0, <2>4 DEF Drops, RecordedSince, Backed
  <2> QED
    BY <2>2, <2>3, <2>4, KindsOfStep
<1>2. ASSUME NEW s \in shown' \ shown PROVE Backed(s[1], s[2])'
  <2>1. CASE Passes \/ Records \/ Drops
    BY <1>2, <2>1 DEF Passes, Quiet, Records, Drops
  <2>2. CASE Accepts
    <3>1. PICK u \in Staff : Enqueue(u) /\ UNCHANGED <<day, rows, refused>>
      BY <2>2 DEF Accepts
    <3>2. PICK p : p = [id |-> nextId, who |-> u, since |-> day]
      OBVIOUS
    <3>3. p \in queue' /\ p.who = u /\ p.since = day /\ s = <<u, day>>
      BY <1>2, <3>1, <3>2 DEF Enqueue
    <3> QED
      BY <3>3 DEF Backed
  <2>3. CASE Succeeds
    <3>1. PICK r \in Requests :
            /\ UNCHANGED <<day, rows, queue, refused>>
            /\ req[r].stage = "created"
            /\ shown' = shown \union {<<req[r].item.who, req[r].item.since>>}
      BY <2>3 DEF Succeeds
    <3>2. RecordedSince(req[r].item)
      BY <3>1 DEF Parts, Requested, Good
    <3>3. s = <<req[r].item.who, req[r].item.since>>
      BY <1>2, <3>1
    <3> QED
      BY <3>1, <3>2, <3>3 DEF RecordedSince, Backed
  <2> QED
    BY <2>1, <2>2, <2>3, KindsOfStep
<1> QED
  BY <1>1, <1>2 DEF ShownIsBacked, Backed

\* Whoever the kiosk showed a success has a record of that day or later, or
\* is still queued, or was refused, after any number of overlapping drains,
\* lost answers, reloads and midnights.
THEOREM ShownStands == Spec => []ShownIsBacked
<1>1. Init => ShownIsBacked
  BY DEF Init, ShownIsBacked
<1>2. Parts /\ ShownIsBacked /\ [Next]_vars => ShownIsBacked'
  BY BackedStep
<1>3. Spec => []Parts
  BY Initial, Inductive, PTL DEF Spec
<1> QED
  BY <1>1, <1>2, <1>3, PTL DEF Spec

\* The kiosk implements the promise: every step is a step of CheckinPromise or
\* leaves what it promises alone.
THEOREM KioskKeepsPromise == Spec => PromiseKept
<1>1. Init => Promises!Init
  BY DEF Init, Promises!Init
<1>2. ASSUME Parts, [Next]_vars PROVE [Promises!Next]_(Promises!vars)
  <2>1. CASE Passes
    BY <2>1 DEF Passes, Quiet, Promises!Next, Promises!Midnight, Promises!vars
  <2>2. CASE Records
    <3>1. PICK u \in Staff, d \in 1..day :
            rows' = rows \union {<<u, d>>} /\ UNCHANGED <<day, queue, refused, shown>>
      BY <2>2 DEF Records
    <3>2. CASE <<u, d>> \in rows
      BY <3>1, <3>2 DEF Promises!vars
    <3>3. CASE <<u, d>> \notin rows
      BY <3>1, <3>3 DEF Promises!Next, Promises!Record
    <3> QED
      BY <3>2, <3>3
  <2>3. CASE Drops
    <3>1. PICK i \in queue :
            /\ UNCHANGED <<day, rows, shown>> /\ queue' = queue \ {i}
            /\ \/ refused' = refused /\ RecordedSince(i)
               \/ refused' = refused \union {i}
      BY <2>3 DEF Drops
    <3>2. CASE refused' = refused /\ RecordedSince(i)
      BY <3>1, <3>2 DEF RecordedSince, Promises!Next, Promises!Keep, Promises!Recorded
    <3>3. CASE refused' = refused \union {i}
      BY <3>1, <3>3 DEF Promises!Next, Promises!Refuse
    <3> QED
      BY <3>1, <3>2, <3>3
  <2>4. CASE Accepts
    <3>1. PICK u \in Staff : Enqueue(u) /\ UNCHANGED <<day, rows, refused>>
      BY <2>4 DEF Accepts
    <3>2. nextId \in 0..MaxItems /\ \A p \in queue \union refused : p.id # nextId
      BY <1>2, <3>1, BoundsAssumption DEF Enqueue, Parts, Queued, Numbered, Items
    <3>3. queue' = queue \union {[id |-> nextId, who |-> u, since |-> day]}
      BY <3>1 DEF Enqueue
    <3> QED
      BY <3>1, <3>2, <3>3 DEF Promises!Next, Promises!Promise
  <2>5. CASE Succeeds
    BY <2>5 DEF Succeeds, Promises!vars
  <2> QED
    BY <1>2, <2>1, <2>2, <2>3, <2>4, <2>5, KindsOfStep
<1>3. Spec => []Parts
  BY Initial, Inductive, PTL DEF Spec
<1> QED
  BY <1>1, <1>2, <1>3, PTL DEF Spec, PromiseKept, Promises!Spec
=============================================================================
