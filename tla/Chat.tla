--------------------------------- MODULE Chat ---------------------------------
(***************************************************************************)
(* What one student writes in the chats of the groups, and what           *)
(* moderators do with it (social/chat.service.ts); nobody checks that the  *)
(* student is in the group.  The messages of a day are counted in Redis,   *)
(* under one key per student that is given a life of 24 hours by a second  *)
(* call, or, where there is no Redis, by the rows of the day in the group  *)
(* written to.  Every third rejected message earns a warning; what a       *)
(* warning does is in Warnings.  Messages with the same status are         *)
(* interchangeable, so they are counted.  A ban or a locked branch only    *)
(* refuses a message: then there is no request.                            *)
(***************************************************************************)
EXTENDS Integers, Functions

CONSTANTS
  Requests,    \* HTTP and socket requests that can be in flight at once
  Rooms,       \* the chats of the groups
  DailyLimit,  \* MAX_DAILY_MESSAGES
  WarnEvery,   \* rejected messages for a warning
  MaxMessages  \* bound: messages of the student

VARIABLES
  keeper,     \* who counts: "redis" or "rows"
  counter,    \* the key of the student in Redis
  lasting,    \* the key has a time to live
  sent,       \* history: messages of all rooms since the key last ended, deleted ones too
  approved,   \* group_messages of the student, by moderationStatus
  rejected,
  today,      \* in each room, those the rows count: of the day and not deleted
  warned,     \* warnings with the reason chat_moderation
  pc, req,    \* where each request is, and what it carries
  overlapped, \* history: a count changed between a read and the write
  lapsed,     \* history: Redis or the server failed while a message was sent
  missed,     \* history: a rejection stopped before its warning
  peak        \* history: the most messages that were rejected at a time

messages == <<approved, rejected, today>>
chat == <<keeper, counter, lasting, sent, messages, warned, lapsed, missed, peak>>
vars == <<chat, pc, req, overlapped>>

MaxWarned == 3      \* bound: a message rejected again can earn one more
MaxCount == DailyLimit + 1  \* bound: failed reads let more than the limit pass
NoReq == [was |-> 0, room |-> "none"]

Unwritten ==
  /\ keeper \in {"redis", "rows"} /\ counter = 0 /\ lasting = FALSE /\ sent = 0
  /\ approved = 0 /\ rejected = 0 /\ today = [g \in Rooms |-> 0]
  /\ warned = 0 /\ lapsed = FALSE /\ missed = FALSE /\ peak = 0

\* getDailyCount: Redis counts for the student, the rows for the room.
Count(g) == IF keeper = "redis" THEN counter ELSE today[g]

Goto(r, step) == pc' = [pc EXCEPT ![r] = step]
Return(r) == Goto(r, "idle") /\ req' = [req EXCEPT ![r] = NoReq]

------------------------------------------------------------------------------
(* sendMessage *)

Begin(r, g) ==
  /\ pc[r] = "idle"
  /\ req' = [req EXCEPT ![r] = [was |-> Count(g), room |-> IF keeper = "rows" THEN g ELSE "none"]]
  /\ Goto(r, IF keeper = "redis" THEN "bump" ELSE "create")

\* Faulty variant: one message more than the limit.
SendReadsMore(r) ==
  \E g \in Rooms : Count(g) <= DailyLimit /\ Begin(r, g) /\ UNCHANGED <<chat, overlapped>>

SendReads(r) ==
  \E g \in Rooms : Count(g) < DailyLimit /\ Begin(r, g) /\ UNCHANGED <<chat, overlapped>>

\* A count that Redis does not answer passes for none.
SendReadFails(r) ==
  /\ keeper = "redis" /\ \E g \in Rooms : Begin(r, g)
  /\ lapsed' = TRUE
  /\ UNCHANGED <<keeper, counter, lasting, sent, messages, warned, missed, peak, overlapped>>

\* bumpDailyCount: the first of a day is to give the key its time to live.
SendBumps(r) ==
  /\ pc[r] = "bump" /\ counter < MaxCount
  /\ counter' = counter + 1
  /\ Goto(r, IF counter = 0 THEN "expire" ELSE "create")
  /\ overlapped' = (overlapped \/ counter # req[r].was)
  /\ UNCHANGED <<keeper, lasting, sent, messages, warned, lapsed, missed, peak, req>>

SendExpires(r) ==
  /\ pc[r] = "expire"
  /\ lasting' = TRUE
  /\ Goto(r, "create")
  /\ UNCHANGED <<keeper, counter, sent, messages, warned, lapsed, missed, peak, req, overlapped>>

\* Either call can fail, and the message is sent all the same.
RedisFails(r) ==
  /\ pc[r] \in {"bump", "expire"}
  /\ lapsed' = TRUE
  /\ Goto(r, "create")
  /\ UNCHANGED <<keeper, counter, lasting, sent, messages, warned, missed, peak, req, overlapped>>

SendCreates(r) ==
  /\ pc[r] = "create"
  /\ approved + rejected < MaxMessages
  /\ approved' = approved + 1
  /\ IF keeper = "redis"
     THEN sent' = (IF sent < MaxCount THEN sent + 1 ELSE sent) /\ UNCHANGED today
     ELSE today' = [today EXCEPT ![req[r].room] = @ + 1] /\ UNCHANGED sent
  /\ overlapped' = (overlapped \/ (keeper = "rows" /\ Count(req[r].room) # req[r].was))
  /\ Return(r)
  /\ UNCHANGED <<keeper, counter, lasting, rejected, warned, lapsed, missed, peak>>

\* The server stops, or the database refuses the row.
SendStops(r) ==
  /\ pc[r] \in {"bump", "expire", "create"}
  /\ lapsed' = (lapsed \/ pc[r] = "expire")
  /\ Return(r)
  /\ UNCHANGED <<keeper, counter, lasting, sent, messages, warned, missed, peak, overlapped>>

Send(r) ==
  \/ SendReads(r) \/ SendReadFails(r) \/ SendBumps(r) \/ SendExpires(r)
  \/ RedisFails(r) \/ SendCreates(r) \/ SendStops(r)

------------------------------------------------------------------------------
(* Moderation *)

\* The status is set, also where it is set already.
RejectWrites(r) ==
  /\ pc[r] = "idle" /\ warned < MaxWarned
  /\ \/ approved > 0 /\ approved' = approved - 1 /\ rejected' = rejected + 1
     \/ rejected > 0 /\ UNCHANGED <<approved, rejected>>
  /\ req' = [req EXCEPT ![r] = [was |-> rejected', room |-> "none"]]
  /\ peak' = IF rejected' > peak THEN rejected' ELSE peak
  /\ Goto(r, "count")
  /\ UNCHANGED <<keeper, counter, lasting, sent, today, warned, lapsed, missed, overlapped>>

\* Faulty variant: only the first time that many are reached.
EarnsOnce(count) == count = WarnEvery

Earns(count) == count > 0 /\ count % WarnEvery = 0

RejectCounts(r) ==
  /\ pc[r] = "count"
  /\ overlapped' = (overlapped \/ rejected # req[r].was)
  /\ IF Earns(rejected) THEN Goto(r, "warn") /\ UNCHANGED req ELSE Return(r)
  /\ UNCHANGED chat

RejectWarns(r) ==
  /\ pc[r] = "warn" /\ warned < MaxWarned
  /\ warned' = warned + 1
  /\ Return(r)
  /\ UNCHANGED <<keeper, counter, lasting, sent, messages, lapsed, missed, peak, overlapped>>

\* A warning that fails is swallowed; or the server stops.
RejectFails(r) ==
  /\ pc[r] \in {"count", "warn"}
  /\ missed' = TRUE
  /\ Return(r)
  /\ UNCHANGED <<keeper, counter, lasting, sent, messages, warned, lapsed, peak, overlapped>>

Approve ==
  /\ rejected > 0
  /\ approved' = approved + 1 /\ rejected' = rejected - 1
  /\ UNCHANGED <<keeper, counter, lasting, sent, today, warned, lapsed, missed, peak, pc, req, overlapped>>

\* A deleted message keeps its status, but is not counted for the day.
Delete ==
  /\ \E g \in Rooms : today[g] > 0 /\ today' = [today EXCEPT ![g] = @ - 1]
  /\ UNCHANGED <<keeper, counter, lasting, sent, approved, rejected, warned, lapsed, missed, peak, pc, req, overlapped>>

------------------------------------------------------------------------------
(* Time *)

\* A message that is counted and not yet written belongs to the next day.
KeyExpires ==
  /\ keeper = "redis" /\ lasting
  /\ counter' = 0 /\ lasting' = FALSE /\ sent' = 0
  /\ overlapped' = (overlapped \/ \E r \in Requests : pc[r] \in {"expire", "create"})
  /\ UNCHANGED <<keeper, messages, warned, lapsed, missed, peak, pc, req>>

Midnight ==
  /\ (\E g \in Rooms : today[g] > 0) /\ today' = [g \in Rooms |-> 0]
  /\ UNCHANGED <<keeper, counter, lasting, sent, approved, rejected, warned, lapsed, missed, peak, pc, req, overlapped>>

\* After 90 days a message that is not pinned is removed.
Cleanup ==
  /\ approved + rejected > FoldFunction(+, 0, today)
  /\ \/ approved > 0 /\ approved' = approved - 1 /\ UNCHANGED rejected
     \/ rejected > 0 /\ rejected' = rejected - 1 /\ UNCHANGED approved
  /\ UNCHANGED <<keeper, counter, lasting, sent, today, warned, lapsed, missed, peak, pc, req, overlapped>>

Step(r) == Send(r) \/ RejectWrites(r) \/ RejectCounts(r) \/ RejectWarns(r) \/ RejectFails(r)
Other == Approve \/ Delete \/ KeyExpires \/ Midnight \/ Cleanup

------------------------------------------------------------------------------
\* Where Redis counts, a student sends no more than the limit before the key
\* ends, in all groups together and whatever is deleted meanwhile
\* (chat.service.ts:92-100, 142-148).  Where the rows count it is no limit of a
\* student, as the comment at line 45 has it: in every group there are no more
\* than so many messages of the day that were not deleted (81-90), so another
\* group and every deletion allow more.  Sends must not overlap each other or
\* the end of the key, and Redis must answer.
WithinLimit ==
  ~overlapped /\ ~lapsed =>
    IF keeper = "redis" THEN sent <= DailyLimit ELSE \A g \in Rooms : today[g] <= DailyLimit

\* Nobody is shut out for ever: a count in Redis has a time to live or is being
\* given one, whatever overlaps, unless Redis or the server failed just then
\* (chat.service.ts:92-100).
CountEnds ==
  keeper = "redis" /\ counter > 0 /\ ~lapsed =>
    lasting \/ \E r \in Requests : pc[r] = "expire"

\* Every third rejected message is followed by a warning, through approvals and
\* removals in between, while rejections do not overlap or fail; and there is
\* no warning before the third (chat.service.ts:190-203).
RejectionsWarn ==
  /\ ~overlapped /\ ~missed /\ (\A r \in Requests : pc[r] \notin {"count", "warn"})
       => warned >= peak \div WarnEvery
  /\ warned > 0 => peak >= WarnEvery
==============================================================================
