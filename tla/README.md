# A'lochi in TLA+

A'lochi is a multi-tenant learning platform for schools in Uzbekistan: a NestJS
API over PostgreSQL (Prisma) with a Redis cache and cron jobs, a Next.js web
client, an Android kiosk, and two Python services: one for tutoring, speech and
faces, one that predicts who leaves.  This directory holds TLA+ models of the
parts of the program that keep state under concurrent requests, jobs, restarts and lost messages, the TLC
configurations that check them, and proofs about them for TLAPS.

Paths below are relative to `src/`; `api/` stands for `apps/api/src/`.

    tlc -workers 2 -config Duel.cfg MCDuel      check one configuration
    tlapm Duel_proofs.tla                       check the proofs of one module

Contents: 1 what makes this program hard, 2 inventory, 3 the models, 4 the runs,
5 bounds and fairness, 6 what is proved, 7 disagreements found, 8 what is not
modelled, 9 plan.

## 1. What makes this program hard

Almost no handler of the API runs in a transaction.  A handler reads a row,
decides, and some awaits later writes the row back, *by its id alone*.  Between
the read and the write another request, a cron job or a restart may come.  The
few exceptions are what the rest is measured against: `submitAnswer` of duels
locks its row in a serializable transaction, some unique keys of
`prisma/schema.prisma` turn a lost race into an error, and `runPaymentUnblock`
repeats the status in its update.

So the models have one convention throughout:

- **One action per await.**  A handler is a request with a program counter; each
  action is the code from one await to the next, with its early returns as
  guards.  What a handler read and still carries is a variable of the request.
- **Ghosts only observe.**  Where the code plainly gives no guarantee once two
  handlers overlap, a history variable `overlapped` (or `overlap`) remembers
  that this happened, and the property is conditional on it.  Each such property
  is then a claim about everything *else*: order of calls, restarts, cache
  losses, midnights, job runs.  Properties without the condition hold whatever
  overlaps; they are the interesting ones, and section 4 says which they are.
- **Faulty variants** (`...Unlocked`, `...Twice`, `...Late`, ...) stand beside
  the action they vary, marked as such.  They are not part of `Next`; each
  stands for a plausible defect at that place, and some property fails when it
  replaces the real definition.

## 2. Inventory

For each component: the state it keeps, what can be done to it, with whom it
interacts, what is hard, and what would make it correct.  **M** modelled, **P**
partly, **-** not modelled (section 8 says why, section 9 when).

| | component | state | operations | interacts through | hard | correct means |
|---|---|---|---|---|---|---|
| P | study time `api/study-time/` | `study_time_daily` row, cached session, pending buffer | `recordPing`, `flushPendingToDb`, policy | heartbeats of the web client, flush job every 5 min, shared cache | three copies of one counter, no lock, a cache that expires or is lost, two tabs | no second lost or counted twice, cap locks the day, breaks are served |
| P | exam permissions, written exams `api/exams/exams.service.ts` | `exam_permissions`, `lesson_progress.academy` | grant, grantNext, cancel, submit | tester, student, lesson progress | verdict written by id long after the check; two writes per pass | status tells the result, a pass completes the lesson |
| M | oral exams `api/exams/oral-exam.service.ts` | `oral_exam_sessions` (one per permission), transcript | start, respond, finalize | language model (slow, may fail), permissions | a turn is a read, seconds of waiting and a write; double start, double verdict | one conversation, one verdict, no answer lost |
| - | exam queue `api/exams/exam-queue.service.ts` | waiting line | join, start, complete | exams | unguarded writes at 20-29, 39-51 | the order named at line 12, which no operation asks for |
| P | account status `api/users/`, `api/tenants/` | `users.status` | updateStatus, unblock, disable tenant, scheduled deletion | warnings, payments, jobs | five writers of one column, each writing what it decided earlier | a block has a cause and is lifted by whom it should be |
| M | warnings `api/warnings/` | warnings, count of active ones | give, cancel | account status | count and block are two steps; cancel restores a status it read | blocked iff the limit is reached |
| M | payments `api/payments/`, `api/cron/cron.service.ts` 52-133 | payments per month, `unblockAt` | markPaid; block job 23:59, unblock job 00:03 | account status | selection and write are two steps; month end | who paid is not blocked and is let in again |
| P | duels `api/social/duel.*` | `duels`, `duel_answers` | create, respond, submitAnswer, expiry job | two players, job every 5 min | last answers at once; response against expiry | one winner, closed is closed, nothing stays open |
| M | delegations `api/delegations/`, `api/common/interceptors/delegation-context...` | `delegations`, `delegation_responses` | create, respond, cancel, act under it, night job | giver, recipient, every request of the recipient | three writes without a transaction; stale reads | what the interceptor finds was accepted; ended is closed |
| P | staff attendance, web kiosk `api/attendance/`, `api/face/`, `apps/web/app/kiosk/`, `apps/web/lib/offline-queue.ts` | `attendance_staff`, device flag, IndexedDB queue | matched face, queue, drain, check-in | browser, network, server, other check-in paths | lost answers, two drains, reload, midnight, 4xx answers | a success that was shown stands |
| P | devices, Android kiosk `api/devices/`, `apps/kiosk-android/` | `devices.blocked`, `device_commands`, lock screen | block, issue, cancel, ack, heartbeat, long poll, wake-up | manager, two threads of the tablet, Android's start and end of a screen | two threads fetch the same commands; lost acknowledgements, REBOOT before its ack, a screen that starts late | a command is taken up once per thread, a cancelled one never, each settles, the screen converges to the row |
| P | lesson progress `api/lesson-progress/` | session counts, `home`, `academy` per lesson | completeSession, academy, bulk, overrides | exams, city, certificates, colours | a counter read and written in two awaits (103); a bulk run that works from one snapshot | every session counts, what was completed stays |
| M | status colours `api/student-status/` | three colours per student and day, KPI points | setPersonal, setCritical, setEnglish, award | lesson evaluation, KPI | a colour derived from a row read before (92); an award compares what was read (211) | an improvement that was made is awarded once |
| M | video check-in `api/video-checkin/` | one row per slot, files on the disk | upload, nightly marking, deletion | student, two jobs, file system | row and file change one after the other; a submission against the job (264) | a row has its file, a submitted video is not missed, no file is left |
| P | streak, quests, city `api/gamification/` | streak and shields, buildings | recordActivity, addBuilding | progress, study time | two calendars (45, 58), an index that is a count of rows (city 104) | a streak stands for its days, buildings are in a row |
| P | certificates, leaderboard | one row per level | award after a completion | progress | check, then create, without a key (209) | one per level, and earned |
| P | tasks, visits, staff KPI `api/tasks/`, `api/visits/`, `api/kpi/` | status machines, notes, points | edit, advance, confirm, remove; check in, complete, cancel | staff, KPI, a slow model call | confirmed twice (tasks 238-246); notes written back after a slow call (visits 297) | points once and to the doer, notes are kept |
| M | groups `api/groups/` | `group.mentorId`, `user.groupId` | create, update, add, remove, delete | users | group and mentor name each other in two tables, without foreign keys or a transaction | the pointers agree, nobody is in a deleted group |
| - | login and tokens `api/auth/` | refresh tokens, TOTP, backup codes | login, refresh, rotate, logout | every client | rotation and revocation (263-267), consumption of a code (totp 174-190) as protocols | a rotated token is spent once |
| P | group challenges, chat, friends, feed `api/social/` | contests, messages, a counter in Redis | create, nightly evaluation; send, moderate, delete | students, moderators, job, warnings | limits counted before the insert (challenge 42, 60, 76; chat 142-150); `incr` and `expire` are two calls | one contest at a time, limits hold and end, every third rejection warns |
| P | privacy requests `api/privacy/` | `data_deletion_requests`, the user row | ask, withdraw, approve, nightly erasure | account status, all personal rows | three parties act on a status read before | erased only if asked, approved and due; withdrawn stays withdrawn |
| - | users, branches, tenants | single rows | create, read, update | most others | little: one row per call | unique names, tenant isolation |
| - | idempotency, guards, filters `api/common/` | cached answers per key | per request | every client | the key is stored after the answer (interceptor 29-37) | one execution per key |
| - | notifications, Telegram, parent messages | outgoing messages | on events | all | at-most-once output | - |
| P | analytics `api/analytics/`, `api/clickhouse/`, cron 619-671 | `analytics_events`, their copy in ClickHouse | logEvent, mirror, nightly retry | every component, ClickHouse | insert and mark are two steps over a network, no key | marked is stored, nothing twice without a failure |
| - | risk, monitoring | copies, scores | jobs, queries | - | - | - |
| - | model services `apps/ai-service`, `apps/ml-service`, `api/ai/` | none | calls | exams, visits, tutor | slow, may fail | - |
| - | catalogue, marketing, reports, manager pages, letters, i18n, health, tournaments | single rows or read-only | forms and queries | - | - | - |
| M | oral exam page `apps/web/app/(dashboard)/student/exams/_components/OralExamRunner.tsx`, `apps/web/lib/speech.ts` | phase of the page, what was heard, recognisers, speech, silence timer | begin, record, stop, retry, send, force a verdict, reload | student, speech recogniser and output of the browser, server | five sources of events set one phase; timer and recogniser call functions of an earlier render | the count is the server's, nothing is asked too often, what was said is shown |
| - | the rest of the web client `apps/web/` | screens | - | API | what duel, written exam and study-time pages send is modelled with the handlers they call | - |

`PROJECT.json` lists the source files of each.

## 3. The models

| module | models | state | actions and the code behind them |
|---|---|---|---|
| `StudyTime` | the counter of one student on one day | row, cached session, buffer, clock, policy; per ping its clock reading, delta and loaded session | `Ping*`: `recordPing` await by await (load from cache, row or row and buffer; gate; create, write through or buffer; store).  `Flush*`: the four awaits of `flushPendingToDb`.  `Tick`, `SetPolicy`, `SessionExpire`, `CacheLost`: the environment |
| `ExamPermission` | one permission of one student | status and score of the row, a counter of grants and cancellations | `Grant`, `GrantNext*`, `Cancel*` |
| `OralExam` | the session of a permission | session row, number of stored turns, per request what it has read | `Start*`, `Respond*`, `Finalize*`, `Fail`; the language model may go on, grade or fail at every turn |
| `WrittenExam` | submissions | `academy` of the lesson, per request the graded verdict | `SubmitRead`, `SubmitUpdate`, `SubmitProgress`; grading is exact integer arithmetic with the code's rounding |
| `Exams` | composition of the three | and a restart counter | any request of the three on one permission, `Crash` ends every request and keeps what was written |
| `Account` | `users.status` | status; per request the status it will write | `AdminRead`/`UnblockRead`, `AdminWrite`, `Deactivate` |
| `Warnings` | EXTENDS Account | number of active warnings | `Give*`, `Cancel*` |
| `Payments` | EXTENDS Account | hour, end day of the month, payments of this and earlier months, the two jobs | `PayRead`, `PayUpsert`, `Block*` (23:59), `Unblock*` (00:03), `Evening`, `Midnight`, `Morning` |
| `AccountStatus` | composition | | any of them on one account |
| `Duel` | one duel from the challenge on | status, expiry, answers, points, winner; requests; the job | `RespondRead`/`Write`, `AnswerRead`/`AnswerRollback`/`AnswerCommit`, the five steps of `expireOverdue` |
| `Delegation` | the delegations offered to one member of staff | status, responses, what has ended; requests; the night job | `Create*`, `Respond*` (status, then response row), `Cancel*`, `Act*` (the interceptor, then the handler), `Claim` (the routes that record the delegation the body names), `CompleteFind`, `CompleteUpdate` |
| `CheckinPromise` | **abstract**: what a kiosk owes the people it told "done" | day, records, promises, refused ones | `Promise`, `Record`, `Keep`, `Refuse`, `Midnight` |
| `DuelPromise` | **abstract**: what a duel promises its players | open or not, answers, points, winner | `OpenOrClose`, `Answer` |
| `CommandPromise` | **abstract**: what the commands of a tablet are promised | issued, held and acknowledged per thread, revoked | `Issue`, `Give`, `Acknowledge`, `GoOn`, `Forget`, `Revoke` |
| `KioskCheckin` | web kiosk, offline queue, network and server | attendance rows, device flag, queue, the open requests, drains | `TapMatched`/`Answered`/`Lost`, `Drain*`, `Reload` on the client; `ServerRefuses`, `Check`, `Create`, `ServerFails` on the server; `DeskRecords`, `Deactivate`, `Midnight` |
| `RemoteControl` | one tablet: row and commands, poll thread, heartbeat thread, lock screen | `blocked`, `type` and `status` of commands, staff requests half done, per thread its step, its fetched commands and what it acknowledged | `SetBlocked`/`QueueBlock`, `Issue`, `CancelReads`/`Writes`, `Expire` on the server; `Poll*` (look, listen, timer, look again), `Beat*`, `Execute`, `Acknowledge`, `Restart` on the tablet; `ScreenMoves`, `Hide`, `Resume`: Android; `LoseFetch`, `LoseAck`, `LateAck` (an acknowledgement given up by its thread that the server still carries out): the network |
| `OralExamPage` | the page of an oral exam and the server behind it | phase, text heard, recognisers with what their render had seen, timer, speech, open calls; answers and verdict of the server | taps `Begin`, `StartMic`, `TapStop`, `Retry`, `Submit`, `Reload`; `Hears`, `Ends`, `Fails`, `FallsBack` of a recogniser; `SpeechStarts`/`Ends`; `Silence`: the timer; `ForceFinalize`: the effect; `Serve*`, `Receive*`, `Break` of a call |
| `Tasks` | one task from creation to points | status, assignee, points paid | `Status*`, `Edit*`, `Remove*`, `Confirm*` of the service, read and write apart, then `ConfirmPays` or `ConfirmFails` |
| `Visits` | one home visit | status, notes, report, action items | `AddNotes`, `Cancel*`, `Checkin*`, `CompleteReads`, `ReportAnswers` (the model call), `CompleteWrites`, `Extract` |
| `StatusColours` | the colours of one student on one day | the row, awards, the improvements that were made | `Personal*`, `English*`, `Critical*`, `Award` |
| `Groups` | groups, mentors, students | `mentorId`, `groupId` | every await of `create`, `update`, `validateMentor`/`setMentorGroup`, `addStudents`, `removeStudent`, `delete`; `ServerFails`; `UserEdit`, by which `users.create` and `users.update` write a group to anybody |
| `VideoCheckin` | the video of one slot | row, files on the disk, both jobs | `Arrive`, `LookUp`, `RemoveOld`, `Save`, `Rename`, `SetPath` of an upload; `ListDone`, `MarkMissed*`, `Prune*`; `TimePasses`, `Break` |
| `LessonProgress` | the lessons of one student | rows per lesson, overrides, buildings, certificates | `Session*`, `MarkAcademy`, `Bulk*`, then `City*` and `Certificate*`; `SetOverride`, `StartAcademy`, `ExamPassed` |
| `Streak` | the streak of one student | time in half days of two calendars, the row, days with activity | `Record`, `HasMetDailyMinimum`, `LookUp`, `Save` |
| `Challenges` | contests of groups | contests, month, the job | `CreateCountsMonth`, `CreateCountsActive`, `CreateInserts`; `JobReads`, `JobCloses`, `JobStops` |
| `Chat` | what one student writes | counter in Redis and its time to live, messages by status, those of the day by group, warnings | `Send*` (count, `incr`, `expire`, insert), `Reject*` (write, count, warn), `Approve`, `Delete`, `Cleanup` |
| `Erasure` | the requests of one person | status, due, what the job holds | `Ask*`, `Cancel*`, `Approve*`, `JobReads`, `JobErases`, `JobFails` |
| `Outbox` | analytics events | mark, copies in ClickHouse, open promises, the job | `LogCreates`, `Inserts`, `Marks` and their failures, the same of the job, `Restart` |
| `BranchDay` | composition of the twelve above from `OralExamPage` on | and which part is at work | one disjunct per part |

`MC*` modules give TLC symmetry sets and the study-time policies; `*_proofs`
modules hold the proofs.

`KioskCheckin` implements `CheckinPromise` under the mapping `owed <- queue`
(`PromiseKept`): the queue of the browser *is* the set of promises.  The abstract
module knows nothing of requests, drains, answers or reloads, and every step of
the kiosk must be one of its five actions or change nothing of it.

`Duel` implements `DuelPromise` under `open <- (status = "active")`
(`AnswersCount`).  Requests, the fast rejection, the row lock and the job are
gone: an answer is one step, it is taken only while the duel is open, it counts
once, and the last of all closes the duel and names a winner whom nobody is
ahead of by more than the bonuses.  Responses and the job may open and close as
they like (that they do is section 7's matter), but they never touch the points.

`RemoteControl` implements `CommandPromise` under `held <- todo`,
`revoked <- clean` and `issued <-` the commands that have a row
(`CommandsKept`).  Long poll, heartbeat, listeners, timers and the lock screen
are gone: what remains is that a thread with empty hands is given commands
neither thread acknowledged and nobody revoked, works through them in the order
of issue, and that only a command no thread holds is revoked for good.

`BranchDay` gives twelve parts one set of requests, one way of beginning and
ending them and one `overlapped` (the page of an oral exam
has its own calls and `disturbed`), and explores a behaviour as one `part` at work
(chosen in `Init`) while the rows of the others rest.  That loses nothing, since
no operation of one part decides by a row of another: where the code calls
across (a completed session sets a colour and records a day, a rejected message
gives a warning), the effect is an action of the called part that may happen at
any time.  Exploring their product would multiply states without adding a
behaviour of any part.  Its invariants are conjunctions of named parts, each
stated and explained in the module of its part, and so are `Inv` and
`AttemptsEnd` of `Exams` and `RecordsAgree` of `Delegation`.

Abstractions worth knowing when reading the models:

- **StudyTime** has a clock in ticks, `Second` of them to a second (the code: 1000
  milliseconds), and counts whole seconds, rounded as the code rounds them; the
  numbers are small.  The policy is read where it is first used.
- **Payments**: of the months before the current one, only the payment that came
  furthest counts; the job's query asks for any due payment.  The web client
  records payments as made today, so `unblockAt` is the next midnight.
- **Duel**: `create` is the pending row it leaves.  Its limit of open duels
  counts active and not pending ones, and is not modelled.  A transaction that is
  rolled back by the database is `AnswerRollback`; the code does not retry it.
- **KioskCheckin**: the time at which a check-in was queued is never sent, so a
  delivered check-in is recorded on the day of delivery; if an answer is lost
  before midnight and the item is delivered after it, the person gets a record on
  both days.  Every 4xx answer removes an item, although the comment speaks of
  409: a device that was deactivated (401) or limited (429) drops check-ins.  The
  model keeps these as `refused`; `ShownIsBacked` therefore promises a record, a
  queued item *or* a refusal.  A drain starts only on mount and on the browser's
  `online` event, so nothing promises that the queue ever empties: no liveness is
  claimed.
- **RemoteControl**: commands other than BLOCK and UNBLOCK are one kind, a
  command acknowledged as failed is settled like one that completed, and Android
  may finish, hide and resume the lock screen when it likes.
- **OralExamPage**: texts are there or not; a handler carries what the render it
  was made in had seen, which is the point of the module.  The server is the
  short form of `OralExam` without regrants; every behaviour of a page stays on
  one session.  The browser can speak and listen.
- **Chat**: messages with the same status are interchangeable and are counted.
  The limit is kept in Redis, by a key of the student, or, without it, by the rows
  of the day in the group written to; the module checks both (`keeper`), follows
  the groups only where the rows count, and counts for the property what was
  really sent since the key last ended (`sent`).
- **Outbox**: `doubtful` collects the events for which *at least once* is all the
  code can offer: an insert or mark that went unanswered, or a row the job took
  while the promise of its own insert was open.
- **VideoCheckin**: the row carries, as its `submittedAt` does, which upload wrote
  it last (`by`).  Without it a row that an overtaken upload wrote back would look
  unchanged to the upload that had read it, and the model would call a behaviour
  undisturbed that the code can tell apart.
- **Streak**: a day has two halves, before and after the five hours in which
  Tashkent and UTC disagree.

## 4. The runs

Properties in **bold** hold whatever overlaps; the others are conditional on
`~overlapped` or on the kind of overlap, as their comments state.

| run | checks | shows |
|---|---|---|
| `study_time` | **TypeOK**, SecondsAgree = Conservation, CounterBelowClock; CapLocksDay and BreakServed (two tabs excepted) | one heartbeat stream, the flush, session expiry, a changing policy and a loss of the cache; early in the day a second tab joins, the race of two first pings included.  Cap and break survive every reload and every interleaving with the flush.  Row plus buffer equal the credited seconds, and stay below twice the clock (half a second rounds up to one, section 7), as long as a ping and the flush do not overlap.  A ping whose clock reading lies behind the stored one credits zero and never a negative amount |
| `study_time_flush_drops` | NothingDropped, violated | seconds buffered between the flush's second read and its write are lost (section 7) |
| `exams` | Inv = TypeOK, **StatusTellsResult**, **VerdictsAgree**; AttemptsEnd = **ActiveSessionKept**, VerdictOnActive; **PassCompletesLesson** (restarts excepted); TranscriptKept = NoAnswerLost, ResultKept | three overlapping requests of any kind on a lesson exam, a test or an oral exam, two grants, a cancellation, a restart.  A status never contradicts its score, session and permission never tell two results, a running conversation is never deleted |
| `exams_crash` | PassSurvivesCrash, violated | section 7 |
| `account` | Inv = TypeOK, WarningBlockHasCause, WarningBlockHolds; PaidNotBlocked, **PaymentUnblocks** | staff, both jobs, a disabled tenant, month ends.  A payment lets the student in again in every behaviour, overlaps included |
| `account_unpaid` | UnpaidStaysBlocked, violated | section 7 |
| `duel` | TypeOK, **LastAnswerDecides**, **AnswersCount**, StatusTellsPlay, ClosedStaysClosed, **EventuallyClosed** | three overlapping requests of both players against the job.  The row lock makes the last answer, and only it, name a winner, who may have won (the end of the day names none, see §7), and lets nothing be added to a duel that is not active: the duel implements its promise; a later run of the job closes whatever was revived |
| `delegation` | TypeOK; RecordsAgree = AnswerOnRecord, NoneOutlivesItsEnd, CompletionAnnounced; **ActsWereAccepted**, ClosedForGood, **EndedIsClosed** | two delegations of one recipient, two requests, the night job.  What the interceptor finds, and a handler puts on record, was accepted; one accepted while the job runs is closed in a later night |
| `kiosk_checkin` | **Inv**, **ShownIsBacked**, **PromiseKept** | two people, two overlapping drains, requests whose client is gone but that the server still serves, lost answers, reloads, other check-in paths, midnight, deactivation.  Nothing here is conditional: a success that was shown is never forgotten, and the kiosk implements its promise |
| `remote_control` | **TypeOK**, **CommandRules** = NoRepeat, CancelHolds; **CommandsKept**, **EveryCommandSettles**, **ScreenConverges** | staff block, unblock, issue and cancel while both threads fetch, execute and acknowledge; a fetch or an acknowledgement is lost, the tablet restarts, the server fails between row and command, the lock screen is hidden.  A thread does not take up again what it had acknowledged, a command cancelled while no thread held it is never run again, even if a late acknowledgement overwrites the cancellation, each command settles, the screen comes to agree with the row, and the two threads keep the promise of `CommandPromise` |
| `oral_page_silence` | SilenceShowsAnswer, violated | section 7 |
| `branch_day` | StaffWorkOnRecord, GroupsAgree, FilesAgree, WorkCounts, StreakIsEarned, SocialRulesHold, PageAgrees = CountAgrees, BudgetKept, EarsShutWhileSpeaking, ResultIsServers; ErasedOnlyIfAsked, **EventsArrive**, NothingTakenBack | twelve parts, two overlapping requests each, with their jobs, failures between awaits and the clock.  Unconditional are **AcademyStays** (no session takes back a completed lesson, not even one that read the row before), **WonOnce** (a contest is announced at most once, however often the job is stopped), **MarkedIsStored** and **StoredOnce** (an event is marked only when ClickHouse has it, and is there once unless a call went unanswered), of WorkCounts **BuildingsFollow** and the first half of BuildingsInOrder (one building a lesson, and the one last asked for by a session or an approval is there or on its way unless its insertion failed) and, unless Redis failed just then, **CountEnds**.  PageAgrees relates the page to the server through model failures, repeated verdicts and reloads, as long as no call is given up and no recogniser fails after its recording (`~disturbed`).  The rest is conditional on `~overlapped`, and where the code has no way back from a failure, on `~broken`, `~halfDone`, `~lapsed` or `~missed` |

What the conditions leave out is real and is stated as such: two overlapping
pings of two tabs are both credited the time since the same `lastPingAt`; two
overlapping responses to a duel or a delegation leave what the later one writes;
two answers in one oral exam at the same time keep one; a warning that is
cancelled while another is given may leave a block without cause.  Section 7
lists what overtaken requests do to the parts of `branch_day`.

## 5. Bounds and fairness

Every bound is a CONSTANT or a value of a cfg.

| run | bounds | why they are enough |
|---|---|---|
| `study_time` | 2 ticks to a second; 2 pings, deltas of 0, half and 1 second, daily maximum 6 seconds, session lifetime 3 ticks, flush every 3, 1 cache loss, clock to 6; policies cap 5/block 3/break 2 and cap 3/block 2/no break; pings that overlapped are followed up to clock 2, without a loss and under the first policy (`TabsMeetEarly`) | the clock covers a block, its break, the work after it and the cap; two flush periods; every ping but the first is credited a second for half a one; a session that expires, is reloaded from row and buffer and expires again; a cap that is lowered below what was counted; every pair of program counters of two pings, and clock readings in either order.  Only TypeOK speaks of two pings, and it is proved for any number.  A session lives for at least one `MaxPing` (15 minutes and 90 seconds in the code), an assumption the proof needs, see section 6 |
| `study_time_flush_drops` | 1 ping, no cap, no cache loss | the counterexample needs one ping and one flush |
| `exams` | 3 requests, 2 grants, 1 cancellation, 2 sessions, 2 questions, 2 turns, exams of 0, 2 or 3 questions, pass mark 70, 1 restart | an attempt, a regrant and a second attempt with every request of the first still under way; scores below, at and above the mark |
| `exams_crash` | 1 request, 1 grant, a restart | a sequential counterexample |
| `account` | 2 requests, limit of 2 warnings, 2 warnings in total | a request and a job, or two requests, at every pair of steps; the counter below and at the limit.  Months recur without bound |
| `account_unpaid` | 1 request, limit 2, 3 warnings | no overlap of requests is needed |
| `duel` | 3 requests, 3 questions, speed bonuses 0 and 11 | both players answer at once while a third request responds; ties and each winner |
| `delegation` | 2 delegations, 2 requests | accept against cancel, against the job, and one delegation behind the other.  Days recur without bound |
| `kiosk_checkin` | 2 people, 2 drains, 2 requests, 2 days, 2 queued items | two drains that post the same head, a request left behind by a reload beside a new one, a record on either side of midnight |
| `remote_control` | 2 commands beside any number of heartbeats, 1 fault (a lost fetch or acknowledgement, a restart, a failing server, a hidden screen); blocking and cancelling do not overlap (`SetBlocked`, `CancelReads`) | a BLOCK and an UNBLOCK, or either and another command, held by both threads in either order, beside every heartbeat answer |
| `branch_day`, all parts | 2 requests; a state in which one overtook the other is checked but not continued (`NotOvertaken`) | two requests at every pair of steps, and against the jobs |
| - tasks, visits, colours | 2 people, 1 text, 2 completions and improvements each | a task handed over, notes before and after the report, an improvement repeated |
| - groups | 2 groups, 2 mentors, 1 student | a mentor who leads one group and is given the other, a group that changes its mentor, a deleted group that a person is put into by `users.update` |
| - videos | 2 formats, the six phases of a slot | a resubmission in another format, before and after each deadline |
| - lessons | 2 lessons, 1 repetition by default and 2 at most, 4 calls | completion at home, in the academy, in bulk and by an exam, of one lesson beside the next; buildings asked for in any order, twice, or not at all; both levels of certificate |
| - streaks | 4 days in two calendars, a shield after 2 | a shield earned, a gap it covers and one it does not |
| - contests | 3 groups, 3 contests, months | the limit of two reached, and a third group between two others |
| - chat | 2 groups, limit 2, a warning at every 2nd rejection, 4 messages | the limit reached with Redis by messages to either group, without it in one group and not in the other, deletions in between, the end of the key; the warning reached, missed and earned again.  A state in which a count failed (`lapsed`) is checked but not continued: after it the properties speak only of warnings, and these do not depend on it |
| - oral exam page | 2 recognisers, 2 open calls, 2 questions, 3 answers; a disturbed state is checked but not continued | a recogniser that still ends beside the next one, a call the server serves after a reload beside a new one, an answer too many |
| `oral_page_silence` | the same | a sequential counterexample |
| - erasure, events | 2 requests for erasure; 3 events, 2 a night | withdrawn and asked again; an event that waits for another night |

`CHECK_DEADLOCK FALSE` is set where a bound makes the model stop (the clock, the
grants, a closed duel with no requests left); `kiosk_checkin` checks deadlock.

Fairness, where liveness is checked:

- `AccountStatus`: time passes and the 00:03 job, once due, runs and finishes
  (`WF(Time)`, `WF(NightJob)`).  It is a daily cron job.  Nothing is assumed of
  requests or of the 23:59 job.  A night does not end before the job has run:
  the models assume the server is up at 00:03.
- `Duel`: a request that began ends, the expiry time passes, the job runs (every
  5 minutes).  No player is assumed to answer.
- `Delegation`: days pass and the 00:05 job runs; requests may hang for ever.
- `RemoteControl`: a thread of the tablet that can take its next step takes it
  (both loops run without end and restart with the tablet), and Android starts
  or finishes a screen it was asked to.  Nothing is assumed of staff, of the half
  hour of a command or of who hides the screen; so a tablet that stays off is
  outside `ScreenConverges`.
- `StudyTime`, `Exams`, `KioskCheckin`, `BranchDay` claim no liveness: nothing in the code
  schedules a heartbeat, a retry of a lost second write or a drain, and the outbox
  may be refused by ClickHouse for ever.

Symmetry is declared for sets of model values that only index functions, and
only in runs without liveness (`branch_day`: requests, groups of students and chats).

## 6. What is proved

All for every value of the constants that satisfies the named assumptions:
positive limits; non-empty sets of delegations, requests, people and formats;
names distinct from the reserved ones (drains; uploads, groups and people in
`BranchDayAssumption`), and mentors from students; scores that contain those the
rounding of a written exam can give (`GradesAreScores`); a session of the
study-time engine that outlives one `MaxPing`.

Every invariant and every action property that a passing run checks is stated by
one of these theorems.  What the ghosts `overlapped` and `overlap` are for is the
shape of most proofs: as long as nothing was overtaken, *what a request read and
is about to use still stands*, and this, not the property, is what is inductive.

| theorem | states | argument |
|---|---|---|
| `StudyTime_proofs!TypeCorrect` | `Spec => []TypeOK` | `StateOK` is inductive.  The only step that is not bookkeeping is `EffectiveBound`: a credit lies in `0..MaxPing` whole seconds (`RoundedBound`), also when the clock reading is behind `lastPingAt` |
| `StudyTime_proofs!CapIsKept`, `!BreaksAreServed` | `Spec => CapLocksDay`, `Spec => BreakServed` | invariant `OneStream`, for any interleaving of one heartbeat stream with the flush, expiry and loss of the cache: one ping at a time (`Lone`), nothing exists before the row of the day (`Born`), and the cap and the break that is owed are on the row *and* in every session that was or may be loaded (`CapSeen`, `BreakSeen`).  The flush keeps both marks because it increments the row and does not write it back |
| `StudyTime_proofs!SecondsAddUp` | `Spec => []SecondsAgree` | invariant `Streams`: `OneStream`, and while nothing overlapped `Counted`.  `Sums`: row and buffer are what was credited, and so is the session in the cache or in a ping's hands, up to the daily maximum.  `Covered`: the seconds are within twice the clock, as rounding makes at most twice as much of what was measured (`RoundedTwice`, for any number of ticks to a second); for a ping under way `Ready` says that what it *may still* credit is covered too (`CreditIsPaid`).  Expiry (`ExpiryCounts`) is where the session lifetime matters |
| `Duel_proofs!TypeCorrect` | `Spec => []TypeOK` | with the next |
| `Duel_proofs!WinnerByLastAnswer` | `Spec => []LastAnswerDecides` | inductive invariant `TypeOK /\ Asked /\ LastAnswerDecides`.  `Asked` says that a request under way asks for a question of the duel; without it an answer could raise a count past the number of questions.  `RecordDecides`: one answer more names a winner exactly if it is the last |
| `Duel_proofs!StatusIsTrue`, `!ClosedIsFinal` | `Spec => []StatusTellsPlay`, `Spec => ClosedStaysClosed` | invariant `Inv /\ Unseen`: while nothing overlapped, a response and the job find the status as they read it (`Stands`), and an unanswered duel has no answers (`Played`) |
| `Duel_proofs!ClosedDuelIsFinal` | `Spec => ClosedTakesNoAnswer` | every step that records an answer requires an active duel *inside* the transaction |
| `Duel_proofs!DuelKeepsPromise` | `Spec => AnswersCount` | from `Inv`: the commit of an answer is `Answer` (`RecordIsAnswer`: `Asked` keeps the count within the questions, `LastAnswerDecides` says that there is no winner yet, and `WinnerIsAhead` is the arithmetic of points, bonuses and the tie); every other step is `OpenOrClose` or a stutter.  A refinement for any number of requests, questions and bonuses |
| `Delegation_proofs!TypeCorrect` | `Spec => []TypeOK` | `State` is inductive, one lemma per action |
| `Delegation_proofs!FoundWasAccepted` | `Spec => ActsWereAccepted` | inductive invariant `State /\ Accounted`: an acceptance is on record or under way for every delegation that is active, or that a request is accepting or acting under because the interceptor found it.  The property alone is not inductive, as acting reads the status and not the response.  It excepts the steps in which a request names the delegation (`Claim`) |
| `Delegation_proofs!RecordsTellOneStory`, `!ClosedIsFinal` | `Spec => []RecordsAgree`, `Spec => ClosedForGood` | inductive invariant `Agreed`: a request that answers has its response on record or is to write it (`Told`); while nothing overlapped, the status a request is to write over stands (`HeldStands`), an undecided delegation has no response but that of who is deciding it (`Undecided`), a decided one has exactly the response that decided it, written or to be written (`Decided`), and no delegation is overdue by day (`Punctual`). |
| `KioskCheckin_proofs!InvHolds` | `Spec => []Inv` | `Inv` = types, `Numbered` (each queue id once) and `AnswersAreTrue` (what an answer says is so).  Restated as `Parts`, one part per group of variables, and proved action by action |
| `KioskCheckin_proofs!ShownStands` | `Spec => []ShownIsBacked` | from `Inv` and `KindsOfStep`: every step lets time pass, adds records, drops items that are recorded or refused, accepts a new item, or shows a success after a true answer.  What was shown stays backed under each kind |
| `KioskCheckin_proofs!KioskKeepsPromise` | `Spec => PromiseKept` | the same five kinds are the five actions of `CheckinPromise`, or stutter: a refinement for any number of people, drains, requests and days.  `AnswersAreTrue` is what allows a drain to drop an item on a 409, and `Numbered` is what makes it drop *that* item |
| `RemoteControl_proofs!TypeCorrect`, `!NeverTwice`, `!CancelledIsNeverRun` | `Spec => []TypeOK`, `[]NoRepeat`, `[]CancelHolds` | one inductive invariant `TypeOK /\ Handed /\ NoRepeat /\ CancelHolds`, split into `Core` (rows, hands, history) and `Shown` (screen, faults) so that a step of one leaves the other alone.  `Handed`: an acknowledged command is neither free nor pending, which is why a fetch, that brings pending commands only, cannot bring it back.  `LateAck` may write over a cancellation, but what it writes is not pending either |
| `RemoteControl_proofs!RulesHold` | `Spec => []CommandRules` | the two above together, as the run checks them |
| `RemoteControl_proofs!TabletKeepsPromise` | `Spec => CommandsKept` | the invariant above and `InHand`: a thread fetches with empty hands, and what it holds or a request is to cancel was issued.  `OldestInHand`: the command a thread works on is the first it holds.  A fetch is `Give`, an acknowledgement `Acknowledge`, a lost fetch or a restart `Forget`, a lost acknowledgement `GoOn`, and one that arrives late changes nothing of the promise (`UnderWayIssued`: its command was issued) |
| `AccountStatus_proofs!InvHolds` | `Spec => []Inv` | inductive invariant `Types /\ Flags /\ (~overlapped => Sound)`.  `Sound` says what every request and job under way still may rely on; `RequestIsLone`: while nothing overlapped, a request that is under way is the only one, so what it read still stands |
| `AccountStatus_proofs!PaidStaysOpen` | `Spec => PaidNotBlocked` | from the same invariant: who is selected for the block was unpaid when read, and without an overlap is so still |
| `Exams_proofs!InvHolds` | `Spec => []Inv` | inductive invariant `IInv == Types /\ Flags /\ Told /\ Rows /\ Lesson /\ (~overlapped => Sound)`.  `Told` adds to the two properties that a graded submission under way tells its own result; `AtLeast` and `GradedTells` are the arithmetic of the rounding: an exact ratio at or above the mark never rounds below it |
| `Exams_proofs!PassCompletes` | `Spec => []PassCompletesLesson` | `Lesson`: while no restart came, a pass is written in the lesson or on its way there |
| `Exams_proofs!AnswersAreKept` | `Spec => []TranscriptKept` | `Sound`: the transcript a lone request holds is the stored one and its own answer |
| `Exams_proofs!AttemptsAreEnded` | `Spec => AttemptsEnd` | `Rows`: session ids are new, so a start that deletes the stale session it read hits a completed one, *whatever* overlaps |

| `BranchDay_proofs!AnalyticsArrive` | `Spec => []EventsArrive` | `OutboxInv`: what a sender is about to mark has arrived (`AboutToMark`); an event without doubt has one sender at most and arrives when that sender inserts it (`OneSender`) |
| `BranchDay_proofs!DataGoWhenAsked` | `Spec => []ErasedOnlyIfAsked` | `ErasureInv`: what the job found was due, what is scheduled was approved by staff (`CarriedOut`), and one application at most is open (`OneOpen`) |
| `BranchDay_proofs!StaffWork` | `Spec => []StaffWorkOnRecord` | `TaskInv`, `VisitInv`, `ColourInv`: from the report on a task stays with its doer, and its points are on their way, given or lost (`PaidOnce`); every completion of a visit but the last was followed by the check-in that reopened it (`Completions`), so action items given and on their way do not exceed them; an award that is given or on its way has an improvement of its own (`Earned`) |
| `BranchDay_proofs!Videos` | `Spec => []FilesAgree` | `VideoInv`: each row is as the upload it names left it, or as the job marked it (`RowsAttributed`); every file belongs to the row or to an upload on its way (`NothingExtra`), and nothing the row points to is missing but between deletion and write (`NothingMissing`) |
| `BranchDay_proofs!Groups` | `Spec => []GroupsAgree` | `GroupInv`: requests that do not overlap hold different rows (`Standing`), mentors nobody works on name their group and are named by it (`Settled`), and what a request has done so far (`HalfWay`): up to six writes in two tables, without a transaction.  People whose group `users` wrote last (`edited`) are left out until the groups service writes them again, and what it does to the others is shown not to depend on them |
| `BranchDay_proofs!Lessons` | `Spec => []WorkCounts` | `LessonInv`: the stored count is at least the sessions; `Built`: a lesson has one building, whose index is below their number, and what was asked for is built or being built; a certificate on its way is for lessons that are completed |
| `BranchDay_proofs!Streaks` | `Spec => []StreakIsEarned` | `StreakInv`: a streak is no longer than the days on record in its window, and the shields given, with the streak's part of a week, were earned by days; `DayExtendsStreak` is the arithmetic of a gap, a shield and a new day in two calendars |
| `BranchDay_proofs!SocialRules` | `Spec => []SocialRulesHold` | `ContestInv`: who is announced is closed (`Closed`), and what a creation has counted still holds unless a contest was created since (`HeldContests`); `ChatInv`: the key has counted what was sent since it last ended and what is on its way to be a row (`InFlight`, `Admitted`), every multiple of `WarnEvery` that was reached has its warning or is owed one (`WarningsOwed`) |
| `BranchDay_proofs!ExamPage` | `Spec => []PageAgrees` | `PageInv`: the page waits for one call (`WaitsForOne`), one recogniser listens and only while the page records (`ListensAlone`), and what the page counts is what the server has but for the answer under way (`Counted`) |
| `BranchDay_proofs!RecordsStay` | `Spec => NothingTakenBack` | from the invariants of tasks, videos, lessons and erasure: a write that was not overtaken writes what it read, advanced |

In `BranchDay_proofs` each part has its invariant while it is at work and rests in
its initial rows while another is (`...Inv == IF part = ... THEN ... ELSE ...`), so
the twelve proofs are independent.

What the proofs changed in the models: three attempts failed for a reason.

- `FilesAgree` with three uploads: two uploads in turn could leave a row equal to
  the one a third had read, and its overtaking went unnoticed.  The code's row
  tells them apart by `submittedAt` (`prisma/schema.prisma:1421-1437`,
  `video-checkin.service.ts:195-200`), which the model now has (`by`).
- `SecondsAgree` when a session lives for less than a `MaxPing`: a ping that began
  before the expiry and loads after it is credited on the row's older
  `lastPingAt`, and the counter gets further ahead than rounding explains.  The
  assumption is now `MaxPing * Second <= SessionTTL`, which the code's 90 seconds
  and 15 minutes (`study-time.service.ts:36,38`) meet.
- `BranchDayAssumption` did not say that names of uploads, groups and people differ
  from each other and from the reserved ones; identifiers of the database do.

Only model-checked: the liveness properties (`PaymentUnblocks`,
`EventuallyClosed`, `EndedIsClosed`, `EveryCommandSettles`, `ScreenConverges`);
fairness and ENABLED are out of the prover's reach.

## 7. Disagreements found

| run | the source says | the code does |
|---|---|---|
| `study_time_flush_drops` | `api/study-time/study-time.service.ts:445`: "keep any seconds added by pings during flush" | the buffer is read again and written back in two awaits; a ping between them is overwritten |
| `exams_crash` | `api/exams/exams.service.ts:197`: "Lesson-anchored exams gate lesson completion" | the permission is set to done before the progress is written; if the server stops in between, the exam is passed, the lesson stays open, and a new submission is refused |
| `oral_page_silence` | `OralExamRunner.tsx:350`: "Move to review if we captured anything; otherwise back to ready" | the silence timer calls the `stopMic` of the render in which the recording was started (276, 298, 353), which still sees the texts of before it: after the first recording of a question the student gets the microphone button instead of the answer, which the next tap clears; after the second one review comes even if nothing was said |
| `account_unpaid` | `docs/use-cases-bpmn.md:97,103`: who has not paid is blocked until the night after the payment | the 00:03 job accepts a due payment of any month, so whoever ever paid is let in four minutes after the block |

What follows is visible in the code and in the models, as a step that sets
`overlapped` or as a behaviour no property forbids, and is not made a run:

- **Exams**: the conversation of a cancelled oral exam goes on, and its verdict
  overwrites the cancellation (`exams.service.ts:261` speaks of cancelling before
  the submission).  The score of a written exam is rounded and its pass decision
  is not: 16 of 23 is stored as 70 and failed at a mark of 70
  (`exams.service.ts:188`).
- **Oral exam page**: `onEnd` clears the silence timer whoever set it, and so
  does a recogniser that ends by itself; the recording that follows, or goes on
  without a recogniser, waits for a tap, although line 332 arms the timer
  "instead of hanging".  A recogniser that fails after its recording makes the
  page ready while an answer is under way, or opens the microphone in the second
  dialect; then two answers can be sent at once.  Speech that fails before it
  starts leaves the page in `submitting`.  A verdict that fails is asked for
  again at once and without end, and an answer whose reply was lost is sent again
  and counted twice.
- **Delegations**: a recipient with an active delegation gets no second one
  (`docs/use-cases-bpmn.md:115-116`); only the offer checks this, and only
  against active ones, so two pending ones are both accepted.  A payment for
  which the interceptor found nothing, and every award, put on record the
  delegation that the body names (`payments.controller.ts:104`,
  `kpi.controller.ts:43`); whether it was accepted, or is the caller's, is looked
  up by nobody (`Claim`).
- **Duels**: `docs/use-cases-bpmn.md:161-165` and
  `docs/superpowers/specs/2026-04-24-social-features-design.md:139-142` let the
  points decide, with a winner, once 24 hours are over or both have finished;
  lines 167 and 432 of the latter close a duel as expired when the other did not
  play, with 50 XP to the challenger.  The code only expires it
  (`duel.service.ts:468-500`): no winner, and no XP, whoever had finished.  What
  `LastAnswerDecides` says of the end of the day is what the code does, not what
  the first two say.
- **Payments**: a `paymentEndDay` of 29 to 31 blocks nobody in a month without
  that day (`cron.service.ts:60`).
- **Study time**: the flush looks at rows of today only (`study-time.service.ts:427`);
  what is buffered after the last flush of a day is never written.  Line 28
  promises "never more than the real wall-clock elapsed since the last ping", but
  the elapsed time is rounded (309): pings half a second apart are credited a
  second each, so the counter can reach twice the clock and no more
  (`CounterBelowClock`), and two tabs are both credited the same interval.
- **Groups**: `update` clears the old mentor before it validates the new one, so
  a refused update leaves the group without a mentor (`halfDone`).  `users.update`
  and `users.create` (`users.service.ts:58,345`) write any group to anybody and look
  at no group: a student can be put into one that was deleted, although
  `delete` refuses to remove a group with students in it, and a mentor can point to
  a group that has another mentor.  `GroupsAgree` speaks of the others only.
- **Visits**: a check-in reopens a completed or cancelled visit, and a cancelled
  one can be completed.
- **Colours**: two overlapping setters award an improvement that the row did not
  make.
- **Video**: overlapping uploads leave a row without its file or a file without
  a row; the old video is deleted before the new row is saved, so a failure in
  between loses both.
- **Progress**: "each completed lesson adds one building" says the comment at
  `progress.service.ts:198`; a session and an approval ask for one, bulk completion
  and a passed exam add no building and no certificate, and an insertion that fails
  is not tried again unless the lesson is completed once more.  A collision stops a
  bulk run before its audit row, and a lesson completed at home is open again after
  a later session if the number of repetitions was raised meanwhile.  Certificates
  have no unique key.
- **Streaks**: the gap between two activities is counted in days of UTC and
  without a sign, the minimum is looked up by the day in Tashkent; a streak of
  one day leaves `longestStreak` at 0.
- **Contests**: nothing calls `addXp` or `completeExpired`, so each contest ends
  in a tie and the first group wins; the limit of two a month counts contests of
  both sides.
- **Chat**: a message rejected again at a multiple of three warns again; two
  rejections at once can skip the third; a failure between `incr` and `expire`
  leaves a count that never ends.  The "per-user daily message count" of the comment
  at `chat.service.ts:45` is one only where Redis counts, and there for 24 hours from
  the first message; where rows count, each group has its own limit, any group may
  be written to, and deleting a message gives it back.
- **Erasure**: an approval, or the job, that read the request before it was
  withdrawn still carries it out.
- **Outbox**: the job always takes the 1000 oldest rows; if these fail for ever,
  newer ones are not tried.
- **Remote control**: a REBOOT whose acknowledgement is lost is repeated after
  each start until its half hour ends; an acknowledgement overwrites a
  cancellation and the reverse, also one that arrives after its thread went on
  (`devices.service.ts:528-536` looks for the command, not at its status).


## 8. What is not modelled, and why

- **The share of the code.**  Most of the repository is not of this kind: the
  pages of the web client, the seed data, forms over single rows and read-only
  queries make up the larger part of its lines.  What is left out below keeps no
  state that two actors could bring out of step, or is named as a gap.
- **Login and tokens**: what can be said about them is a matter of a security
  review and is kept out of this project.
- **Exam queue**: three unguarded writes of one status; the order named at
  `exam-queue.service.ts:12` is asked for by no operation, so nothing is left to
  check beyond the assignments.
- **Idempotency interceptor**: the key is stored after the answer, but no client
  of the repository sends one.
- **Quests**: only `lesson_complete` and `watch_video` are ever progressed, and
  both have a target of one, so a lost increment is repeated by the next event;
  two first loads of a day can create a second set.
- **Web client**: pages other than the kiosk and the oral exam keep forms and lists;
  what they send is a step of the modelled handlers.
- **Single rows**: users, branches, tenants, catalogue, marketing, manager
  pages, tournaments, letters, consents, friends, parent messages.  Each call creates
  or changes one row, under a unique key where it matters.
- **Output**: notifications, Telegram, feed, sockets.  Nothing reads them back.
- **Read-only**: the queries of analytics, risk, monitoring, leaderboard, reports, and the
  views of the modelled components.
- **Computation by others**: language, speech and vision models.  Their answers
  are nondeterministic choices where a handler depends on them.
- **Within modelled components**: `create` of a duel and its limit; confirmation,
  face cache and enrolment of attendance; photographs, checklists and signatures
  of a visit; the removal of a user, which leaves `groups.mentorId` pointing at
  nobody (`users.service.ts:541-600`), and a change of role; the practice score and the end of a lesson; bans, locks, pins and
  reactions of the chat; enrolment, wiping, policies, raw commands and the app
  blocker of a tablet; an upload that crosses midnight
  (`video-checkin.controller.ts:163` computes its directory again); the history
  views; audit rows.
- Further places where a read and a later write are apart:
  `devices.service.ts:118-127,360-367`, `parent-messages.service.ts:22-48`,
  `oral-exam.service.ts:497`, `payments.service.ts:40`, `warnings.service.ts:64`.

## 9. Plan

1. One more abstract specification, with the detailed module shown to implement
   it, by TLC and by proof: `Outbox` as a log that delivers at least once.
2. The safety halves of the liveness properties as theorems: a step that must be
   taken stays possible until it is taken (`EveryCommandSettles`,
   `EventuallyClosed`), so that only fairness is left to TLC.
3. `StudyTime` with two heartbeat streams: how far two tabs can outrun the clock.
