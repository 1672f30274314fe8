-------------------------------- MODULE Duel --------------------------------
(***************************************************************************)
(* One duel of two students (social/duel.service.ts): the challenge, the   *)
(* response, the answers and the expiry job.  The duel has just been       *)
(* created and is pending.  respond reads and writes the row in separate   *)
(* awaits; an answer is one serializable transaction on the locked row;    *)
(* the job selects rows and then writes them by id alone.                  *)
(***************************************************************************)
EXTENDS Integers

CONSTANTS
  Requests,    \* HTTP requests that can be in flight at the same time
  Questions,   \* how many questions the duel has
  Bonuses      \* the speed bonuses that answers in time can earn

ASSUME DuelAssumption == Questions \in Nat \ {0} /\ Bonuses \subseteq Nat /\ Bonuses # {}

Players == {"challenger", "challenged"}
Closed  == {"completed", "expired", "rejected"}
Statuses == {"pending", "active"} \union Closed
CronSteps == {"idle", "expireActive", "findPending", "expirePending", "expireRest"}

VARIABLES
  status,      \* duels.status
  overdue,     \* expiresAt, 24 hours after the challenge, has passed
  answered,    \* the number of duel_answers of each player, asked in order
  score,       \* challengerScore and challengedScore
  winner,      \* winnerId, or "none"
  pc,          \* where each request is
  req,         \* what each request carries: who answers which question
  cron,        \* where the expiry job is
  overlapped   \* history: the row changed between a read and the write by id

duel == <<status, overdue, answered, score, winner>>
vars == <<duel, pc, req, cron, overlapped>>

NoReq == [by |-> "challenger", question |-> 0, accept |-> FALSE]

Init ==
  /\ status = "pending" /\ overdue = FALSE
  /\ answered = [p \in Players |-> 0]
  /\ score = [p \in Players |-> 0]
  /\ winner = "none"
  /\ pc = [r \in Requests |-> "idle"]
  /\ req = [r \in Requests |-> NoReq]
  /\ cron = "idle"
  /\ overlapped = FALSE

Begin(r, step, what) ==
  /\ pc[r] = "idle"
  /\ pc' = [pc EXCEPT ![r] = step]
  /\ req' = [req EXCEPT ![r] = what]

Return(r) ==
  /\ pc' = [pc EXCEPT ![r] = "idle"]
  /\ req' = [req EXCEPT ![r] = NoReq]

------------------------------------------------------------------------------
\* Faulty variant: any duel can be responded to.
RespondReadAny(r) ==
  /\ \E a \in BOOLEAN :
       Begin(r, "respond", [by |-> "challenged", question |-> 0, accept |-> a])
  /\ UNCHANGED <<duel, cron>>

\* respond: the status is checked, and not the expiry ...
RespondRead(r) ==
  /\ status = "pending"
  /\ \E a \in BOOLEAN :
       Begin(r, "respond", [by |-> "challenged", question |-> 0, accept |-> a])
  /\ UNCHANGED <<duel, cron>>

\* ... and the row is written whatever it holds by now.
RespondWrite(r) ==
  /\ pc[r] = "respond"
  /\ status' = IF req[r].accept THEN "active" ELSE "rejected"
  /\ Return(r)
  /\ UNCHANGED <<overdue, answered, score, winner, cron>>

\* submitAnswer, fast rejection.  The page asks the question whose index is
\* the number of answers it last saw.
AnswerRead(r) ==
  /\ status = "active" /\ ~overdue
  /\ \E p \in Players :
       /\ answered[p] < Questions
       /\ Begin(r, "answer", [by |-> p, question |-> answered[p], accept |-> FALSE])
  /\ UNCHANGED <<duel, cron>>

\* The transaction is rolled back: the duel is closed, the question answered,
\* or it is aborted because it is not serializable with one that was committed.
AnswerRollback(r) ==
  /\ pc[r] = "answer"
  /\ Return(r)
  /\ UNCHANGED <<duel, cron>>

\* Faulty variant: the challenger's last answer decides.
AllAnsweredByChallenger(count) == count["challenger"] >= Questions

\* The counts of both players, the new answer included.
AllAnswered(count) == \A p \in Players : count[p] >= Questions

\* Ten points per correct answer and a speed bonus; a tie is the challenger's.
Winner(final, bonus) ==
  IF final["challenger"] * 10 + bonus["challenger"]
       >= final["challenged"] * 10 + bonus["challenged"]
  THEN "challenger" ELSE "challenged"

\* One more answer of p, right or wrong, and what follows from it.
Record(p) ==
  /\ answered' = [answered EXCEPT ![p] = @ + 1]
  /\ \E correct \in 0..1 : score' = [score EXCEPT ![p] = @ + correct]
  /\ IF AllAnswered(answered')
     THEN status' = "completed"
          /\ \E bonus \in [Players -> Bonuses] : winner' = Winner(score', bonus)
     ELSE UNCHANGED <<status, winner>>
  /\ UNCHANGED <<overdue, cron>>

\* Faulty variant: the fast rejection is trusted under the lock.
AnswerCommitUnlocked(r) ==
  /\ pc[r] = "answer"
  /\ req[r].question >= answered[req[r].by]
  /\ Record(req[r].by) /\ Return(r)

\* Faulty variant: the question may have been answered.
AnswerCommitTwice(r) ==
  /\ pc[r] = "answer" /\ status = "active"
  /\ Record(req[r].by) /\ Return(r)

\* The transaction: status and question are checked again under the row lock,
\* and the last answer of the two players completes the duel.
AnswerCommit(r) ==
  /\ pc[r] = "answer" /\ status = "active"
  /\ req[r].question >= answered[req[r].by]
  /\ Record(req[r].by) /\ Return(r)

Request(r) ==
  \/ RespondRead(r) \/ RespondWrite(r)
  \/ AnswerRead(r) \/ AnswerRollback(r) \/ AnswerCommit(r)

------------------------------------------------------------------------------
(* expireOverdue, every five minutes.                                      *)

CronGoto(step) == cron' = step /\ UNCHANGED <<overdue, answered, score, winner, pc, req>>

\* Faulty variant: duels that were never accepted are all the job looks for.
FindActiveNone ==
  /\ cron = "idle" /\ overdue
  /\ CronGoto("findPending")
  /\ UNCHANGED status

\* Before the expiry no query finds the row.
FindActive ==
  /\ cron = "idle" /\ overdue
  /\ CronGoto(IF status = "active" THEN "expireActive" ELSE "findPending")
  /\ UNCHANGED status

ExpireActive ==
  /\ cron = "expireActive"
  /\ status' = "expired"
  /\ CronGoto("findPending")

FindPending ==
  /\ cron = "findPending"
  /\ CronGoto(IF status = "pending" THEN "expirePending" ELSE "expireRest")
  /\ UNCHANGED status

ExpirePending ==
  /\ cron = "expirePending"
  /\ status' = "expired"
  /\ CronGoto("expireRest")

\* Faulty variant: the last update takes every duel that is overdue.
ExpireRestAll ==
  /\ cron = "expireRest"
  /\ status' = "expired"
  /\ CronGoto("idle")

\* The last update asks for the status itself.
ExpireRest ==
  /\ cron = "expireRest"
  /\ status' = IF status = "pending" THEN "expired" ELSE status
  /\ CronGoto("idle")

ExpireOverdue ==
  FindActive \/ ExpireActive \/ FindPending \/ ExpirePending \/ ExpireRest

DayPasses ==
  /\ ~overdue /\ overdue' = TRUE
  /\ UNCHANGED <<status, answered, score, winner, pc, req, cron>>

------------------------------------------------------------------------------
\* A step changes the status of a row that somebody has read and is to write.
Overlap ==
  /\ status' # status
  /\ \/ \E r \in Requests : pc[r] = "respond" /\ pc'[r] = "respond"
     \/ cron \in {"expireActive", "expirePending"} /\ cron' = cron

Track == overlapped' = (overlapped \/ Overlap)

Next == ((\E r \in Requests : Request(r)) \/ ExpireOverdue \/ DayPasses) /\ Track

Spec == Init /\ [][Next]_vars

\* Requests that were begun are ended, the day passes and the job runs.
Fairness ==
  /\ \A r \in Requests :
       WF_vars((RespondWrite(r) \/ AnswerRollback(r) \/ AnswerCommit(r)) /\ Track)
  /\ WF_vars(DayPasses /\ Track) /\ WF_vars(ExpireOverdue /\ Track)

FairSpec == Spec /\ Fairness

------------------------------------------------------------------------------
(* Properties.                                                             *)

Counts == [Players -> 0..Questions]

TypeOK ==
  /\ status \in Statuses /\ overdue \in BOOLEAN
  /\ answered \in Counts /\ score \in Counts
  /\ winner \in Players \union {"none"}
  /\ pc \in [Requests -> {"idle", "respond", "answer"}]
  /\ req \in [Requests -> [by : Players, question : 0..Questions, accept : BOOLEAN]]
  /\ cron \in CronSteps /\ overlapped \in BOOLEAN

\* The last answer decides, in whatever order the two finish and however their
\* answers overlap: a duel that both have answered has a winner, and a winner
\* is named only then, with no more points than answers (submitAnswer's lock).
\* So the end of the day names none: a duel that expires stays without a winner,
\* also if one of the two had finished (expireOverdue; two documents have the
\* points compared then, see the README).
LastAnswerDecides ==
  /\ winner # "none" <=> \A p \in Players : answered[p] = Questions
  /\ \A p \in Players : score[p] <= answered[p]

\* A duel that is not active takes no answer, also not one that was checked
\* before it was closed: its points and its winner are final.
ClosedTakesNoAnswer ==
  [][status # "active" => UNCHANGED <<answered, score, winner>>]_vars

\* The transaction keeps the promise of DuelPromise whatever overlaps: beside the
\* other player's answers, responses, the job and answers that were checked
\* before all of these, each answer counts once, and the last one names a winner
\* who may have won and closes the duel.
Promises == INSTANCE DuelPromise WITH open <- (status = "active")
AnswersCount == Promises!Spec

\* The status tells what happened, as long as nobody wrote over a row that
\* had changed since it was read: a duel without an answer is the only one
\* that is pending or was rejected, and a completed one is the only one with
\* a winner.
StatusTellsPlay ==
  ~overlapped =>
    /\ status \in {"pending", "rejected"} => \A p \in Players : answered[p] = 0
    /\ status = "completed" <=> winner # "none"

\* A closed duel stays closed, with the same exception.
ClosedStaysClosed ==
  [][~overlapped' /\ status \in Closed => status' = status]_vars

\* No duel stays open: after the day has passed it is closed for good, also
\* when it was accepted at the last moment or while the job ran.
EventuallyClosed == <>[](status \in Closed)
==============================================================================
