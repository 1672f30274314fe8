----------------------------- MODULE Duel_proofs -----------------------------
(* What holds of a duel for every number of overlapping requests, every      *)
(* number of questions and every set of speed bonuses.                       *)
EXTENDS Duel, TLAPS

\* A request that is to store an answer carries a question of the duel.
Asked == \A r \in Requests : pc[r] = "answer" => req[r].question < Questions

\* The part of the type that answers and points need; the rest of TypeOK.
Points == answered \in Counts /\ score \in Counts /\ winner \in Players \union {"none"}

Inv == TypeOK /\ Asked /\ LastAnswerDecides

\* The winner is one of the players.
LEMMA WinnerIsPlayer ==
  ASSUME NEW final, NEW bonus PROVE Winner(final, bonus) \in Players
BY DEF Winner, Players

\* Beginning a request leaves the requests well formed.
LEMMA BeginType ==
  ASSUME Inv, NEW r \in Requests, NEW step \in {"idle", "respond", "answer"},
         NEW by \in Players, NEW q \in 0..Questions, NEW a \in BOOLEAN,
         step = "answer" => q < Questions,
         Begin(r, step, [by |-> by, question |-> q, accept |-> a])
  PROVE  /\ pc' \in [Requests -> {"idle", "respond", "answer"}]
         /\ req' \in [Requests -> [by : Players, question : 0..Questions, accept : BOOLEAN]]
         /\ Asked'
<1> DEFINE what == [by |-> by, question |-> q, accept |-> a]
           R == [by : Players, question : 0..Questions, accept : BOOLEAN]
<1>1. what \in R /\ what.question = q
  OBVIOUS
<1>2. pc' = [pc EXCEPT ![r] = step] /\ req' = [req EXCEPT ![r] = what]
  BY DEF Begin
<1>3. pc \in [Requests -> {"idle", "respond", "answer"}] /\ req \in [Requests -> R]
  BY DEF Inv, TypeOK
<1> HIDE DEF what, R
<1>4. pc' \in [Requests -> {"idle", "respond", "answer"}] /\ req' \in [Requests -> R]
  BY <1>1, <1>2, <1>3
<1>5. ASSUME NEW s \in Requests, pc'[s] = "answer" PROVE req'[s].question < Questions
  <2>1. CASE s = r
    BY <2>1, <1>1, <1>2, <1>3, <1>5
  <2>2. CASE s # r
    BY <2>2, <1>2, <1>3, <1>5 DEF Inv, Asked
  <2> QED BY <2>1, <2>2
<1> QED
  BY <1>4, <1>5 DEF R, Asked

\* So does returning.
LEMMA ReturnType ==
  ASSUME Inv, NEW r \in Requests, Return(r)
  PROVE  /\ pc' \in [Requests -> {"idle", "respond", "answer"}]
         /\ req' \in [Requests -> [by : Players, question : 0..Questions, accept : BOOLEAN]]
         /\ Asked'
<1> DEFINE R == [by : Players, question : 0..Questions, accept : BOOLEAN]
<1>1. NoReq \in R
  BY DuelAssumption DEF NoReq, Players
<1>2. pc' = [pc EXCEPT ![r] = "idle"] /\ req' = [req EXCEPT ![r] = NoReq]
  BY DEF Return
<1>3. pc \in [Requests -> {"idle", "respond", "answer"}] /\ req \in [Requests -> R]
  BY DEF Inv, TypeOK
<1> HIDE DEF R
<1>4. pc' \in [Requests -> {"idle", "respond", "answer"}] /\ req' \in [Requests -> R]
  BY <1>1, <1>2, <1>3
<1>5. ASSUME NEW s \in Requests, pc'[s] = "answer" PROVE req'[s].question < Questions
  BY <1>2, <1>3, <1>5 DEF Inv, Asked
<1> QED
  BY <1>4, <1>5 DEF R, Asked

\* One more answer keeps the points below the answers, the answers within the
\* duel, and names a winner exactly when it is the last one.
LEMMA RecordDecides ==
  ASSUME Inv, NEW p \in Players, answered[p] < Questions, Record(p), status = "active"
  PROVE  Points' /\ LastAnswerDecides' /\ status' \in Statuses
<1>1. /\ answered \in Counts /\ score \in Counts
      /\ winner \in Players \union {"none"}
      /\ winner # "none" <=> \A q \in Players : answered[q] = Questions
      /\ \A q \in Players : score[q] <= answered[q]
  BY DEF Inv, TypeOK, LastAnswerDecides
<1>2. answered' = [answered EXCEPT ![p] = answered[p] + 1]
  BY DEF Record
<1>3. PICK correct \in 0..1 : score' = [score EXCEPT ![p] = score[p] + correct]
  BY DEF Record
<1>4. answered' \in Counts
  BY <1>1, <1>2, DuelAssumption DEF Counts
<1>5. \A q \in Players : score'[q] <= answered'[q]
  BY <1>1, <1>2, <1>3, DuelAssumption DEF Counts
<1>6. score' \in Counts
  BY <1>1, <1>2, <1>3, <1>4, <1>5, DuelAssumption DEF Counts
<1>7. winner = "none"
  BY <1>1, DuelAssumption DEF Counts
<1>8. AllAnswered(answered') <=> \A q \in Players : answered'[q] = Questions
  BY <1>4, DuelAssumption DEF AllAnswered, Counts
<1>9. CASE AllAnswered(answered')
  <2>1. PICK bonus \in [Players -> Bonuses] : winner' = Winner(score', bonus)
    BY <1>9 DEF Record
  <2>2. winner' \in Players /\ winner' # "none"
    BY <2>1, WinnerIsPlayer DEF Players
  <2>3. status' \in Statuses
    BY <1>9 DEF Record, Statuses, Closed
  <2> QED
    BY <2>2, <2>3, <1>4, <1>5, <1>6, <1>8, <1>9 DEF Points, LastAnswerDecides
<1>10. CASE ~AllAnswered(answered')
  <2>1. winner' = winner /\ status' = status
    BY <1>10 DEF Record
  <2> QED
    BY <2>1, <1>1, <1>4, <1>5, <1>6, <1>7, <1>8, <1>10 DEF Points, LastAnswerDecides, Inv, TypeOK
<1> QED
  BY <1>9, <1>10

\* The job and the calendar leave the requests and the points alone.
Unmoved == UNCHANGED <<answered, score, winner, pc, req>>

\* What remains of TypeOK when the requests and the points are set aside.
Rest == status \in Statuses /\ overdue \in BOOLEAN /\ cron \in CronSteps

LEMMA UnmovedInv ==
  ASSUME Inv, Unmoved
  PROVE  /\ Points' /\ LastAnswerDecides' /\ Asked'
         /\ pc' \in [Requests -> {"idle", "respond", "answer"}]
         /\ req' \in [Requests -> [by : Players, question : 0..Questions, accept : BOOLEAN]]
BY DEF Inv, TypeOK, Unmoved, Points, LastAnswerDecides, Asked, Counts

\* Every step of the job, and the passing of the day.
LEMMA JobStep ==
  ASSUME Inv, ExpireOverdue \/ DayPasses
  PROVE  Unmoved /\ Rest'
<1>1. status \in Statuses /\ overdue \in BOOLEAN /\ cron \in CronSteps
  BY DEF Inv, TypeOK
<1>2. CASE FindActive
  BY <1>1, <1>2 DEF FindActive, CronGoto, Unmoved, Rest, CronSteps
<1>3. CASE ExpireActive
  BY <1>1, <1>3 DEF ExpireActive, CronGoto, Unmoved, Rest, CronSteps, Statuses, Closed
<1>4. CASE FindPending
  BY <1>1, <1>4 DEF FindPending, CronGoto, Unmoved, Rest, CronSteps
<1>5. CASE ExpirePending
  BY <1>1, <1>5 DEF ExpirePending, CronGoto, Unmoved, Rest, CronSteps, Statuses, Closed
<1>6. CASE ExpireRest
  BY <1>1, <1>6 DEF ExpireRest, CronGoto, Unmoved, Rest, CronSteps, Statuses, Closed
<1>7. CASE DayPasses
  BY <1>1, <1>7 DEF DayPasses, Unmoved, Rest
<1> QED
  BY <1>2, <1>3, <1>4, <1>5, <1>6, <1>7 DEF ExpireOverdue

Requested ==
  /\ pc' \in [Requests -> {"idle", "respond", "answer"}]
  /\ req' \in [Requests -> [by : Players, question : 0..Questions, accept : BOOLEAN]]
  /\ Asked'

LEMMA SamePoints ==
  ASSUME Inv, UNCHANGED <<answered, score, winner>>
  PROVE  Points' /\ LastAnswerDecides'
BY DEF Inv, TypeOK, Points, LastAnswerDecides, Counts

\* Every step of a request.
LEMMA RequestStep ==
  ASSUME Inv, NEW r \in Requests, Request(r)
  PROVE  Requested /\ Points' /\ LastAnswerDecides' /\ Rest'
<1>1. status \in Statuses /\ overdue \in BOOLEAN /\ cron \in CronSteps
  BY DEF Inv, TypeOK
<1>2. ASSUME RespondRead(r) PROVE Requested /\ Points' /\ LastAnswerDecides' /\ Rest'
  <2>1. PICK a \in BOOLEAN : Begin(r, "respond", [by |-> "challenged", question |-> 0, accept |-> a])
    BY <1>2 DEF RespondRead
  <2>2. "challenged" \in Players /\ 0 \in 0..Questions
    BY DuelAssumption DEF Players
  <2>3. Requested
    BY <2>1, <2>2, BeginType DEF Requested
  <2>4. UNCHANGED <<status, overdue, answered, score, winner, cron>>
    BY <1>2 DEF RespondRead, duel
  <2> QED
    BY <2>3, <2>4, <1>1, SamePoints DEF Rest
<1>3. ASSUME RespondWrite(r) PROVE Requested /\ Points' /\ LastAnswerDecides' /\ Rest'
  <2>1. Return(r) /\ UNCHANGED <<overdue, answered, score, winner, cron>>
    BY <1>3 DEF RespondWrite
  <2>2. status' \in Statuses
    BY <1>3 DEF RespondWrite, Statuses, Closed
  <2>3. Requested
    BY <2>1, ReturnType DEF Requested
  <2> QED
    BY <2>1, <2>2, <2>3, <1>1, SamePoints DEF Rest
<1>4. ASSUME AnswerRead(r) PROVE Requested /\ Points' /\ LastAnswerDecides' /\ Rest'
  <2>1. PICK p \in Players :
          /\ answered[p] < Questions
          /\ Begin(r, "answer", [by |-> p, question |-> answered[p], accept |-> FALSE])
    BY <1>4 DEF AnswerRead
  <2>2. answered[p] \in 0..Questions
    BY DEF Inv, TypeOK, Counts
  <2>3. Requested
    BY <2>1, <2>2, BeginType DEF Requested
  <2>4. UNCHANGED <<status, overdue, answered, score, winner, cron>>
    BY <1>4 DEF AnswerRead, duel
  <2> QED
    BY <2>3, <2>4, <1>1, SamePoints DEF Rest
<1>5. ASSUME AnswerRollback(r) PROVE Requested /\ Points' /\ LastAnswerDecides' /\ Rest'
  <2>1. Return(r) /\ UNCHANGED <<status, overdue, answered, score, winner, cron>>
    BY <1>5 DEF AnswerRollback, duel
  <2> QED
    BY <2>1, <1>1, ReturnType, SamePoints DEF Requested, Rest
<1>6. ASSUME AnswerCommit(r) PROVE Requested /\ Points' /\ LastAnswerDecides' /\ Rest'
  <2>1. req[r].by \in Players /\ req[r].question \in 0..Questions
    BY DEF Inv, TypeOK
  <2>2. req[r].question < Questions /\ req[r].question >= answered[req[r].by]
    BY <1>6 DEF AnswerCommit, Inv, Asked
  <2>3. answered[req[r].by] < Questions
    BY <2>1, <2>2, DuelAssumption DEF Inv, TypeOK, Counts
  <2>4. Points' /\ LastAnswerDecides' /\ status' \in Statuses
    BY <1>6, <2>1, <2>3, RecordDecides DEF AnswerCommit
  <2>5. UNCHANGED <<overdue, cron>> /\ Return(r)
    BY <1>6 DEF AnswerCommit, Record
  <2> QED
    BY <2>4, <2>5, <1>1, ReturnType DEF Requested, Rest
<1> QED
  BY <1>2, <1>3, <1>4, <1>5, <1>6 DEF Request

LEMMA TrackType ==
  ASSUME overlapped \in BOOLEAN, Track PROVE overlapped' \in BOOLEAN
BY DEF Track

\* The invariant is inductive.
LEMMA InvInductive == Spec => []Inv
<1>1. ASSUME Init PROVE Inv
  <2>1. TypeOK
    <3>1. status \in Statuses /\ cron \in CronSteps
      BY <1>1 DEF Init, Statuses, CronSteps
    <3>2. overdue \in BOOLEAN /\ overlapped \in BOOLEAN
      BY <1>1 DEF Init
    <3>3. answered \in Counts /\ score \in Counts /\ winner \in Players \union {"none"}
      BY <1>1, DuelAssumption DEF Init, Counts
    <3>4. pc \in [Requests -> {"idle", "respond", "answer"}]
      BY <1>1 DEF Init
    <3>5. NoReq \in [by : Players, question : 0..Questions, accept : BOOLEAN]
      BY DuelAssumption DEF NoReq, Players
    <3>6. req \in [Requests -> [by : Players, question : 0..Questions, accept : BOOLEAN]]
      BY <1>1, <3>5 DEF Init
    <3> QED
      BY <3>1, <3>2, <3>3, <3>4, <3>6 DEF TypeOK
  <2>2. Asked
    BY <1>1 DEF Init, Asked
  <2>3. LastAnswerDecides
    BY <1>1, DuelAssumption DEF Init, LastAnswerDecides, Players
  <2> QED
    BY <2>1, <2>2, <2>3 DEF Inv
<1>2. ASSUME Inv, [Next]_vars PROVE Inv'
  <2>1. ASSUME Next PROVE Requested /\ Points' /\ LastAnswerDecides' /\ Rest'
    <3>1. ASSUME ExpireOverdue \/ DayPasses PROVE Requested /\ Points' /\ LastAnswerDecides' /\ Rest'
      BY <1>2, <3>1, JobStep, UnmovedInv DEF Requested
    <3>2. ASSUME \E r \in Requests : Request(r)
          PROVE  Requested /\ Points' /\ LastAnswerDecides' /\ Rest'
      BY <1>2, <3>2, RequestStep
    <3> QED
      BY <2>1, <3>1, <3>2 DEF Next
  <2>2. ASSUME UNCHANGED vars PROVE Requested /\ Points' /\ LastAnswerDecides' /\ Rest'
    <3>1. Unmoved
      BY <2>2 DEF vars, duel, Unmoved
    <3>2. Rest'
      BY <1>2, <2>2 DEF vars, duel, Rest, Inv, TypeOK
    <3> QED
      BY <1>2, <3>1, <3>2, UnmovedInv DEF Requested
  <2>3. overlapped' \in BOOLEAN
    BY <1>2, TrackType DEF Next, vars, Inv, TypeOK
  <2> QED
    BY <1>2, <2>1, <2>2, <2>3 DEF Inv, TypeOK, Requested, Points, Rest
<1> QED
  BY <1>1, <1>2, PTL DEF Spec

\* Every variable of a duel stays in its type.
THEOREM TypeCorrect == Spec => []TypeOK
<1>1. Inv => TypeOK
  BY DEF Inv
<1> QED
  BY <1>1, InvInductive, PTL

\* A winner is named by the last of all answers and by nothing else, whatever
\* the order in which the answers are committed: neither by an earlier answer nor
\* by the end of the day (submitAnswer, expireOverdue).
THEOREM WinnerByLastAnswer == Spec => []LastAnswerDecides
<1>1. Inv => LastAnswerDecides
  BY DEF Inv
<1> QED
  BY <1>1, InvInductive, PTL

\* Points and winner of a duel that is not active are final.
THEOREM ClosedDuelIsFinal == Spec => ClosedTakesNoAnswer
<1>1. ASSUME [Next]_vars, status # "active" PROVE UNCHANGED <<answered, score, winner>>
  <2>1. CASE UNCHANGED vars
    BY <2>1 DEF vars, duel
  <2>2. CASE ExpireOverdue
    BY <2>2 DEF ExpireOverdue, FindActive, ExpireActive, FindPending, ExpirePending, ExpireRest, CronGoto
  <2>3. CASE DayPasses
    BY <2>3 DEF DayPasses
  <2>4. ASSUME NEW r \in Requests, Request(r) PROVE UNCHANGED <<answered, score, winner>>
    BY <1>1, <2>4 DEF Request, RespondRead, RespondWrite, AnswerRead, AnswerRollback, AnswerCommit, duel
  <2> QED
    BY <1>1, <2>1, <2>2, <2>3, <2>4 DEF Next
<1> QED
  BY <1>1, PTL DEF Spec, ClosedTakesNoAnswer

------------------------------------------------------------------------------
(* The status.  As long as nobody wrote over a row that had changed, what a  *)
(* response and the job have read of it still stands; so they close a duel   *)
(* that nobody completed and open one that nobody played.                    *)

Stands ==
  /\ \A r \in Requests : pc[r] = "respond" => status = "pending"
  /\ cron = "expireActive" => status = "active"
  /\ cron = "expirePending" => status = "pending"

Played ==
  /\ status \in {"pending", "rejected"} => \A p \in Players : answered[p] = 0
  /\ status = "completed" <=> winner # "none"

Unseen == ~overlapped => Stands /\ Played

\* Who read the status and goes on finds it as it was.
LEMMA StatusStands ==
  ASSUME Inv, Unseen, Track, ~overlapped',
         \A r \in Requests : pc'[r] = "respond" => pc[r] = "respond" \/ status' = "pending",
         cron' = "expireActive" => cron = "expireActive" \/ status' = "active",
         cron' = "expirePending" => cron = "expirePending" \/ status' = "pending"
  PROVE  Stands'
<1>1. Stands /\ ~ Overlap
  BY DEF Track, Unseen
<1>2. ASSUME NEW r \in Requests, pc'[r] = "respond" PROVE status' = "pending"
  BY <1>1, <1>2 DEF Stands, Overlap
<1>3. ASSUME cron' = "expireActive" PROVE status' = "active"
  BY <1>1, <1>3 DEF Stands, Overlap
<1>4. ASSUME cron' = "expirePending" PROVE status' = "pending"
  BY <1>1, <1>4 DEF Stands, Overlap
<1> QED
  BY <1>2, <1>3, <1>4 DEF Stands

\* What a step does to the status, to who has read it and to the points.
LEMMA KindsOfStep ==
  ASSUME Inv, Unseen, Next, ~overlapped'
  PROVE  /\ Stands'
         /\ \/ status' = status /\ UNCHANGED <<answered, winner>>
            \/ status = "pending" /\ status' \in {"active", "rejected", "expired"} /\ UNCHANGED <<answered, winner>>
            \/ status = "active" /\ status' = "expired" /\ UNCHANGED <<answered, winner>>
            \/ status = "active" /\ status' = "active" /\ winner' = winner
            \/ status = "active" /\ status' = "completed" /\ winner' \in Players
<1> DEFINE Kinds ==
             \/ status' = status /\ UNCHANGED <<answered, winner>>
             \/ status = "pending" /\ status' \in {"active", "rejected", "expired"} /\ UNCHANGED <<answered, winner>>
             \/ status = "active" /\ status' = "expired" /\ UNCHANGED <<answered, winner>>
             \/ status = "active" /\ status' = "active" /\ winner' = winner
             \/ status = "active" /\ status' = "completed" /\ winner' \in Players
<1>1. Stands /\ Track /\ pc \in [Requests -> {"idle", "respond", "answer"}]
  BY DEF Next, Track, Unseen, Inv, TypeOK
<1>2. ASSUME NEW r \in Requests, RespondRead(r) PROVE Kinds /\ Stands'
  <2>1. UNCHANGED <<status, answered, winner, cron>> /\ status = "pending"
    BY <1>2 DEF RespondRead, duel
  <2> QED
    BY <1>1, <2>1, StatusStands
<1>3. ASSUME NEW r \in Requests, RespondWrite(r) PROVE Kinds /\ Stands'
  <2>1. /\ status = "pending" /\ status' \in {"active", "rejected"}
        /\ UNCHANGED <<answered, winner, cron>> /\ pc' = [pc EXCEPT ![r] = "idle"]
    BY <1>1, <1>3 DEF RespondWrite, Return, Stands
  <2>2. \A s \in Requests : pc'[s] = "respond" => pc[s] = "respond"
    BY <1>1, <2>1
  <2> QED
    BY <1>1, <2>1, <2>2, StatusStands
<1>4. ASSUME NEW r \in Requests, AnswerRead(r) PROVE Kinds /\ Stands'
  <2>1. UNCHANGED <<status, answered, winner, cron>> /\ pc' = [pc EXCEPT ![r] = "answer"]
    BY <1>4 DEF AnswerRead, Begin, duel
  <2>2. \A s \in Requests : pc'[s] = "respond" => pc[s] = "respond"
    BY <1>1, <2>1
  <2> QED
    BY <1>1, <2>1, <2>2, StatusStands
<1>5. ASSUME NEW r \in Requests, AnswerRollback(r) PROVE Kinds /\ Stands'
  <2>1. UNCHANGED <<status, answered, winner, cron>> /\ pc' = [pc EXCEPT ![r] = "idle"]
    BY <1>5 DEF AnswerRollback, Return, duel
  <2>2. \A s \in Requests : pc'[s] = "respond" => pc[s] = "respond"
    BY <1>1, <2>1
  <2> QED
    BY <1>1, <2>1, <2>2, StatusStands
<1>6. ASSUME NEW r \in Requests, AnswerCommit(r) PROVE Kinds /\ Stands'
  <2>1. status = "active" /\ Record(req[r].by) /\ pc' = [pc EXCEPT ![r] = "idle"] /\ cron' = cron
    BY <1>6 DEF AnswerCommit, Return, Record
  <2>2. \A s \in Requests : pc'[s] = "respond" => pc[s] = "respond"
    BY <1>1, <2>1
  <2>3. Stands'
    BY <1>1, <2>1, <2>2, StatusStands
  <2>4. CASE AllAnswered(answered')
    BY <2>1, <2>3, <2>4, WinnerIsPlayer DEF Record
  <2>5. CASE ~ AllAnswered(answered')
    BY <2>1, <2>3, <2>5 DEF Record
  <2> QED
    BY <2>4, <2>5
<1>7. ASSUME ExpireOverdue PROVE Kinds /\ Stands'
  <2>1. UNCHANGED <<answered, winner, pc>>
    BY <1>7 DEF ExpireOverdue, FindActive, ExpireActive, FindPending, ExpirePending, ExpireRest, CronGoto
  <2>2. CASE FindActive
    BY <1>1, <2>1, <2>2, StatusStands DEF FindActive, CronGoto
  <2>3. CASE ExpireActive
    BY <1>1, <2>1, <2>3, StatusStands DEF ExpireActive, CronGoto, Stands
  <2>4. CASE FindPending
    BY <1>1, <2>1, <2>4, StatusStands DEF FindPending, CronGoto
  <2>5. CASE ExpirePending
    BY <1>1, <2>1, <2>5, StatusStands DEF ExpirePending, CronGoto, Stands
  <2>6. CASE ExpireRest
    BY <1>1, <2>1, <2>6, StatusStands DEF ExpireRest, CronGoto
  <2> QED
    BY <1>7, <2>2, <2>3, <2>4, <2>5, <2>6 DEF ExpireOverdue
<1>8. ASSUME DayPasses PROVE Kinds /\ Stands'
  BY <1>1, <1>8, StatusStands DEF DayPasses
<1> HIDE DEF Kinds
<1>9. Kinds /\ Stands'
  BY <1>2, <1>3, <1>4, <1>5, <1>6, <1>7, <1>8 DEF Next, Request
<1> QED
  BY <1>9 DEF Kinds

\* The invariant is inductive.
LEMMA UnseenInductive == Spec => [](Inv /\ Unseen)
<1>1. ASSUME Init PROVE Unseen
  BY <1>1 DEF Init, Unseen, Stands, Played
<1>2. ASSUME Inv, Unseen, [Next]_vars PROVE Unseen'
  <2>1. CASE UNCHANGED vars
    BY <1>2, <2>1 DEF vars, duel, Unseen, Stands, Played
  <2>2. ASSUME Next, ~overlapped' PROVE Stands' /\ Played'
    <3>1. Played
      BY <2>2, <1>2 DEF Next, Track, Unseen
    <3>2. "none" \notin Players
      BY DEF Players
    <3> QED
      BY <1>2, <2>2, <3>1, <3>2, KindsOfStep DEF Played
  <2> QED
    BY <1>2, <2>1, <2>2 DEF Unseen
<1> QED
  BY <1>1, <1>2, InvInductive, PTL DEF Spec

\* The status of a duel tells what was played, for any number of requests and
\* questions, as long as nobody wrote over a row that had changed (respond,
\* submitAnswer, expireOverdue).
THEOREM StatusIsTrue == Spec => []StatusTellsPlay
<1>1. Unseen => StatusTellsPlay
  BY DEF Unseen, Played, StatusTellsPlay
<1> QED
  BY <1>1, UnseenInductive, PTL

\* A closed duel stays closed, with the same exception.
THEOREM ClosedIsFinal == Spec => ClosedStaysClosed
<1>1. ASSUME Inv, Unseen, [Next]_vars, ~overlapped', status \in Closed PROVE status' = status
  <2>1. CASE UNCHANGED vars
    BY <2>1 DEF vars, duel
  <2>2. CASE Next
    BY <1>1, <2>2, KindsOfStep DEF Closed
  <2> QED
    BY <1>1, <2>1, <2>2
<1>2. Inv /\ Unseen /\ [Next]_vars => [~overlapped' /\ status \in Closed => status' = status]_vars
  BY <1>1
<1> QED
  BY <1>2, UnseenInductive, PTL DEF Spec, ClosedStaysClosed
------------------------------------------------------------------------------
(* The duel keeps the promise of DuelPromise.  The commit of an answer is an *)
(* answer of the promise; everything else at most opens or closes the duel.  *)

\* Whom the comparison of the points names is ahead with those bonuses.
LEMMA WinnerIsAhead ==
  ASSUME NEW final \in Counts, NEW bonus \in [Players -> Bonuses], NEW q \in Players
  PROVE  10 * final[Winner(final, bonus)] + bonus[Winner(final, bonus)]
           >= 10 * final[q] + bonus[q]
<1>1. /\ "challenger" \in Players /\ "challenged" \in Players
      /\ q = "challenger" \/ q = "challenged"
  BY DEF Players
<1>2. /\ final["challenger"] \in Int /\ final["challenged"] \in Int
      /\ bonus["challenger"] \in Int /\ bonus["challenged"] \in Int
  <2>1. \A p \in Players : final[p] \in 0..Questions
    BY DEF Counts
  <2>2. \A p \in Players : bonus[p] \in Nat
    BY DuelAssumption
  <2> QED
    BY <2>1, <2>2, <1>1, DuelAssumption
<1>3. CASE final["challenger"] * 10 + bonus["challenger"] >= final["challenged"] * 10 + bonus["challenged"]
  <2>1. Winner(final, bonus) = "challenger"
    BY <1>3 DEF Winner
  <2> QED
    BY <2>1, <1>1, <1>2, <1>3
<1>4. CASE ~(final["challenger"] * 10 + bonus["challenger"] >= final["challenged"] * 10 + bonus["challenged"])
  <2>1. Winner(final, bonus) = "challenged"
    BY <1>4 DEF Winner
  <2> QED
    BY <2>1, <1>1, <1>2, <1>4
<1> QED
  BY <1>3, <1>4

\* An answer that is stored under the lock is an answer of the promise.
LEMMA RecordIsAnswer ==
  ASSUME Inv, NEW p \in Players, answered[p] < Questions, Record(p), status = "active"
  PROVE  Promises!Answer(p)
<1>1. /\ answered \in Counts /\ score \in Counts
      /\ winner # "none" <=> \A q \in Players : answered[q] = Questions
  BY DEF Inv, TypeOK, LastAnswerDecides
<1>2. winner = "none"
  BY <1>1, DuelAssumption DEF Counts
<1>3. answered' \in Counts /\ score' \in Counts
  BY RecordDecides DEF Points
<1>4. AllAnswered(answered') <=> (Promises!Over)'
  BY <1>3, DuelAssumption DEF AllAnswered, Counts, Promises!Over
<1>5. /\ answered' = [answered EXCEPT ![p] = @ + 1]
      /\ \E point \in 0..1 : score' = [score EXCEPT ![p] = @ + point]
  BY DEF Record
<1>6. ASSUME AllAnswered(answered')
      PROVE  status' # "active" /\ winner' \in {q \in Players : (Promises!MayWin(q))'}
  <2>1. PICK bonus \in [Players -> Bonuses] : winner' = Winner(score', bonus)
    BY <1>6 DEF Record
  <2>2. winner' \in Players
    BY <2>1, WinnerIsPlayer
  <2>3. \A q \in Players : 10 * score'[winner'] + bonus[winner'] >= 10 * score'[q] + bonus[q]
    BY <2>1, <1>3, WinnerIsAhead
  <2>4. (Promises!MayWin(winner))'
    BY <2>3 DEF Promises!MayWin
  <2> QED
    BY <2>2, <2>4, <1>6 DEF Record
<1>7. ASSUME ~AllAnswered(answered') PROVE status' = "active" /\ winner' = "none"
  BY <1>2, <1>7 DEF Record
<1> QED
  BY <1>2, <1>4, <1>5, <1>6, <1>7 DEF Promises!Answer

\* Every other step leaves the points alone.
LEMMA OthersOpenOrClose ==
  ASSUME [Next]_vars, \A r \in Requests : ~AnswerCommit(r)
  PROVE  Promises!OpenOrClose
<1>1. UNCHANGED <<answered, score, winner>>
  <2>1. CASE UNCHANGED vars
    BY <2>1 DEF vars, duel
  <2>2. CASE ExpireOverdue
    BY <2>2 DEF ExpireOverdue, FindActive, ExpireActive, FindPending, ExpirePending, ExpireRest, CronGoto
  <2>3. CASE DayPasses
    BY <2>3 DEF DayPasses
  <2>4. ASSUME NEW r \in Requests, Request(r) PROVE UNCHANGED <<answered, score, winner>>
    BY <2>4 DEF Request, RespondRead, RespondWrite, AnswerRead, AnswerRollback, duel
  <2> QED
    BY <2>1, <2>2, <2>3, <2>4 DEF Next
<1> QED
  BY <1>1 DEF Promises!OpenOrClose

\* Whatever overlaps, every answer of a duel counts once, while it is active,
\* and the last of all names a winner who may have won and closes the duel
\* (submitAnswer's transaction).
THEOREM DuelKeepsPromise == Spec => AnswersCount
<1>1. Init => Promises!Init
  BY DEF Init, Promises!Init
<1>2. ASSUME Inv, [Next]_vars PROVE [Promises!Next]_(Promises!vars)
  <2>1. ASSUME NEW r \in Requests, AnswerCommit(r) PROVE Promises!Next
    <3>1. req[r].by \in Players /\ req[r].question \in 0..Questions
      BY <1>2 DEF Inv, TypeOK
    <3>2. req[r].question < Questions /\ req[r].question >= answered[req[r].by]
      BY <1>2, <2>1 DEF AnswerCommit, Inv, Asked
    <3>3. answered[req[r].by] < Questions
      BY <1>2, <3>1, <3>2, DuelAssumption DEF Inv, TypeOK, Counts
    <3>4. Promises!Answer(req[r].by)
      BY <1>2, <2>1, <3>1, <3>3, RecordIsAnswer DEF AnswerCommit
    <3> QED
      BY <3>1, <3>4 DEF Promises!Next
  <2>2. CASE \A r \in Requests : ~AnswerCommit(r)
    BY <1>2, <2>2, OthersOpenOrClose DEF Promises!Next
  <2> QED
    BY <2>1, <2>2
<1> QED
  BY <1>1, <1>2, InvInductive, PTL DEF Spec, AnswersCount, Promises!Spec
=============================================================================
