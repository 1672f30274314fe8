------------------------------ MODULE Challenges ------------------------------
(***************************************************************************)
(* Contests of two groups (social/challenge.service.ts) and the nightly    *)
(* job that closes them (cron.service.ts).  A contest is created after two *)
(* counts over the table; points are never added by any caller, so each    *)
(* contest ends as it began and the job finds a tie.                       *)
(***************************************************************************)
EXTENDS Integers, FiniteSets, Sequences

CONSTANTS
  Requests,      \* HTTP requests that can be in flight at the same time
  Teams,         \* groups of one branch that have students
  MaxChallenges  \* bound: contests ever created

NoTeam == "none"
Months == 1..2    \* bound
MonthlyLimit == 2

VARIABLES
  month,      \* the calendar month
  contests,   \* the table, by number: a, b, month, ended, status, winner
  closing,    \* contests the running job has read and not yet closed
  announced,  \* history: how often a winner was announced, by contest
  pc, req,    \* where each request is, and what it carries
  overlapped  \* history: a contest was created between the counts and the insert

state == <<month, contests, closing, announced>>
vars == <<state, pc, req, overlapped>>

Numbers == 1..MaxChallenges
NoReq == [a |-> NoTeam]

Season ==
  /\ month = 1 /\ contests = <<>> /\ closing = {}
  /\ announced = [i \in Numbers |-> 0]

Between(i, teams) == {contests[i].a, contests[i].b} \intersect teams # {}
Those(Test(_)) == {i \in DOMAIN contests : Test(i)}

NextMonth ==
  /\ month + 1 \in Months
  /\ month' = month + 1
  /\ UNCHANGED <<contests, closing, announced, pc, req, overlapped>>

\* The end date of a contest passes.
Ends(i) ==
  /\ ~contests[i].ended
  /\ contests' = [contests EXCEPT ![i].ended = TRUE]
  /\ UNCHANGED <<month, closing, announced, pc, req, overlapped>>

------------------------------------------------------------------------------
\* Faulty variant: only the contests the two had as the first team.
OfMonthAsFirst(teams) ==
  Those(LAMBDA i : contests[i].month = month /\ contests[i].a \in teams)

\* Contests of either team since the month began.
OfMonth(teams) == Those(LAMBDA i : contests[i].month = month /\ Between(i, teams))

CreateCountsMonth(r) ==
  /\ pc[r] = "idle" /\ Len(contests) < MaxChallenges
  /\ \E a, b \in Teams :
       /\ a # b /\ Cardinality(OfMonth({a, b})) < MonthlyLimit
       /\ req' = [req EXCEPT ![r] = [a |-> a, b |-> b, known |-> Len(contests)]]
  /\ pc' = [pc EXCEPT ![r] = "active"]
  /\ UNCHANGED <<state, overlapped>>

Refuse(r) ==
  /\ pc' = [pc EXCEPT ![r] = "idle"] /\ req' = [req EXCEPT ![r] = NoReq]

\* Faulty variant: the contest the first team is in is counted, the second not.
ActiveOfFirst(teams) ==
  Those(LAMBDA i : contests[i].status = "active" /\ contests[i].a \in teams)

Active(teams) == Those(LAMBDA i : contests[i].status = "active" /\ Between(i, teams))

CreateCountsActive(r) ==
  /\ pc[r] = "active"
  /\ IF Active({req[r].a, req[r].b}) # {} THEN Refuse(r)
     ELSE pc' = [pc EXCEPT ![r] = "insert"] /\ UNCHANGED req
  /\ UNCHANGED <<state, overlapped>>

\* startDate is the time of the insert.
CreateInserts(r) ==
  /\ pc[r] = "insert" /\ Len(contests) < MaxChallenges
  /\ contests' = Append(contests, [a |-> req[r].a, b |-> req[r].b, month |-> month,
                                   ended |-> FALSE, status |-> "active", winner |-> NoTeam])
  /\ overlapped' = (overlapped \/ Len(contests) # req[r].known)
  /\ Refuse(r)
  /\ UNCHANGED <<month, closing, announced>>

Step(r) == CreateCountsMonth(r) \/ CreateCountsActive(r) \/ CreateInserts(r)

------------------------------------------------------------------------------
\* Faulty variant: contests with a winner are closed again.
ExpiredEver == Those(LAMBDA i : contests[i].ended)

Expired ==
  Those(LAMBDA i : contests[i].status = "active" /\ contests[i].ended
                   /\ contests[i].winner = NoTeam)

JobReads ==
  /\ closing = {} /\ Expired # {}
  /\ closing' = Expired
  /\ UNCHANGED <<month, contests, announced, pc, req, overlapped>>

\* Without points there is a tie, which the first team wins.  The winner is
\* announced after the update, unless the server stops in between.
JobCloses ==
  /\ \E i \in closing :
       /\ contests' = [contests EXCEPT ![i].status = "completed", ![i].winner = contests[i].a]
       /\ \/ announced' = [announced EXCEPT ![i] = announced[i] + 1] /\ closing' = closing \ {i}
          \/ closing' = {} /\ UNCHANGED announced
  /\ UNCHANGED <<month, pc, req, overlapped>>

\* An update fails and the job ends early, or the server restarts.
JobStops ==
  /\ closing # {} /\ closing' = {}
  /\ UNCHANGED <<month, contests, announced, pc, req, overlapped>>

Other ==
  NextMonth \/ JobReads \/ JobCloses \/ JobStops \/ \E i \in DOMAIN contests : Ends(i)

------------------------------------------------------------------------------
\* A group is in one contest at a time (challenge.service.ts:58-73), whichever
\* side it is on and also while the job is closing others, unless two
\* creations overlapped.
OneActivePerTeam ==
  ~overlapped => \A i, j \in DOMAIN contests :
    contests[i].status = "active" /\ contests[j].status = "active" /\ i # j =>
      ~Between(i, {contests[j].a, contests[j].b})

\* A group starts at most two contests in a month (challenge.service.ts:36-57).
TwoPerMonth ==
  ~overlapped => \A team \in Teams, m \in Months :
    Cardinality(Those(LAMBDA i : contests[i].month = m /\ Between(i, {team}))) <= MonthlyLimit

\* A contest is won once, after its end, however often the job is stopped and
\* started again (cron.service.ts:1428-1447).
WonOnce ==
  \A i \in Numbers :
    announced[i] <= 1 /\ (announced[i] = 1 =>
      contests[i].ended /\ contests[i].status = "completed" /\ contests[i].winner # NoTeam)
==============================================================================
