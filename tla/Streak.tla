-------------------------------- MODULE Streak --------------------------------
(***************************************************************************)
(* The streak of one student (gamification/streak.service.ts).  A day is   *)
(* counted when a session is completed and the daily minimum is met.  Two  *)
(* calendars are in use: the minimum is looked up by the day in Tashkent,  *)
(* the gap between two activities is counted in days of UTC, which begin   *)
(* five hours later.                                                       *)
(***************************************************************************)
EXTENDS Integers, FiniteSets

CONSTANTS
  Requests,    \* recordActivity calls that can be in flight at the same time
  ShieldEvery, \* days of a streak that earn a shield (7)
  MaxDays      \* bound: days in Tashkent

VARIABLES
  now,        \* the time, in half days: night (00-05) and the rest, alternating
  studied,    \* days in Tashkent on which the daily minimum was met
  streak,     \* the row
  active,     \* history: the days of UTC that were recorded
  spent,      \* history: shields used up
  pc, req,    \* where each request is, and what it carries
  overlapped  \* history: a read row had changed by the write, or a later
              \* day was recorded first (the distance of days has no sign)

state == <<now, studied, streak, active, spent>>
vars == <<state, pc, req, overlapped>>

\* No activity yet: the last one counts as too long ago for any shield.
NoRow == [current |-> 0, longest |-> 0, shields |-> 0, last |-> -3]
NoReq == [today |-> 0]

NewStudent ==
  /\ now = 0 /\ studied = {} /\ streak = NoRow /\ active = {} /\ spent = 0

TashkentDay(t) == t \div 2
UtcDay(t) == (t + 1) \div 2   \* the night still belongs to the day before

TimePasses ==
  /\ now < 2 * MaxDays - 1
  /\ now' = now + 1
  /\ UNCHANGED <<studied, streak, active, spent, pc, req, overlapped>>

\* The study time of the day reaches the minimum of the branch.
Study ==
  /\ studied' = studied \union {TashkentDay(now)}
  /\ UNCHANGED <<now, streak, active, spent, pc, req, overlapped>>

\* `today` is taken first; the minimum is looked up after.
Record(r) ==
  /\ pc[r] = "idle"
  /\ req' = [req EXCEPT ![r] = [today |-> UtcDay(now), was |-> streak]]
  /\ pc' = [pc EXCEPT ![r] = "minimum"]
  /\ UNCHANGED <<state, overlapped>>

HasMetDailyMinimum(r) ==
  /\ pc[r] = "minimum"
  /\ pc' = [pc EXCEPT ![r] = IF TashkentDay(now) \in studied THEN "look" ELSE "idle"]
  /\ UNCHANGED <<state, req, overlapped>>

LookUp(r) ==
  /\ pc[r] = "look"
  /\ req' = [req EXCEPT ![r].was = streak]
  /\ pc' = [pc EXCEPT ![r] = "save"]
  /\ UNCHANGED <<state, overlapped>>

Larger(a, b) == IF a > b THEN a ELSE b
Distance(a, b) == Larger(a - b, b - a)

Started(row, day) == [row EXCEPT !.current = 1, !.last = day]

Continued(row, day, shields) ==
  [current |-> row.current + 1, longest |-> Larger(row.longest, row.current + 1),
   shields |-> shields, last |-> day]

Earned(row) ==
  IF (row.current + 1) % ShieldEvery = 0 THEN row.shields + 1 ELSE row.shields

\* Faulty variant: a second activity of a day continues the streak again.
AfterSameDay(row, day) ==
  LET gap == Distance(day, row.last)
  IN CASE gap \in {0, 1} -> Continued(row, day, Earned(row))
       [] gap = 2 /\ row.shields > 0 -> Continued(row, day, row.shields - 1)
       [] OTHER -> Started(row, day)

\* Faulty variant: a gap of one day costs no shield.
AfterFree(row, day) ==
  LET gap == Distance(day, row.last)
  IN CASE gap = 0 -> row
       [] gap = 1 -> Continued(row, day, Earned(row))
       [] gap = 2 /\ row.shields > 0 -> Continued(row, day, row.shields)
       [] OTHER -> Started(row, day)

\* The row after an activity on a day of UTC.
After(row, day) ==
  LET gap == Distance(day, row.last)
  IN CASE gap = 0 -> row
       [] gap = 1 -> Continued(row, day, Earned(row))
       [] gap = 2 /\ row.shields > 0 -> Continued(row, day, row.shields - 1)
       [] OTHER -> Started(row, day)

Save(r) ==
  LET was == req[r].was
      row == After(was, req[r].today)
  IN /\ pc[r] = "save"
     /\ streak' = IF row = was THEN streak ELSE row
     /\ active' = active \union {req[r].today}
     /\ spent' = IF row.shields < was.shields THEN spent + 1 ELSE spent
     /\ overlapped' = (overlapped \/ streak # was \/ req[r].today < streak.last)
     /\ pc' = [pc EXCEPT ![r] = "idle"] /\ req' = [req EXCEPT ![r] = NoReq]
     /\ UNCHANGED <<now, studied>>

Step(r) == Record(r) \/ HasMetDailyMinimum(r) \/ LookUp(r) \/ Save(r)
Other == TimePasses \/ Study

------------------------------------------------------------------------------
Counted == {day \in active : streak.last - streak.current - spent < day /\ day <= streak.last}

\* A streak of k days stands for k different days with activity, the last of
\* them the last one recorded, and it has gaps only for shields given up
\* (streak.service.ts:111-178), however many sessions complete on a day.
StreakIsEarned ==
  ~overlapped => streak.current <= Cardinality(Counted)

\* Shields come from whole weeks of a streak: there are never more of them,
\* kept or given up, than weeks of activity (streak.service.ts:130-131, 155).
ShieldsAreEarned ==
  ~overlapped => ShieldEvery * (streak.shields + spent) <= Cardinality(active)
==============================================================================
