---------------------------- MODULE StatusColours ----------------------------
(***************************************************************************)
(* The three colours of one student on one day (student-status/            *)
(* status.service.ts): mentors set personal, managers critical, and the    *)
(* evaluation of a lesson english.  The first and the last can turn        *)
(* critical green; a manager who improves critical earns KPI points.  Each *)
(* setter reads the row of the day and upserts it in a later await.        *)
(***************************************************************************)
EXTENDS Integers

CONSTANT Requests   \* HTTP requests that can be in flight at the same time

Colours == {"yashil", "sariq", "qizil"}   \* green, yellow, red
Better  == {<<"qizil", "sariq">>, <<"sariq", "yashil">>}

VARIABLES
  row,        \* the colours of the day: english and personal as "is green",
              \* which is all the rules ask, critical as a colour or "none"
  awards,     \* kpi_scores rows, per improvement that earns points
  pc, req,    \* where each request is, and what it carries
  overlapped, \* history: the row changed between a read and the upsert
  improved,   \* history: how often a manager's upsert made each improvement
  managed     \* history: a manager wrote critical since the last automatic rule

state == <<row, awards, improved, managed>>
vars == <<state, pc, req, overlapped>>

MaxImproved == 1   \* bound: improvements of one kind after which no manager writes
NoReq == [was |-> "none"]

NewDay ==
  /\ row = [english |-> FALSE, personal |-> FALSE, critical |-> "none"]
  /\ awards = [b \in Better |-> 0] /\ improved = [b \in Better |-> 0]
  /\ managed = FALSE

Read(r, step, colour) ==
  /\ pc[r] = "idle"
  /\ pc' = [pc EXCEPT ![r] = step]
  /\ req' = [req EXCEPT ![r] = [was |-> row, colour |-> colour]]
  /\ UNCHANGED <<state, overlapped>>

Return(r) ==
  /\ pc' = [pc EXCEPT ![r] = "idle"]
  /\ req' = [req EXCEPT ![r] = NoReq]

Upsert(r, step, new) ==
  /\ pc[r] = step
  /\ row' = new
  /\ overlapped' = (overlapped \/ row # req[r].was)

\* What the automatic rule leaves of critical, from the row as it was read.
AutoGreen(r, rule) ==
  IF rule /\ req[r].was.critical # "yashil" THEN "yashil" ELSE row.critical

PersonalReads(r) == \E green \in BOOLEAN : Read(r, "personal", green)

\* Faulty variant: the earlier rule, which also asked for a green english.
PersonalNeedsEnglish(r) ==
  LET rule == req[r].colour /\ req[r].was.english IN
  /\ Upsert(r, "personal", [row EXCEPT !.personal = req[r].colour,
                                       !.critical = AutoGreen(r, rule)])
  /\ managed' = (managed /\ ~req[r].colour)
  /\ Return(r)
  /\ UNCHANGED <<awards, improved>>

PersonalWrites(r) ==
  LET rule == req[r].colour IN
  /\ Upsert(r, "personal", [row EXCEPT !.personal = req[r].colour,
                                       !.critical = AutoGreen(r, rule)])
  /\ managed' = (managed /\ ~rule)
  /\ Return(r)
  /\ UNCHANGED <<awards, improved>>

EnglishReads(r) == \E green \in BOOLEAN : Read(r, "english", green)

EnglishWrites(r) ==
  LET rule == req[r].colour /\ req[r].was.personal IN
  /\ Upsert(r, "english", [row EXCEPT !.english = req[r].colour,
                                      !.critical = AutoGreen(r, rule)])
  /\ managed' = (managed /\ ~rule)
  /\ Return(r)
  /\ UNCHANGED <<awards, improved>>

\* Faulty variant: a colour not set yet counts as red.
BeforeOrRed(r) ==
  IF req[r].was.critical = "none" THEN "qizil" ELSE req[r].was.critical

Before(r) == req[r].was.critical

CriticalReads(r) ==
  /\ \A b \in Better : improved[b] < MaxImproved
  /\ \E c \in Colours : Read(r, "critical", c)

CriticalWrites(r) ==
  LET c == req[r].colour
      made == <<row.critical, c>>
      seen == <<Before(r), c>> IN
  /\ Upsert(r, "critical", [row EXCEPT !.critical = c])
  /\ improved' = IF made \in Better THEN [improved EXCEPT ![made] = @ + 1] ELSE improved
  /\ managed' = TRUE
  /\ IF seen \in Better THEN pc' = [pc EXCEPT ![r] = "award"] /\ UNCHANGED req
                        ELSE Return(r)
  /\ UNCHANGED awards

\* awardManagerOnImprovement; without a manager, or when the insert fails,
\* nothing is awarded and nothing is reported.
Award(r) ==
  LET seen == <<Before(r), req[r].colour>> IN
  /\ pc[r] = "award"
  /\ awards' \in {awards, [awards EXCEPT ![seen] = @ + 1]}
  /\ Return(r)
  /\ UNCHANGED <<row, improved, managed, overlapped>>

Step(r) ==
  \/ PersonalReads(r) \/ PersonalWrites(r) \/ EnglishReads(r) \/ EnglishWrites(r)
  \/ CriticalReads(r) \/ CriticalWrites(r) \/ Award(r)

------------------------------------------------------------------------------
\* Points are earned by improvements that the row really made, one award each
\* (status.service.ts:208-216, 226-259).
AwardsAreEarned == ~overlapped => \A b \in Better : awards[b] <= improved[b]

\* A green personal colour clears critical (status.service.ts:40-51), until a
\* manager sets it otherwise.
PersonalGreenClears ==
  ~overlapped /\ row.personal /\ ~managed => row.critical = "yashil"
==============================================================================
