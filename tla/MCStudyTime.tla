----------------------------- MODULE MCStudyTime -----------------------------
(* Bounds for StudyTime: a policy with cap, work block and break, one with a *)
(* lower cap and no break, and one without a cap.                            *)
EXTENDS StudyTime

Strict  == [cap |-> 5, block |-> 3, brk |-> 2]
Lowered == [cap |-> 3, block |-> 2, brk |-> 0]
NoCap   == [cap |-> 0, block |-> 0, brk |-> 0]

CapAndBreaks == {Strict, Lowered}
NoCapOnly    == {NoCap}

\* A second tab joins while a ping of the first is under way, early in the day.
\* Pings are alike, so it is always the same one that joins.
First == CHOOSE p \in Pings : TRUE
TabsMeetEarly ==
  IF overlap = "pings" THEN now <= 2 /\ losses = 0 /\ policy = Strict
  ELSE \A p \in Pings \ {First} : At(p, "idle")
=============================================================================
