----------------------------- MODULE DuelPromise -----------------------------
(***************************************************************************)
(* What a duel promises its players.  It takes answers, one at a time, and *)
(* while it is open only; each counts once and gives a point or none.  The *)
(* last of all answers names the winner and closes the duel.  The winner   *)
(* is a player that nobody is ahead of by more than the speed bonuses can  *)
(* make up.                                                                *)
(***************************************************************************)
EXTENDS Integers

CONSTANTS
  Players,
  Questions,  \* how many answers each player may give
  Bonuses     \* the speed bonuses

VARIABLES
  open,       \* the duel takes answers
  answered,   \* the answers of each player
  score,      \* the right ones of them
  winner      \* or "none"

vars == <<open, answered, score, winner>>

Init ==
  /\ open = FALSE /\ winner = "none"
  /\ answered = [p \in Players |-> 0]
  /\ score = [p \in Players |-> 0]

OpenOrClose == open' \in BOOLEAN /\ UNCHANGED <<answered, score, winner>>

Over == \A p \in Players : answered[p] = Questions

MayWin(p) == \E bonus \in [Players -> Bonuses] :
  \A q \in Players : 10 * score[p] + bonus[p] >= 10 * score[q] + bonus[q]

Answer(p) ==
  /\ open /\ winner = "none" /\ answered[p] < Questions
  /\ answered' = [answered EXCEPT ![p] = @ + 1]
  /\ \E point \in 0..1 : score' = [score EXCEPT ![p] = @ + point]
  /\ IF Over' THEN ~open' /\ winner' \in {q \in Players : MayWin(q)'}
              ELSE open' /\ winner' = "none"

Next == OpenOrClose \/ \E p \in Players : Answer(p)

Spec == Init /\ [][Next]_vars
=============================================================================
