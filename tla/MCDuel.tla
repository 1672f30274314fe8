------------------------------- MODULE MCDuel -------------------------------
(* Bounds for Duel: three overlapping requests and three questions in the    *)
(* place of ten, with a bonus that outweighs one correct answer.             *)
EXTENDS Duel, TLC
==============================================================================
