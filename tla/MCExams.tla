------------------------------- MODULE MCExams -------------------------------
(* Bounds for Exams: written exams of no, two or three questions with every *)
(* number of right answers; oral exams with a failing score and the         *)
(* threshold itself.                                                        *)
EXTENDS Exams, TLC

\* Requests are model values that only index functions.
Symmetry == Permutations(Requests)
==============================================================================
