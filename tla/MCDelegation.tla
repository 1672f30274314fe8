---------------------------- MODULE MCDelegation ----------------------------
(* Bounds for Delegation: two delegations, and two overlapping requests      *)
(* beside the job.                                                           *)
EXTENDS Delegation, TLC
==============================================================================
