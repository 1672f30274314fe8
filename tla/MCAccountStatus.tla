--------------------------- MODULE MCAccountStatus ---------------------------
(* Bounds for AccountStatus: two requests beside the two jobs, and as many   *)
(* warnings as the limit.                                                    *)
EXTENDS AccountStatus, TLC
==============================================================================
