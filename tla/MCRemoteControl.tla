--------------------------- MODULE MCRemoteControl ---------------------------
(* Bounds for RemoteControl: two commands, the block set twice, and one of   *)
(* each fault.                                                               *)
EXTENDS RemoteControl, TLC
==============================================================================
