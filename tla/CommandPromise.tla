---------------------------- MODULE CommandPromise ----------------------------
(***************************************************************************)
(* What the commands of a tablet are promised.  Each is issued once, in    *)
(* the order of their numbers.  A hand of the tablet that is empty is      *)
(* given some of those issued, none that any hand has acknowledged and     *)
(* none that was revoked; it takes them up in their order and acknowledges *)
(* them one by one, or goes on without an acknowledgement.  What it holds  *)
(* may be forgotten; then the same commands may be given again.  A command *)
(* is revoked for good while no hand holds it.                             *)
(***************************************************************************)
EXTENDS Integers

CONSTANTS
  Commands,  \* numbers, in the order of issue
  Threads    \* the hands of the tablet

VARIABLES
  issued,    \* the commands issued so far
  held,      \* what each hand holds
  acked,     \* what each hand acknowledged
  revoked    \* the commands revoked while no hand held them

vars == <<issued, held, acked, revoked>>

Init ==
  /\ issued = {} /\ revoked = {}
  /\ held = [t \in Threads |-> {}]
  /\ acked = [t \in Threads |-> {}]

Issue == \E c \in Commands \ issued :
  /\ \A d \in Commands : d < c => d \in issued
  /\ issued' = issued \union {c}
  /\ UNCHANGED <<held, acked, revoked>>

Settled == UNION {acked[t] : t \in Threads}

Give(t) == \E batch \in SUBSET (issued \ (Settled \union revoked)) :
  /\ held[t] = {}
  /\ held' = [held EXCEPT ![t] = batch]
  /\ UNCHANGED <<issued, acked, revoked>>

\* The hand is through with the first command it holds.
Finish(t, c) ==
  /\ c \in held[t] /\ \A d \in held[t] : c <= d
  /\ held' = [held EXCEPT ![t] = @ \ {c}]
  /\ UNCHANGED <<issued, revoked>>

Acknowledge(t) == \E c \in held[t] :
  Finish(t, c) /\ acked' = [acked EXCEPT ![t] = @ \union {c}]

GoOn(t) == \E c \in held[t] : Finish(t, c) /\ UNCHANGED acked

Forget == \E lost \in SUBSET Threads :
  /\ held' = [t \in Threads |-> IF t \in lost THEN {} ELSE held[t]]
  /\ UNCHANGED <<issued, acked, revoked>>

Revoke == \E c \in issued :
  /\ \A t \in Threads : c \notin held[t]
  /\ revoked' = revoked \union {c}
  /\ UNCHANGED <<issued, held, acked>>

Next ==
  \/ Issue \/ Forget \/ Revoke
  \/ \E t \in Threads : Give(t) \/ Acknowledge(t) \/ GoOn(t)

Spec == Init /\ [][Next]_vars
=============================================================================
