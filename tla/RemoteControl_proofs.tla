------------------------- MODULE RemoteControl_proofs -------------------------
(* What holds of the remote control of a tablet for any number of commands   *)
(* and faults: the types, that a thread never takes up again a command it    *)
(* acknowledged, that a command cancelled in time is never run, and that     *)
(* server and tablet implement CommandPromise.                               *)
EXTENDS RemoteControl, FiniteSetTheorems, WellFoundedInduction, TLAPS

\* TypeOK, in groups of variables that steps change together.
Issued ==
  /\ blocked \in BOOLEAN /\ queueing \subseteq {"BLOCK", "UNBLOCK"}
  /\ type \in [Commands -> Types]
  /\ status \in [Commands -> Statuses]
  /\ cancelling \subseteq Commands

Held ==
  /\ todo \in [Threads -> SUBSET Commands]
  /\ pc \in [Threads -> Steps]
  /\ \A t \in Threads : pc[t] \in {"run", "ack"} => todo[t] # {}

Noted == acked \in [Threads -> SUBSET Commands] /\ clean \subseteq Commands

Shown ==
  /\ answer \in BOOLEAN /\ screen \in Screens
  /\ faults \in 0 .. MaxFaults /\ late \in [Commands -> Nat]

\* What a thread acknowledged was handed out before and is not pending.
Handed ==
  \A t \in Threads : \A c \in acked[t] : status[c] \notin {"none", "pending"}

Core == Issued /\ Held /\ Noted /\ Handed /\ NoRepeat /\ CancelHolds

LEMMA Faults == MaxFaults \in Nat
BY RemoteControlAssumption

\* Acknowledgements that stay under way are counted.
LEMMA LateType ==
  ASSUME Shown, NEW ts \in SUBSET Threads, StayUnderWay(ts)
  PROVE  late' \in [Commands -> Nat]
<1>1. IsFiniteSet(Threads)
  <2>1. IsFiniteSet({"poll"})
    BY FS_Singleton
  <2>2. IsFiniteSet({"poll"} \union {"beat"})
    BY <2>1, FS_AddElement
  <2> QED
    BY <2>2 DEF Threads
<1>2. \A c \in Commands : Cardinality({t \in ts : Current(t) = c}) \in Nat
  <2> TAKE c \in Commands
  <2>1. IsFiniteSet({t \in ts : Current(t) = c})
    BY <1>1, FS_Subset
  <2> QED
    BY <2>1, FS_CardinalityType
<1> QED
  BY <1>2 DEF StayUnderWay, Shown

LEMMA CoreAndShown == TypeOK /\ Handed /\ NoRepeat /\ CancelHolds <=> Core /\ Shown
BY DEF TypeOK, Core, Issued, Held, Noted, Shown

\* A thread with commands in hand takes the oldest of them, which exists.
LEMMA OldestInHand ==
  ASSUME Held, NEW t \in Threads, todo[t] # {}
  PROVE  Current(t) \in todo[t] /\ \A d \in todo[t] : Current(t) <= d
<1>1. todo[t] \subseteq Nat
  BY DEF Held, Commands
<1>2. PICK c \in todo[t] : \A d \in todo[t] : <<d, c>> \notin OpToRel(<, Nat)
  BY <1>1, WFMin, NatLessThanWellFounded, Zenon
<1>3. \A d \in todo[t] : ~(d < c)
  BY <1>1, <1>2, Zenon DEF OpToRel
<1>4. c \in todo[t] /\ \A d \in todo[t] : c <= d
  BY <1>1, <1>3
<1> QED
  BY <1>4, Zenon DEF Current

LEMMA CurrentInHand ==
  ASSUME Held, NEW t \in Threads, todo[t] # {}
  PROVE  Current(t) \in todo[t]
BY OldestInHand

------------------------------------------------------------------------------
(* The steps, each for the groups of variables it changes *)

\* A command that is queued was not handed out, acknowledged or cancelled.
LEMMA QueueKeeps ==
  ASSUME Core, NEW c \in Commands, NEW what \in Types, Queue(c, what),
         blocked' \in BOOLEAN, queueing' \subseteq queueing,
         UNCHANGED <<cancelling, todo, history>>
  PROVE  Core'
<1>1. /\ status[c] = "none" /\ type' = [type EXCEPT ![c] = what]
      /\ status' = [status EXCEPT ![c] = "pending"]
  BY DEF Queue, Unused
<1>2. pc' = [pc EXCEPT !["poll"] = IF pc["poll"] = "waiting" THEN "refetch" ELSE pc["poll"]]
  BY DEF Queue, Wake
<1>3. Issued'
  BY <1>1 DEF Core, Issued, Statuses
<1>4. Held'
  BY <1>2 DEF Core, Held, Threads, Steps
<1>5. Noted' /\ Handed' /\ NoRepeat' /\ CancelHolds'
  BY <1>1 DEF Core, Issued, Noted, Handed, NoRepeat, CancelHolds, history
<1> QED
  BY <1>3, <1>4, <1>5 DEF Core

LEMMA StaffKeeps ==
  ASSUME Core, Shown, Staff
  PROVE  Core' /\ Shown'
<1>1. ASSUME NEW b \in BOOLEAN, SetBlocked(b) PROVE Core' /\ Shown'
  BY <1>1 DEF SetBlocked, Core, Shown, Issued, Held, Noted, Handed, NoRepeat,
     CancelHolds, tablet, history
<1>2. CASE QueueBlock
  <2>1. PICK what \in queueing, c \in Commands :
          /\ Queue(c, what) /\ queueing' = queueing \ {what}
          /\ UNCHANGED <<blocked, cancelling, todo, answer, screen, faults, late, history>>
    BY <1>2 DEF QueueBlock
  <2>2. what \in Types
    BY DEF Core, Issued, Types
  <2>3. blocked' \in BOOLEAN /\ queueing' \subseteq queueing
    BY <2>1 DEF Core, Issued
  <2>4. Core'
    BY <2>1, <2>2, <2>3, QueueKeeps
  <2> QED
    BY <2>1, <2>4 DEF Shown
<1>3. CASE SetBlockedFails
  BY <1>3, Faults DEF SetBlockedFails, Core, Shown, Issued, Held, Noted,
     Handed, NoRepeat, CancelHolds, tablet, history
<1>4. CASE Issue
  <2>1. PICK c \in Commands :
          /\ Queue(c, "OTHER")
          /\ UNCHANGED <<blocked, queueing, cancelling, todo, answer, screen, faults, late, history>>
    BY <1>4 DEF Issue
  <2>2. "OTHER" \in Types
    BY DEF Types
  <2>3. blocked' \in BOOLEAN /\ queueing' \subseteq queueing
    BY <2>1 DEF Core, Issued
  <2>4. Core'
    BY <2>1, <2>2, <2>3, QueueKeeps
  <2> QED
    BY <2>1, <2>4 DEF Shown
<1>5. ASSUME NEW c \in Commands, CancelReads(c) PROVE Core' /\ Shown'
  BY <1>5 DEF CancelReads, Core, Shown, Issued, Held, Noted, Handed, NoRepeat,
     CancelHolds, tablet, history
<1>6. ASSUME NEW c \in Commands, CancelWrites(c) PROVE Core' /\ Shown'
  <2>1. /\ status' = [status EXCEPT ![c] = "cancelled"] /\ cancelling' = cancelling \ {c}
        /\ clean' = IF \A t \in Threads : c \notin todo[t] THEN clean \union {c} ELSE clean
        /\ UNCHANGED <<blocked, type, queueing, tablet, screen, faults, late, acked>>
    BY <1>6 DEF CancelWrites
  <2>2. Issued' /\ Held' /\ Noted' /\ Shown'
    BY <2>1 DEF Core, Shown, Issued, Held, Noted, tablet, Statuses
  <2>3. Handed' /\ NoRepeat'
    BY <2>1 DEF Core, Issued, Handed, NoRepeat, tablet
  <2>4. CancelHolds'
    BY <2>1 DEF Core, Issued, Noted, CancelHolds, tablet
  <2> QED
    BY <2>2, <2>3, <2>4 DEF Core
<1>7. ASSUME NEW c \in Commands, Expire(c) PROVE Core' /\ Shown'
  <2>1. /\ status[c] = "pending" /\ status' = [status EXCEPT ![c] = "expired"]
        /\ UNCHANGED <<blocked, type, queueing, cancelling, tablet, screen, faults, late, history>>
    BY <1>7 DEF Expire
  <2>2. Issued' /\ Held' /\ Noted' /\ Shown'
    BY <2>1 DEF Core, Shown, Issued, Held, Noted, tablet, history, Statuses
  <2>3. Handed' /\ NoRepeat' /\ CancelHolds'
    BY <2>1 DEF Core, Issued, Noted, Handed, NoRepeat, CancelHolds, tablet, history
  <2> QED
    BY <2>2, <2>3 DEF Core
<1> QED
  BY <1>1, <1>2, <1>3, <1>4, <1>5, <1>6, <1>7 DEF Staff

\* What a request brings back is pending, so it was neither acknowledged nor
\* cancelled.
LEMMA FetchKeeps ==
  ASSUME Core, NEW t \in Threads, NEW step \in Steps, NEW got \in {{}, Fetched},
         todo' = [todo EXCEPT ![t] = got], pc' = [pc EXCEPT ![t] = step],
         step \in {"run", "ack"} => got # {},
         UNCHANGED <<server, history>>
  PROVE  Core'
<1>1. got \subseteq Commands /\ \A c \in got : status[c] = "pending"
  BY DEF Fetched
<1>2. Issued' /\ Noted' /\ Handed'
  BY DEF Core, Issued, Noted, Handed, server, history
<1>3. Held'
  BY <1>1 DEF Core, Held
<1>4. NoRepeat' /\ CancelHolds'
  BY <1>1 DEF Core, Held, Noted, Handed, NoRepeat, CancelHolds, server, history
<1> QED
  BY <1>2, <1>3, <1>4 DEF Core

\* A thread that only goes on, with commands in hand where it needs them.
LEMMA GoKeeps ==
  ASSUME Core, NEW t \in Threads, NEW step \in Steps, Goto(t, step),
         step \in {"run", "ack"} => todo[t] # {},
         UNCHANGED <<server, todo, history>>
  PROVE  Core'
<1>1. Held'
  BY DEF Core, Held, Goto
<1>2. Issued' /\ Noted' /\ Handed' /\ NoRepeat' /\ CancelHolds'
  BY DEF Core, Issued, Noted, Handed, NoRepeat, CancelHolds, server, history
<1> QED
  BY <1>1, <1>2 DEF Core

LEMMA ScreenType ==
  ASSUME Shown, NEW b \in BOOLEAN, applyBlockState(b)
  PROVE  screen' \in Screens
BY DEF applyBlockState, isShowing, Shown, Screens

\* The current command leaves the hand of its thread.
LEMMA NextCommandKeeps ==
  ASSUME Core, NEW t \in Threads, pc[t] = "ack", NextCommand(t)
  PROVE  Held' /\ todo' = [todo EXCEPT ![t] = todo[t] \ {Current(t)}]
<1>1. Current(t) \in todo[t]
  BY CurrentInHand DEF Core, Held
<1>2. /\ todo' = [todo EXCEPT ![t] = todo[t] \ {Current(t)}]
      /\ pc' = [pc EXCEPT ![t] = IF todo[t] = {Current(t)} THEN "idle" ELSE "run"]
  BY DEF NextCommand, Goto
<1> QED
  BY <1>1, <1>2 DEF Core, Held, Steps

LEMMA AcknowledgeKeeps ==
  ASSUME Core, NEW t \in Threads, Acknowledge(t)
  PROVE  Core'
<1>1. /\ pc[t] = "ack"
      /\ status' = [status EXCEPT ![Current(t)] = "done"]
      /\ acked' = [acked EXCEPT ![t] = acked[t] \union {Current(t)}]
      /\ NextCommand(t)
      /\ UNCHANGED <<blocked, type, queueing, cancelling, clean>>
  BY DEF Acknowledge
<1>2. Current(t) \in todo[t] /\ Current(t) \in Commands
  BY <1>1, CurrentInHand DEF Core, Held
<1>3. Held' /\ todo' = [todo EXCEPT ![t] = todo[t] \ {Current(t)}]
  BY <1>1, NextCommandKeeps
<1>4. Issued' /\ Noted'
  BY <1>1, <1>2 DEF Core, Issued, Noted, Statuses
<1>5. Handed'
  BY <1>1, <1>2 DEF Core, Issued, Noted, Handed
<1>6. NoRepeat'
  BY <1>1, <1>2, <1>3 DEF Core, Held, Noted, NoRepeat
<1>7. CancelHolds'
  BY <1>1, <1>2, <1>3 DEF Core, Held, Issued, Noted, CancelHolds
<1> QED
  BY <1>3, <1>4, <1>5, <1>6, <1>7 DEF Core

LEMMA PollKeeps ==
  ASSUME Core, Shown, PollReads \/ PollListens \/ PollTimer \/ PollRefetches
  PROVE  Core' /\ Shown'
<1> "poll" \in Threads /\ {"idle", "gap", "waiting", "refetch", "run"} \subseteq Steps
  BY DEF Threads, Steps
<1>1. CASE PollReads
  <2>1. Core'
    BY <1>1, FetchKeeps DEF PollReads, Goto
  <2> QED
    BY <1>1, <2>1 DEF PollReads, Shown
<1>2. CASE PollListens
  BY <1>2, GoKeeps DEF PollListens, Shown
<1>3. CASE PollTimer
  BY <1>3, GoKeeps DEF PollTimer, Shown
<1>4. CASE PollRefetches
  <2>1. Core'
    BY <1>4, FetchKeeps DEF PollRefetches, Goto
  <2> QED
    BY <1>4, <2>1 DEF PollRefetches, Shown
<1> QED
  BY <1>1, <1>2, <1>3, <1>4

LEMMA BeatKeeps ==
  ASSUME Core, Shown, BeatReadsDevice \/ BeatReadsCommands \/ BeatApplies
  PROVE  Core' /\ Shown'
<1> "beat" \in Threads /\ {"idle", "fetch", "apply", "run"} \subseteq Steps
  BY DEF Threads, Steps
<1>1. CASE BeatReadsDevice
  <2>1. Core'
    BY <1>1, GoKeeps DEF BeatReadsDevice
  <2> QED
    BY <1>1, <2>1 DEF BeatReadsDevice, Core, Issued, Shown
<1>2. CASE BeatReadsCommands
  <2>1. Core'
    BY <1>2, FetchKeeps DEF BeatReadsCommands, Goto
  <2> QED
    BY <1>2, <2>1 DEF BeatReadsCommands, Shown
<1>3. CASE BeatApplies
  <2>1. Core'
    BY <1>3, GoKeeps DEF BeatApplies, Handled
  <2>2. Shown'
    BY <1>3, ScreenType DEF BeatApplies, Shown
  <2> QED
    BY <2>1, <2>2
<1> QED
  BY <1>1, <1>2, <1>3

LEMMA ExecuteKeeps ==
  ASSUME Core, Shown, NEW t \in Threads, Execute(t)
  PROVE  Core' /\ Shown'
<1>1. todo[t] # {} /\ Goto(t, "ack") /\ "ack" \in Steps
      /\ UNCHANGED <<server, todo, answer, faults, late, history>>
  BY DEF Execute, Core, Held, Steps
<1>2. Core'
  BY <1>1, GoKeeps
<1>3. screen' \in Screens
  BY ScreenType DEF Execute, Shown
<1> QED
  BY <1>1, <1>2, <1>3 DEF Shown

LEMMA FaultKeeps ==
  ASSUME Core, Shown, NEW t \in Threads, LoseFetch(t) \/ LoseAck(t) \/ Restart
  PROVE  Core' /\ Shown'
<1>1. CASE LoseFetch(t)
  <2>1. /\ todo' = [todo EXCEPT ![t] = {}] /\ pc' = [pc EXCEPT ![t] = "idle"]
        /\ UNCHANGED <<server, history>>
    BY <1>1 DEF LoseFetch, Lose, Goto
  <2>2. "idle" \in Steps /\ "idle" \notin {"run", "ack"} /\ {} \in {{}, Fetched}
    BY DEF Steps
  <2>3. Core'
    BY <2>1, <2>2, FetchKeeps
  <2>4. answer' \in BOOLEAN
    BY <1>1, Zenon DEF LoseFetch, Shown
  <2>5. screen' \in Screens /\ faults' \in 0 .. MaxFaults /\ late' \in [Commands -> Nat]
    BY <1>1, Faults DEF LoseFetch, Lose, Shown
  <2> QED
    BY <2>3, <2>4, <2>5 DEF Shown
<1>2. CASE LoseAck(t)
  <2>1. Held' /\ todo' = [todo EXCEPT ![t] = todo[t] \ {Current(t)}]
    BY <1>2, NextCommandKeeps DEF LoseAck
  <2>2. Issued' /\ Noted' /\ Handed' /\ NoRepeat' /\ CancelHolds'
    BY <1>2, <2>1 DEF LoseAck, Lose, Core, Issued, Held, Noted, Handed, NoRepeat, CancelHolds,
       server, history
  <2>3. late' \in [Commands -> Nat]
    BY <1>2, LateType DEF LoseAck
  <2> QED
    BY <1>2, <2>1, <2>2, <2>3, Faults DEF LoseAck, Lose, Core, Shown
<1>3. CASE Restart
  <2>1. /\ pc' = [s \in Threads |-> "idle"] /\ todo' = [s \in Threads |-> {}]
        /\ UNCHANGED <<server, history>>
    BY <1>3 DEF Restart
  <2>2. Held'
    BY <2>1 DEF Held, Steps
  <2>3. Issued' /\ Noted' /\ Handed'
    BY <2>1 DEF Core, Issued, Noted, Handed, server, history
  <2>4. NoRepeat' /\ CancelHolds'
    BY <2>1 DEF Core, NoRepeat, CancelHolds, server, history
  <2>5. answer' \in BOOLEAN
    BY <1>3, Zenon DEF Restart
  <2>6. screen' \in Screens /\ faults' \in 0 .. MaxFaults
    BY <1>3, Faults DEF Restart, Shown, Screens
  <2>7. late' \in [Commands -> Nat]
    BY <1>3, LateType DEF Restart
  <2> QED
    BY <2>2, <2>3, <2>4, <2>5, <2>6, <2>7 DEF Core, Shown
<1> QED
  BY <1>1, <1>2, <1>3

\* A late acknowledgement makes a command done that is in the same hands as before,
\* be it cancelled by now or not.
LEMMA LateKeeps ==
  ASSUME Core, Shown, NEW c \in Commands, LateAck(c)
  PROVE  Core' /\ Shown'
<1>1. /\ status' = [status EXCEPT ![c] = "done"] /\ late[c] > 0
      /\ late' = [late EXCEPT ![c] = late[c] - 1]
      /\ UNCHANGED <<blocked, type, queueing, cancelling, tablet, screen, faults, history>>
  BY DEF LateAck
<1>2. Issued' /\ Held' /\ Noted' /\ Shown'
  BY <1>1 DEF Core, Shown, Issued, Held, Noted, tablet, history, Statuses
<1>3. Handed' /\ NoRepeat' /\ CancelHolds'
  BY <1>1 DEF Core, Issued, Noted, Handed, NoRepeat, CancelHolds, tablet, history
<1> QED
  BY <1>2, <1>3 DEF Core

\* Android changes the screen alone.
LEMMA AndroidKeeps ==
  ASSUME Core, Shown, ScreenMoves \/ Hide \/ Resume
  PROVE  Core' /\ Shown'
<1>1. UNCHANGED <<server, tablet, history>>
  BY DEF ScreenMoves, Hide, Resume
<1>2. Core'
  BY <1>1 DEF Core, Issued, Held, Noted, Handed, NoRepeat, CancelHolds, server, tablet, history
<1>3. Shown'
  BY Faults DEF ScreenMoves, Hide, Resume, Shown, Screens, tablet
<1> QED
  BY <1>2, <1>3

LEMMA Start == Init => Core /\ Shown
<1> SUFFICES ASSUME Init PROVE Core /\ Shown
  OBVIOUS
<1>1. Issued
  BY DEF Init, Issued, Types, Statuses
<1>2. Held
  BY DEF Init, Held, Steps
<1>3. Noted /\ Handed /\ NoRepeat /\ CancelHolds
  BY DEF Init, Noted, Handed, NoRepeat, CancelHolds
<1>4. answer \in BOOLEAN
  BY Zenon DEF Init
<1>5. screen \in Screens /\ faults \in 0 .. MaxFaults /\ late \in [Commands -> Nat]
  BY Faults DEF Init, Screens
<1> QED
  BY <1>1, <1>2, <1>3, <1>4, <1>5 DEF Core, Shown

LEMMA Inductive == Core /\ Shown /\ [Next]_vars => Core' /\ Shown'
<1> SUFFICES ASSUME Core, Shown, [Next]_vars PROVE Core' /\ Shown'
  OBVIOUS
<1>1. CASE Staff
  BY <1>1, StaffKeeps
<1>2. ASSUME NEW t \in Threads, Step(t) PROVE Core' /\ Shown'
  <2>1. CASE Acknowledge(t)
    <3>1. Core'
      BY <2>1, AcknowledgeKeeps
    <3> QED
      BY <2>1, <3>1 DEF Acknowledge, Shown
  <2> QED
    BY <1>2, <2>1, PollKeeps, BeatKeeps, ExecuteKeeps DEF Step
<1>3. ASSUME NEW t \in Threads, LoseFetch(t) \/ LoseAck(t) PROVE Core' /\ Shown'
  BY <1>3, FaultKeeps
<1>4. CASE Restart
  <2>1. "poll" \in Threads
    BY DEF Threads
  <2> QED
    BY <1>4, <2>1, FaultKeeps
<1>5. CASE ScreenMoves \/ Hide \/ Resume
  BY <1>5, AndroidKeeps
<1>7. ASSUME NEW c \in Commands, LateAck(c) PROVE Core' /\ Shown'
  BY <1>7, LateKeeps
<1>6. CASE UNCHANGED vars
  BY <1>6 DEF vars, server, tablet, history, Core, Shown, Issued, Held, Noted, Handed,
     NoRepeat, CancelHolds
<1> QED
  BY <1>1, <1>2, <1>3, <1>4, <1>5, <1>6, <1>7 DEF Next

\* The inductive invariant in the terms of the properties.
LEMMA Always == Spec => [](TypeOK /\ Handed /\ NoRepeat /\ CancelHolds)
<1> QED
  BY Start, Inductive, CoreAndShown, PTL DEF Spec

------------------------------------------------------------------------------
\* Rows, hands and screen keep their types; a thread that is to run a command
\* has one (DeviceMonitorService.kt:92-129).
THEOREM TypeCorrect == Spec => []TypeOK
BY Always, PTL

\* A thread never takes up again what it acknowledged, for any number of
\* commands, losses and restarts: an acknowledged command is not pending, and
\* no step makes it pending again (devices.service.ts:443-446, 521-539).
THEOREM NeverTwice == Spec => []NoRepeat
BY Always, PTL

\* A command cancelled while no thread held it is never run after that
\* (devices.service.ts:325-338), even if a late acknowledgement of an earlier run
\* overwrites the cancellation (:534): a fetch brings back pending commands only,
\* and neither write makes a command pending again.
THEOREM CancelledIsNeverRun == Spec => []CancelHolds
BY Always, PTL

\* Neither of the two rules is ever broken.
THEOREM RulesHold == Spec => []CommandRules
BY Always, PTL DEF CommandRules

------------------------------------------------------------------------------
(* The promise.  A thread fetches with empty hands, and what it holds, a     *)
(* request will cancel or a late acknowledgement speaks of was issued.       *)

InHand ==
  /\ \A t \in Threads : pc[t] \notin {"apply", "run", "ack"} => todo[t] = {}
  /\ \A t \in Threads : \A c \in todo[t] : status[c] # "none"
  /\ \A c \in cancelling : status[c] # "none"
  /\ \A c \in Commands : late[c] > 0 => status[c] # "none"

Promised == InHand' /\ [Promises!Next]_(Promises!vars)

\* A command that is queued is the next one.
LEMMA QueuePromised ==
  ASSUME Core, InHand, NEW c \in Commands, NEW what \in Types, Queue(c, what),
         UNCHANGED <<cancelling, todo, late, history>>
  PROVE  Promised
<1>1. /\ status[c] = "none" /\ \A d \in Commands : d < c => status[d] # "none"
      /\ status' = [status EXCEPT ![c] = "pending"]
      /\ pc' = [pc EXCEPT !["poll"] = IF pc["poll"] = "waiting" THEN "refetch" ELSE pc["poll"]]
  BY DEF Queue, Unused, Wake
<1>2. InHand'
  BY <1>1 DEF InHand, Core, Issued, Held, Threads
<1>3. Promises!Issue
  <2>1. {d \in Commands : status'[d] # "none"} = {d \in Commands : status[d] # "none"} \union {c}
    BY <1>1 DEF Core, Issued
  <2> QED
    BY <1>1, <2>1 DEF Promises!Issue, history
<1> QED
  BY <1>2, <1>3 DEF Promised, Promises!Next

\* A step that issues nothing and leaves the hands and the history alone.
LEMMA NothingPromised ==
  ASSUME Core, InHand,
         {c \in Commands : status'[c] # "none"} = {c \in Commands : status[c] # "none"},
         \A c \in cancelling' : c \in Commands /\ status[c] # "none",
         \A t \in Threads : pc'[t] \notin {"apply", "run", "ack"} =>
           pc[t] \notin {"apply", "run", "ack"} \/ todo[t] = {},
         \A c \in Commands : late'[c] > 0 => status[c] # "none",
         UNCHANGED <<todo, history>>
  PROVE  Promised
<1>1. \A c \in Commands : status'[c] # "none" <=> status[c] # "none"
  OBVIOUS
<1>2. InHand'
  BY <1>1 DEF InHand, Core, Held
<1>3. UNCHANGED Promises!vars
  BY DEF Promises!vars, history
<1> QED
  BY <1>2, <1>3 DEF Promised

LEMMA StaffPromised ==
  ASSUME Core, InHand, Staff
  PROVE  Promised
<1>1. ASSUME NEW b \in BOOLEAN, SetBlocked(b) PROVE Promised
  BY <1>1, NothingPromised DEF SetBlocked, tablet, InHand, Core, Issued
<1>2. CASE QueueBlock
  <2>1. PICK what \in queueing, c \in Commands : Queue(c, what) /\ UNCHANGED <<cancelling, todo, late, history>>
    BY <1>2 DEF QueueBlock
  <2>2. what \in Types
    BY DEF Core, Issued, Types
  <2> QED
    BY <2>1, <2>2, QueuePromised
<1>3. CASE SetBlockedFails
  BY <1>3, NothingPromised DEF SetBlockedFails, tablet, InHand, Core, Issued
<1>4. CASE Issue
  BY <1>4, QueuePromised DEF Issue, Types
<1>5. ASSUME NEW c \in Commands, CancelReads(c) PROVE Promised
  <2>1. status[c] # "none" /\ cancelling' = {c} /\ UNCHANGED <<status, tablet, late, history>>
    BY <1>5 DEF CancelReads
  <2> QED
    BY <2>1, NothingPromised DEF tablet, InHand
<1>6. ASSUME NEW c \in Commands, CancelWrites(c) PROVE Promised
  <2>1. /\ c \in cancelling /\ status' = [status EXCEPT ![c] = "cancelled"]
        /\ cancelling' = cancelling \ {c} /\ UNCHANGED <<tablet, late, acked>>
        /\ clean' = IF \A t \in Threads : c \notin todo[t] THEN clean \union {c} ELSE clean
    BY <1>6 DEF CancelWrites
  <2>2. status[c] # "none"
    BY <2>1 DEF InHand
  <2>3. {d \in Commands : status'[d] # "none"} = {d \in Commands : status[d] # "none"}
    BY <2>1, <2>2 DEF Core, Issued
  <2>4. InHand'
    BY <2>1, <2>2 DEF InHand, tablet, Core, Issued, Held
  <2>5. CASE \A t \in Threads : c \notin todo[t]
    <3>1. Promises!Revoke
      BY <2>1, <2>2, <2>3, <2>5 DEF Promises!Revoke, tablet
    <3> QED
      BY <2>4, <3>1 DEF Promised, Promises!Next
  <2>6. CASE ~ \A t \in Threads : c \notin todo[t]
    <3>1. UNCHANGED Promises!vars
      BY <2>1, <2>3, <2>6 DEF Promises!vars, tablet
    <3> QED
      BY <2>4, <3>1 DEF Promised
  <2> QED
    BY <2>5, <2>6
<1>7. ASSUME NEW c \in Commands, Expire(c) PROVE Promised
  <2>1. /\ status[c] = "pending" /\ status' = [status EXCEPT ![c] = "expired"]
        /\ UNCHANGED <<cancelling, tablet, late, history>>
    BY <1>7 DEF Expire
  <2>2. {d \in Commands : status'[d] # "none"} = {d \in Commands : status[d] # "none"}
    BY <2>1 DEF Core, Issued
  <2> QED
    BY <2>1, <2>2, NothingPromised DEF tablet, InHand, Core, Issued
<1> QED
  BY <1>1, <1>2, <1>3, <1>4, <1>5, <1>6, <1>7 DEF Staff

\* A fetch gives an empty hand what no hand has acknowledged and nobody revoked.
LEMMA FetchPromised ==
  ASSUME Core, InHand, NEW t \in Threads, NEW step \in {"gap", "idle", "run", "apply"},
         pc[t] \notin {"apply", "run", "ack"},
         todo' = [todo EXCEPT ![t] = Fetched], pc' = [pc EXCEPT ![t] = step],
         step \in {"gap", "idle"} => Fetched = {},
         UNCHANGED <<server, late, history>>
  PROVE  Promised
<1>1. \A c \in Fetched : c \in Commands /\ status[c] = "pending"
  BY DEF Fetched
<1>2. todo[t] = {}
  BY DEF InHand
<1>3. InHand'
  BY <1>1 DEF InHand, Core, Held, server
<1>4. Fetched \in SUBSET ({c \in Commands : status[c] # "none"} \ (Promises!Settled \union clean))
  BY <1>1 DEF Promises!Settled, Core, Handed, CancelHolds
<1>5. Promises!Give(t)
  BY <1>2, <1>4 DEF Promises!Give, server, history
<1> QED
  BY <1>3, <1>5 DEF Promised, Promises!Next

\* The thread is through with its current command.
LEMMA CurrentFinished ==
  ASSUME Core, NEW t \in Threads, pc[t] = "ack", NextCommand(t),
         {c \in Commands : status'[c] # "none"} = {c \in Commands : status[c] # "none"}, UNCHANGED clean
  PROVE  /\ Current(t) \in todo[t] /\ Current(t) \in Commands
         /\ Promises!Finish(t, Current(t))
<1>1. todo[t] # {}
  BY DEF Core, Held
<1>2. Current(t) \in todo[t] /\ \A d \in todo[t] : Current(t) <= d
  BY <1>1, OldestInHand DEF Core
<1>3. todo' = [todo EXCEPT ![t] = todo[t] \ {Current(t)}]
  BY NextCommandKeeps
<1> QED
  BY <1>2, <1>3 DEF Promises!Finish, Core, Held

\* What stays under way is in the hand of its thread, and so was issued.
LEMMA UnderWayIssued ==
  ASSUME Core, Shown, InHand, NEW ts \in SUBSET {t \in Threads : pc[t] = "ack"}, StayUnderWay(ts)
  PROVE  \A c \in Commands : late'[c] > 0 => status[c] # "none"
<1> SUFFICES ASSUME NEW c \in Commands, late'[c] > 0 PROVE status[c] # "none"
  OBVIOUS
<1>1. late'[c] = late[c] + Cardinality({t \in ts : Current(t) = c}) /\ late[c] \in Nat
  BY DEF StayUnderWay, Shown
<1>2. CASE {t \in ts : Current(t) = c} = {}
  <2>1. late'[c] = late[c]
    BY <1>1, <1>2, FS_EmptySet
  <2> QED
    BY <2>1 DEF InHand
<1>3. CASE {t \in ts : Current(t) = c} # {}
  <2>1. PICK t \in Threads : pc[t] = "ack" /\ Current(t) = c
    BY <1>3
  <2>2. c \in todo[t]
    BY <2>1, CurrentInHand DEF Core, Held
  <2> QED
    BY <2>2 DEF InHand
<1> QED
  BY <1>2, <1>3

LEMMA ThreadPromised ==
  ASSUME Core, Shown, InHand, NEW t \in Threads, Step(t) \/ LoseFetch(t) \/ LoseAck(t)
  PROVE  Promised
<1>1. CASE PollReads /\ t = "poll"
  BY <1>1, FetchPromised DEF PollReads, Goto
<1>2. CASE PollListens /\ t = "poll"
  BY <1>2, NothingPromised DEF PollListens, Goto, server, InHand, Core, Issued, Held
<1>3. CASE PollTimer /\ t = "poll"
  BY <1>3, NothingPromised DEF PollTimer, Goto, server, InHand, Core, Issued, Held
<1>4. CASE PollRefetches /\ t = "poll"
  BY <1>4, FetchPromised DEF PollRefetches, Goto
<1>5. CASE BeatReadsDevice /\ t = "beat"
  BY <1>5, NothingPromised DEF BeatReadsDevice, Goto, server, InHand, Core, Issued, Held
<1>6. CASE BeatReadsCommands /\ t = "beat"
  BY <1>6, FetchPromised DEF BeatReadsCommands, Goto
<1>7. CASE BeatApplies /\ t = "beat"
  BY <1>7, NothingPromised DEF BeatApplies, Handled, Goto, server, InHand, Core, Issued, Held
<1>8. CASE Execute(t)
  BY <1>8, NothingPromised DEF Execute, Goto, server, InHand, Core, Issued, Held
<1>9. CASE Acknowledge(t)
  <2>1. /\ pc[t] = "ack" /\ NextCommand(t)
        /\ status' = [status EXCEPT ![Current(t)] = "done"]
        /\ acked' = [acked EXCEPT ![t] = acked[t] \union {Current(t)}]
        /\ UNCHANGED <<cancelling, late, clean>>
    BY <1>9 DEF Acknowledge
  <2>2. Current(t) \in todo[t] /\ status[Current(t)] # "none"
    BY <2>1, CurrentInHand DEF Core, Held, InHand
  <2>3. {c \in Commands : status'[c] # "none"} = {c \in Commands : status[c] # "none"}
    BY <2>1, <2>2 DEF Core, Issued
  <2>4. Promises!Finish(t, Current(t))
    BY <2>1, <2>3, CurrentFinished
  <2>5. Promises!Acknowledge(t)
    BY <2>1, <2>2, <2>4 DEF Promises!Acknowledge
  <2>6. InHand'
    BY <2>1, <2>2 DEF NextCommand, Goto, InHand, Core, Issued, Held
  <2> QED
    BY <2>5, <2>6 DEF Promised, Promises!Next
<1>10. CASE LoseFetch(t)
  <2>1. /\ pc' = [pc EXCEPT ![t] = "idle"] /\ todo' = [todo EXCEPT ![t] = {}]
        /\ UNCHANGED <<server, late, history>>
    BY <1>10 DEF LoseFetch, Lose, Goto
  <2>2. InHand'
    BY <2>1 DEF InHand, Core, Held, server
  <2>3. todo' = [s \in Threads |-> IF s \in {t} THEN {} ELSE todo[s]]
    BY <2>1 DEF Core, Held
  <2>4. Promises!Forget
    BY <2>1, <2>3 DEF Promises!Forget, server, history
  <2> QED
    BY <2>2, <2>4 DEF Promised, Promises!Next
<1>11. CASE LoseAck(t)
  <2>1. pc[t] = "ack" /\ NextCommand(t) /\ UNCHANGED <<server, history>>
    BY <1>11 DEF LoseAck, Lose
  <2>2. Current(t) \in todo[t] /\ Promises!Finish(t, Current(t))
    BY <2>1, CurrentFinished DEF server, history
  <2>3. Promises!GoOn(t)
    BY <2>1, <2>2 DEF Promises!GoOn, history
  <2>4. \A c \in Commands : late'[c] > 0 => status[c] # "none"
    BY <1>11, <2>1, UnderWayIssued DEF LoseAck
  <2>5. InHand'
    BY <2>1, <2>2, <2>4 DEF NextCommand, Goto, InHand, Core, Held, server
  <2> QED
    BY <2>3, <2>5 DEF Promised, Promises!Next
<1> QED
  BY <1>1, <1>2, <1>3, <1>4, <1>5, <1>6, <1>7, <1>8, <1>9, <1>10, <1>11 DEF Step

\* Server and tablet implement the promise: every step is a step of
\* CommandPromise or leaves what it promises alone, for any number of commands,
\* losses and restarts.
THEOREM TabletKeepsPromise == Spec => CommandsKept
<1>1. Init => InHand /\ Promises!Init
  <2> SUFFICES ASSUME Init PROVE InHand /\ Promises!Init
    OBVIOUS
  <2>1. InHand
    BY DEF Init, InHand
  <2>2. {c \in Commands : status[c] # "none"} = {}
    BY DEF Init
  <2>3. Promises!Init
    BY <2>2 DEF Init, Promises!Init
  <2> QED
    BY <2>1, <2>3
<1>2. Core /\ Shown /\ InHand /\ [Next]_vars => InHand' /\ [Promises!Next]_(Promises!vars)
  <2> SUFFICES ASSUME Core, Shown, InHand, [Next]_vars PROVE Promised
    BY DEF Promised
  <2>1. CASE Staff
    BY <2>1, StaffPromised
  <2>2. CASE \E t \in Threads : Step(t) \/ LoseFetch(t) \/ LoseAck(t)
    BY <2>2, ThreadPromised
  <2>3. CASE Restart
    <3>1. /\ pc' = [t \in Threads |-> "idle"] /\ todo' = [t \in Threads |-> {}]
          /\ UNCHANGED <<server, history>>
      BY <2>3 DEF Restart
    <3>2. InHand'
      <4>1. \A c \in Commands : late'[c] > 0 => status[c] # "none"
        BY <2>3, UnderWayIssued DEF Restart
      <4> QED
        BY <3>1, <4>1 DEF InHand, server
    <3>3. todo' = [t \in Threads |-> IF t \in Threads THEN {} ELSE todo[t]]
      BY <3>1
    <3>4. Promises!Forget
      BY <3>1, <3>3 DEF Promises!Forget, server, history
    <3> QED
      BY <3>2, <3>4 DEF Promised, Promises!Next
  <2>5. ASSUME NEW c \in Commands, LateAck(c) PROVE Promised
    <3>1. /\ late[c] > 0 /\ late' = [late EXCEPT ![c] = late[c] - 1]
          /\ status' = [status EXCEPT ![c] = "done"]
          /\ UNCHANGED <<cancelling, tablet, history>>
      BY <2>5 DEF LateAck
    <3>2. status[c] # "none" /\ \A d \in Commands : late'[d] > 0 => status[d] # "none"
      BY <3>1 DEF InHand, Shown
    <3>3. {d \in Commands : status'[d] # "none"} = {d \in Commands : status[d] # "none"}
      BY <3>1, <3>2 DEF Core, Issued
    <3> QED
      BY <3>1, <3>2, <3>3, NothingPromised DEF tablet, InHand, Core, Issued
  <2>4. CASE ScreenMoves \/ Hide \/ Resume \/ UNCHANGED vars
    <3>1. UNCHANGED <<server, tablet, late, history>>
      BY <2>4 DEF ScreenMoves, Hide, Resume, vars
    <3> QED
      BY <3>1, NothingPromised DEF server, tablet, InHand, Core, Issued
  <2> QED
    BY <2>1, <2>2, <2>3, <2>4, <2>5 DEF Next
<1>3. Core /\ Shown <=> TypeOK /\ Handed /\ NoRepeat /\ CancelHolds
  BY CoreAndShown
<1> QED
  BY <1>1, <1>2, <1>3, Always, PTL DEF Spec, CommandsKept, Promises!Spec
===============================================================================
