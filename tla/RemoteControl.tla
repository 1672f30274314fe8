---------------------------- MODULE RemoteControl ----------------------------
(***************************************************************************)
(* Remote control of one tablet: the device row and its commands on the    *)
(* server (devices/devices.service.ts), and on the tablet the poll thread, *)
(* the heartbeat thread and the lock screen (DeviceMonitorService.kt,      *)
(* BlockActivity.kt).  Both threads fetch the pending commands, execute    *)
(* them and acknowledge each one; the heartbeat also brings the blocked    *)
(* flag of the row itself.  Requests and answers get lost, the tablet      *)
(* restarts, and the lock screen starts and finishes when Android says so. *)
(***************************************************************************)
EXTENDS Integers, FiniteSets

CONSTANTS
  MaxCommands,  \* bound: commands queued for the tablet
  MaxFaults     \* bound: requests or answers lost, restarts of the tablet,
                \* failures of the server, and times the lock screen is paused

ASSUME RemoteControlAssumption == {MaxCommands, MaxFaults} \subseteq Nat

Commands == 1 .. MaxCommands           \* in the order of createdAt
Threads  == {"poll", "beat"}
Types    == {"BLOCK", "UNBLOCK", "OTHER"}   \* OTHER: RING, REBOOT, LOCATE, ...
Statuses == {"none", "pending", "expired", "done", "cancelled"}
Steps    == {"idle", "gap", "waiting", "refetch", "fetch", "apply", "run", "ack"}
Screens  == {"off", "starting", "shown", "hidden", "closing"}

VARIABLES
  blocked,    \* devices.blocked
  type,       \* device_commands.type
  status,     \* .status; "expired" is pending after expiresAt,
              \* "done" what the tablet reported: completed or failed
  queueing,   \* staff requests that wrote blocked, not yet the command
  cancelling, \* the command a staff request read as pending and will cancel
  pc,         \* where each thread of the tablet, or its request, is
  todo,       \* the fetched commands a thread has not acknowledged
  answer,     \* blocked as the heartbeat under way read it
  screen,     \* the lock screen
  faults,     \* how many faults there were
  late,       \* how many acknowledgements of a command went unanswered and may
              \* still be carried out by the server
  acked,      \* history: the commands each thread acknowledged
  clean       \* history: commands cancelled before a thread had them

server == <<blocked, type, status, queueing, cancelling>>
tablet == <<pc, todo, answer>>
history == <<acked, clean>>
vars == <<server, tablet, screen, faults, late, history>>

Init ==
  /\ blocked = FALSE /\ queueing = {} /\ cancelling = {}
  /\ type = [c \in Commands |-> "OTHER"]
  /\ status = [c \in Commands |-> "none"]
  /\ pc = [t \in Threads |-> "idle"]
  /\ todo = [t \in Threads |-> {}]
  /\ answer = FALSE
  /\ screen = "off"
  /\ faults = 0
  /\ late = [c \in Commands |-> 0]
  /\ acked = [t \in Threads |-> {}]
  /\ clean = {}

------------------------------------------------------------------------------
(* Staff and the server *)

Unused(c) == status[c] = "none" /\ \A d \in Commands : d < c => status[d] # "none"

\* wakeDevice: only a poll that has registered its listener hears it.
Wake == pc' = [pc EXCEPT !["poll"] = IF @ = "waiting" THEN "refetch" ELSE @]

Queue(c, what) ==
  /\ Unused(c)
  /\ type' = [type EXCEPT ![c] = what]
  /\ status' = [status EXCEPT ![c] = "pending"]
  /\ Wake

\* setBlocked writes the row and, in a later await, creates the command.  Bound:
\* it does not overlap with a cancellation, which touches other rows.
SetBlocked(b) ==
  LET what == IF b THEN "BLOCK" ELSE "UNBLOCK" IN
  /\ Cardinality(queueing) < Cardinality({c \in Commands : status[c] = "none"})
  /\ what \notin queueing /\ cancelling = {}
  /\ blocked' = b
  /\ queueing' = queueing \union {what}
  /\ UNCHANGED <<type, status, cancelling, tablet, screen, faults, late, history>>

QueueBlock ==
  \E what \in queueing, c \in Commands :
    /\ Queue(c, what)
    /\ queueing' = queueing \ {what}
    /\ UNCHANGED <<blocked, cancelling, todo, answer, screen, faults, late, history>>

\* The server fails between the two awaits.
SetBlockedFails ==
  \E what \in queueing :
    /\ faults < MaxFaults
    /\ faults' = faults + 1
    /\ queueing' = queueing \ {what}
    /\ UNCHANGED <<blocked, type, status, cancelling, tablet, screen, late, history>>

\* issueCommand and issueLocate, with the types the controller issues.
Issue ==
  \E c \in Commands :
    /\ Queue(c, "OTHER")
    /\ UNCHANGED <<blocked, queueing, cancelling, todo, answer, screen, faults, late, history>>

CancelReads(c) ==
  /\ cancelling = {} /\ queueing = {} /\ status[c] \in {"pending", "expired"}
  /\ cancelling' = {c}
  /\ UNCHANGED <<blocked, type, status, queueing, tablet, screen, faults, late, history>>

CancelWrites(c) ==
  /\ c \in cancelling
  /\ cancelling' = cancelling \ {c}
  /\ status' = [status EXCEPT ![c] = "cancelled"]
  /\ clean' = IF \A t \in Threads : c \notin todo[t] THEN clean \union {c} ELSE clean
  /\ UNCHANGED <<blocked, type, queueing, tablet, screen, faults, late, acked>>

\* Half an hour after its creation a command is no longer handed out.
Expire(c) ==
  /\ status[c] = "pending"
  /\ status' = [status EXCEPT ![c] = "expired"]
  /\ UNCHANGED <<blocked, type, queueing, cancelling, tablet, screen, faults, late, history>>

Staff ==
  \/ \E b \in BOOLEAN : SetBlocked(b)
  \/ QueueBlock \/ SetBlockedFails
  \/ Issue
  \/ \E c \in Commands : CancelReads(c) \/ CancelWrites(c) \/ Expire(c)

------------------------------------------------------------------------------
(* The long poll, held by the server, and the heartbeat *)

Goto(t, step) == pc' = [pc EXCEPT ![t] = step]

\* Faulty variant: every command of the last half hour that was not cancelled.
FetchedAll == {c \in Commands : status[c] \in {"pending", "done"}}

\* The commands a request brings back to its thread.
Fetched == {c \in Commands : status[c] = "pending"}

PollReads ==
  /\ pc["poll"] = "idle"
  /\ todo' = [todo EXCEPT !["poll"] = Fetched]
  /\ Goto("poll", IF Fetched = {} THEN "gap" ELSE "run")
  /\ UNCHANGED <<server, answer, screen, faults, late, history>>

PollListens ==
  /\ pc["poll"] = "gap"
  /\ Goto("poll", "waiting")
  /\ UNCHANGED <<server, todo, answer, screen, faults, late, history>>

PollTimer ==
  /\ pc["poll"] = "waiting"
  /\ Goto("poll", "refetch")
  /\ UNCHANGED <<server, todo, answer, screen, faults, late, history>>

PollRefetches ==
  /\ pc["poll"] = "refetch"
  /\ todo' = [todo EXCEPT !["poll"] = Fetched]
  /\ Goto("poll", IF Fetched = {} THEN "idle" ELSE "run")
  /\ UNCHANGED <<server, answer, screen, faults, late, history>>

BeatReadsDevice ==
  /\ pc["beat"] = "idle"
  /\ answer' = blocked
  /\ Goto("beat", "fetch")
  /\ UNCHANGED <<server, todo, screen, faults, late, history>>

BeatReadsCommands ==
  /\ pc["beat"] = "fetch"
  /\ todo' = [todo EXCEPT !["beat"] = Fetched]
  /\ Goto("beat", "apply")
  /\ UNCHANGED <<server, answer, screen, faults, late, history>>

------------------------------------------------------------------------------
(* The threads of the tablet *)

isShowing == screen \in {"shown", "closing"}

applyBlockState(b) ==
  screen' = CASE b /\ ~isShowing  -> "starting"
              [] ~b /\ isShowing  -> "closing"
              [] OTHER            -> screen

\* Faulty variant: an empty list is handled like any other.
HandledAlways(t) == "run"

Handled(t) == IF todo[t] = {} THEN "idle" ELSE "run"

\* Faulty variant: the answer of a heartbeat can only lock.
BeatOnlyLocks ==
  /\ pc["beat"] = "apply"
  /\ IF answer THEN applyBlockState(TRUE) ELSE UNCHANGED screen
  /\ answer' = FALSE
  /\ Goto("beat", Handled("beat"))
  /\ UNCHANGED <<server, todo, faults, late, history>>

BeatApplies ==
  /\ pc["beat"] = "apply"
  /\ applyBlockState(answer)
  /\ answer' = FALSE
  /\ Goto("beat", Handled("beat"))
  /\ UNCHANGED <<server, todo, faults, late, history>>

\* Faulty variant: the newest command comes first.
CurrentNewest(t) == CHOOSE c \in todo[t] : \A d \in todo[t] : d <= c

Current(t) == CHOOSE c \in todo[t] : \A d \in todo[t] : c <= d

\* handleCommand executes the command.
Execute(t) ==
  LET c == Current(t) IN
  /\ pc[t] = "run"
  /\ IF type[c] \in {"BLOCK", "UNBLOCK"}
     THEN applyBlockState(type[c] = "BLOCK") ELSE UNCHANGED screen
  /\ Goto(t, "ack")
  /\ UNCHANGED <<server, todo, answer, faults, late, history>>

\* The thread goes on to the next command whatever became of this one.
NextCommand(t) ==
  /\ todo' = [todo EXCEPT ![t] = @ \ {Current(t)}]
  /\ Goto(t, IF todo[t] = {Current(t)} THEN "idle" ELSE "run")

\* Faulty variant: a command that failed is not acknowledged.
AcknowledgeSuccess(t) ==
  /\ pc[t] = "ack"
  /\ \/ status' = [status EXCEPT ![Current(t)] = "done"]
     \/ type[Current(t)] = "OTHER" /\ UNCHANGED status
  /\ acked' = [acked EXCEPT ![t] = @ \union {Current(t)}]
  /\ NextCommand(t)
  /\ UNCHANGED <<blocked, type, queueing, cancelling, answer, screen, faults, late, clean>>

\* ackCommandByDevice writes the status whatever it was.
Acknowledge(t) ==
  /\ pc[t] = "ack"
  /\ status' = [status EXCEPT ![Current(t)] = "done"]
  /\ acked' = [acked EXCEPT ![t] = @ \union {Current(t)}]
  /\ NextCommand(t)
  /\ UNCHANGED <<blocked, type, queueing, cancelling, answer, screen, faults, late, clean>>

------------------------------------------------------------------------------
(* Faults, and the lock screen as Android runs it *)

Lose ==
  /\ faults < MaxFaults
  /\ faults' = faults + 1
  /\ UNCHANGED <<server, screen, history>>

\* A fetch, or its answer: nothing is handled, the thread tries again.
LoseFetch(t) ==
  /\ pc[t] \in {"gap", "waiting", "refetch", "fetch", "apply"}
  /\ todo' = [todo EXCEPT ![t] = {}]
  /\ Goto(t, "idle")
  /\ answer' = IF t = "beat" THEN FALSE ELSE answer
  /\ UNCHANGED late
  /\ Lose

\* The acknowledgements of the given threads stay under way, for ever if they
\* are lost.
StayUnderWay(threads) ==
  late' = [c \in Commands |-> late[c] + Cardinality({t \in threads : Current(t) = c})]

\* The request or its answer is lost, or comes too late for the thread.
LoseAck(t) ==
  /\ pc[t] = "ack"
  /\ StayUnderWay({t})
  /\ NextCommand(t)
  /\ UNCHANGED answer
  /\ Lose

\* ackCommandByDevice looks for the command only, and then writes, whatever has
\* become of the thread and of the command.
LateAck(c) ==
  /\ late[c] > 0
  /\ late' = [late EXCEPT ![c] = @ - 1]
  /\ status' = [status EXCEPT ![c] = "done"]
  /\ UNCHANGED <<blocked, type, queueing, cancelling, tablet, screen, faults, history>>

Restart ==
  /\ faults < MaxFaults
  /\ faults' = faults + 1
  /\ pc' = [t \in Threads |-> "idle"]
  /\ todo' = [t \in Threads |-> {}]
  /\ answer' = FALSE
  /\ screen' = "off"
  /\ StayUnderWay({t \in Threads : pc[t] = "ack"})
  /\ UNCHANGED <<server, history>>

ScreenMoves ==
  /\ screen' = CASE screen = "starting" -> "shown" [] screen = "closing" -> "off"
                 [] OTHER -> screen
  /\ UNCHANGED <<server, tablet, faults, late, history>>

Hide ==
  /\ screen = "shown" /\ faults < MaxFaults
  /\ screen' = "hidden"
  /\ faults' = faults + 1
  /\ UNCHANGED <<server, tablet, late, history>>

Resume ==
  /\ screen = "hidden"
  /\ screen' = "shown"
  /\ UNCHANGED <<server, tablet, faults, late, history>>

------------------------------------------------------------------------------
Step(t) ==
  \/ t = "poll" /\ (PollReads \/ PollListens \/ PollTimer \/ PollRefetches)
  \/ t = "beat" /\ (BeatReadsDevice \/ BeatReadsCommands \/ BeatApplies)
  \/ Execute(t) \/ Acknowledge(t)

Next ==
  \/ Staff
  \/ \E t \in Threads : Step(t) \/ LoseFetch(t) \/ LoseAck(t)
  \/ \E c \in Commands : LateAck(c)
  \/ Restart \/ ScreenMoves \/ Hide \/ Resume

Spec == Init /\ [][Next]_vars

\* The two threads loop for ever, and Android starts and finishes activities.
\* Nothing is assumed of staff, of the half hour or of who hides the screen.
FairSpec ==
  /\ Spec
  /\ \A t \in Threads : WF_vars(Step(t))
  /\ WF_vars(ScreenMoves)

------------------------------------------------------------------------------
TypeOK ==
  /\ blocked \in BOOLEAN /\ answer \in BOOLEAN
  /\ type \in [Commands -> Types]
  /\ status \in [Commands -> Statuses]
  /\ queueing \subseteq {"BLOCK", "UNBLOCK"}
  /\ cancelling \subseteq Commands /\ clean \subseteq Commands
  /\ pc \in [Threads -> Steps]
  /\ todo \in [Threads -> SUBSET Commands]
  /\ \A t \in Threads : pc[t] \in {"run", "ack"} => todo[t] # {}
  /\ screen \in Screens
  /\ faults \in 0 .. MaxFaults
  /\ late \in [Commands -> Nat]
  /\ acked \in [Threads -> SUBSET Commands]

\* Both threads may execute one command (DeviceMonitorService.kt:93, :128), but
\* neither takes up again what it has itself acknowledged: a thread repeats a
\* command only after a lost acknowledgement or a restart.
NoRepeat == \A t \in Threads : acked[t] \intersect todo[t] = {}

\* A command cancelled while no thread held it (devices.service.ts:325) is never
\* taken up again, by neither thread.  It need not stay cancelled: an
\* acknowledgement that comes late still makes it done (:534), but it comes from a
\* thread that had executed the command before it was cancelled.
CancelHolds ==
  \A c \in clean :
    /\ status[c] \in {"cancelled", "done"}
    /\ \A t \in Threads : c \notin todo[t]

\* What the hands of the tablet hold agrees with what was acknowledged by the same
\* thread and with what was cancelled in time.
CommandRules == NoRepeat /\ CancelHolds

\* Server and tablet keep the promise of CommandPromise: each thread handles its
\* batch to the end before it fetches again, and what either thread acknowledged
\* is not handed to the other, whatever is lost, overtaken, cancelled or
\* restarted (deviceHeartbeat, longPollCommands, ackCommandByDevice).
Promises == INSTANCE CommandPromise
              WITH issued <- {c \in Commands : status[c] # "none"}, held <- todo, revoked <- clean
CommandsKept == Promises!Spec

\* Every command that is queued stops being pending, and for good: it is
\* acknowledged, cancelled, or its half hour ends, even if its wake-up found no
\* listener.
EveryCommandSettles ==
  <>[](\A c \in Commands : status[c] # "pending")

\* When staff stop changing the block, the lock screen comes to agree with the
\* device row, whatever was lost, overtaken, executed twice or restarted.
ScreenConverges ==
  <>[](IF blocked THEN screen = "shown" ELSE screen \in {"off", "hidden"})
==============================================================================
