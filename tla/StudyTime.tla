------------------------------ MODULE StudyTime ------------------------------
(***************************************************************************)
(* The daily study-time counter of one student on one Tashkent day         *)
(* (study-time.service.ts).  A heartbeat accrues active seconds and drives *)
(* the work-block / break / daily-cap engine.  The state of the day lives  *)
(* in three places: the row of study_time_daily, the session cached for    *)
(* SessionTTL, and the buffer of pending seconds that a cron job adds to   *)
(* the row.  No handler holds a lock: every await of the code is the end   *)
(* of an action here, so pings, the flush and the clock interleave.        *)
(*                                                                         *)
(* The clock and all timestamps are in ticks, Second of them to a second   *)
(* (the code: milliseconds, 1000); what is credited and stored is in whole *)
(* seconds, rounded from the ticks.  Never (0) is the null timestamp.  The *)
(* policy is read where the handler first uses it: the code reads it, up   *)
(* to five minutes old, a few awaits earlier, which moves SetPolicy and    *)
(* nothing else.                                                           *)
(***************************************************************************)
EXTENDS Integers

CONSTANTS
  Pings,       \* heartbeat requests that can be in flight at the same time
  Second,      \* ticks of the clock in a second
  MaxPing,     \* MAX_PING_SECONDS
  MaxDaily,    \* MAX_DAILY_SECONDS
  SessionTTL,  \* SESSION_CACHE_TTL_MS, in ticks
  Policies,    \* the policies a superadmin may set: cap in seconds, block and brk in ticks
  FlushEvery,  \* the period of the flush cron job, '*/5 * * * *'
  MaxLosses,   \* bound on the losses of the cache
  Horizon      \* bound on the clock

Never == 0

ASSUME ConstantsAssumption ==
  /\ Second \in Nat \ {0}
  /\ MaxPing \in Nat \ {0}
  /\ MaxDaily \in Nat
  /\ SessionTTL \in Nat
  /\ MaxPing * Second <= SessionTTL   \* 90 seconds and 15 minutes; see ExpiryCounts
  /\ FlushEvery \in Nat \ {0}
  /\ Policies \subseteq [cap : Nat, block : Nat, brk : Nat]
  /\ Policies # {}
  /\ MaxLosses \in Nat
  /\ Horizon \in Nat

VARIABLES
  now,        \* the clock, from 1
  policy,     \* the site settings
  rowExists,  \* the row of the day has been created
  row,        \* study_time_daily
  cached,     \* the session key is in the cache
  cache,      \* the cached session
  pend,       \* the pending key; absent and 0 are the same to every reader
  pc,         \* where each ping is
  at,         \* nowMs of each ping
  delta,      \* deltaSeconds of each ping, in ticks, clamped to MaxPing seconds
  known,      \* the ping found a session
  sess,       \* the session the ping loaded, from "decide" on the one it leaves
  seen,       \* the pending value the ping will write
  fpc,        \* where the flush is
  flushedAt,  \* when the last flush fired
  snapshot,   \* the pending value the flush adds to the row
  current,    \* the pending value the flush reads back
  overlap,    \* history: what has overlapped so far
  losses,     \* how often the cache was lost, at most MaxLosses
  credited,   \* history: seconds credited, less those lost with the cache
  first,      \* history: when the row was created
  owed        \* history: the end of the last break a ping imposed

stores == <<rowExists, row, cached, cache, pend>>
locals == <<at, delta, known, sess, seen>>
flush  == <<fpc, flushedAt, snapshot, current>>
hist   == <<losses, credited, first, owed>>
clock  == <<now, policy>>
vars   == <<clock, stores, pc, locals, flush, hist, overlap>>

Session == [seconds : Nat, lastPing : Nat, block : Nat, brk : Nat, cap : Nat]
Blank   == [seconds |-> 0, lastPing |-> 0, block |-> Never,
            brk |-> Never, cap |-> Never]

Steps == {"idle", "load", "row", "pend", "decide",
          "clear", "buffer", "store"}

Lesser(a, b)  == IF a <= b THEN a ELSE b
Greater(a, b) == IF a <= b THEN b ELSE a

Quiet == fpc = "idle" /\ \A p \in Pings : pc[p] = "idle"

Init ==
  /\ now = 1 /\ policy \in Policies
  /\ rowExists = FALSE /\ row = Blank
  /\ cached = FALSE /\ cache = Blank /\ pend = 0
  /\ pc = [p \in Pings |-> "idle"]
  /\ at = [p \in Pings |-> Never]
  /\ delta = [p \in Pings |-> 0]
  /\ known = [p \in Pings |-> FALSE]
  /\ sess = [p \in Pings |-> Blank]
  /\ seen = [p \in Pings |-> 0]
  /\ fpc = "idle" /\ flushedAt = Never /\ snapshot = 0 /\ current = 0
  /\ overlap = "none"
  /\ losses = 0 /\ credited = 0 /\ first = Never /\ owed = Never

------------------------------------------------------------------------------
(* What a ping that passed the gate computes, from what it has loaded.     *)

\* The ticks in s seconds, and Math.round of t ticks to seconds.
Ticks(s)   == s * Second
Rounded(t) == (2 * t + Second) \div (2 * Second)

\* Faulty variant: the wall clock is not consulted.
EffectiveUnclamped(p) == Rounded(delta[p])

\* Faulty variant: a clock that went backwards is not cut to zero.
EffectiveSigned(p) ==
  Rounded(IF known[p] THEN Lesser(delta[p], at[p] - sess[p].lastPing) ELSE delta[p])

\* effective: the client's delta, cut to the wall clock since lastPing, rounded.
Effective(p) ==
  Rounded(IF known[p] THEN Greater(0, Lesser(delta[p], at[p] - sess[p].lastPing))
                      ELSE delta[p])

NewSeconds(p) == Lesser(sess[p].seconds + Effective(p), MaxDaily)

\* A break that has just ended restarts the work block.
BlockStart(p) ==
  IF \/ sess[p].block = Never
     \/ sess[p].brk # Never /\ at[p] >= sess[p].brk
  THEN at[p] ELSE sess[p].block

CapHit(p)   == policy.cap > 0 /\ NewSeconds(p) >= policy.cap
BlockHit(p) == ~CapHit(p) /\ policy.block > 0 /\ at[p] - BlockStart(p) >= policy.block
BreakHit(p) == BlockHit(p) /\ policy.brk > 0

\* The session the ping leaves behind.
Outcome(p) ==
  [seconds  |-> NewSeconds(p),
   lastPing |-> at[p],
   block    |-> IF CapHit(p) \/ BreakHit(p) THEN Never
                ELSE IF BlockHit(p) THEN at[p] ELSE BlockStart(p),
   brk      |-> IF BreakHit(p) THEN at[p] + policy.brk ELSE Never,
   cap      |-> IF CapHit(p) THEN at[p] ELSE Never]

\* Faulty variant: the cap is recomputed from the seconds, off by one.
CapGateBySeconds(p) ==
  known[p] /\ policy.cap > 0 /\ sess[p].seconds > policy.cap

\* The gate: locked for the day, or in a break.
CapGate(p) ==
  /\ known[p]
  /\ \/ sess[p].cap # Never
     \/ policy.cap > 0 /\ sess[p].seconds >= policy.cap
BreakGate(p) == known[p] /\ sess[p].brk # Never /\ at[p] < sess[p].brk
GateOpen(p)  == ~CapGate(p) /\ ~BreakGate(p)

------------------------------------------------------------------------------
(* recordPing, one action per await.                                       *)

At(p, step)   == pc[p] = step
Goto(p, step) == pc' = [pc EXCEPT ![p] = step]

\* The handler returns and its locals are gone.
Return(p) ==
  /\ Goto(p, "idle")
  /\ at' = [at EXCEPT ![p] = Never]
  /\ delta' = [delta EXCEPT ![p] = 0]
  /\ known' = [known EXCEPT ![p] = FALSE]
  /\ sess' = [sess EXCEPT ![p] = Blank]
  /\ seen' = [seen EXCEPT ![p] = 0]

\* The handler has computed the session it leaves behind.
Decided(p, step) ==
  /\ Goto(p, step)
  /\ sess' = [sess EXCEPT ![p] = Outcome(p)]
  /\ delta' = [delta EXCEPT ![p] = 0]
  /\ UNCHANGED <<at, known>>

\* today and the clock are read.
PingStart(p) ==
  /\ At(p, "idle")
  /\ \E d \in 0..Ticks(MaxPing) : delta' = [delta EXCEPT ![p] = d]
  /\ at' = [at EXCEPT ![p] = now]
  /\ Goto(p, "load")
  /\ UNCHANGED <<clock, stores, known, sess, seen, flush, hist>>

PingLoadCache(p) ==
  /\ At(p, "load")
  /\ known' = [known EXCEPT ![p] = cached]
  /\ sess' = [sess EXCEPT ![p] = IF cached THEN cache ELSE Blank]
  /\ Goto(p, IF cached THEN "decide" ELSE "row")
  /\ UNCHANGED <<clock, stores, at, delta, seen, flush, hist>>

PingLoadRow(p) ==
  /\ At(p, "row")
  /\ known' = [known EXCEPT ![p] = rowExists]
  /\ sess' = [sess EXCEPT ![p] = IF rowExists THEN row ELSE Blank]
  /\ Goto(p, IF rowExists THEN "pend" ELSE "decide")
  /\ UNCHANGED <<clock, stores, at, delta, seen, flush, hist>>

PingLoadPending(p) ==
  /\ At(p, "pend")
  /\ sess' = [sess EXCEPT ![p].seconds = @ + pend]
  /\ Goto(p, "decide")
  /\ UNCHANGED <<clock, stores, at, delta, known, seen, flush, hist>>

\* 'cap' already recorded, or 'break': answered without a write.
PingRefused(p) ==
  /\ At(p, "decide")
  /\ IF CapGate(p) THEN sess[p].cap # Never ELSE BreakGate(p)
  /\ Return(p)
  /\ UNCHANGED <<clock, stores, flush, hist>>

\* The seconds are at the cap but nobody recorded it (a lowered cap).
PingLateCap(p) ==
  /\ At(p, "decide") /\ CapGate(p) /\ sess[p].cap = Never
  /\ row' = [row EXCEPT !.cap = at[p]]
  /\ sess' = [sess EXCEPT ![p].cap = at[p]]
  /\ Goto(p, "store")
  /\ UNCHANGED <<clock, rowExists, cached, cache, pend, at, delta, known,
                 seen, flush, hist>>

\* First ping of the day: the row is created, blockStartedAt always now.
PingCreate(p) ==
  /\ At(p, "decide") /\ ~known[p] /\ ~rowExists
  /\ rowExists' = TRUE
  /\ row' = [Outcome(p) EXCEPT !.seconds = Effective(p), !.block = at[p]]
  /\ credited' = credited + Effective(p)
  /\ first' = at[p]
  /\ Decided(p, "store")
  /\ UNCHANGED <<clock, cached, cache, pend, seen, flush, losses, owed>>

\* The unique key (student, day) refuses a second row; the ping re-reads
\* the winner's row for its id only, and its own seconds are not persisted.
PingCreateRefused(p) ==
  /\ At(p, "decide") /\ ~known[p] /\ rowExists
  /\ Decided(p, "store")
  /\ UNCHANGED <<clock, stores, seen, flush, hist>>

\* Faulty variant: only the seconds are written through, so the break lives
\* in the cache alone.
PingWriteThroughSecondsOnly(p) ==
  /\ At(p, "decide") /\ known[p] /\ GateOpen(p)
  /\ CapHit(p) \/ BreakHit(p)
  /\ row' = [row EXCEPT !.seconds = NewSeconds(p), !.lastPing = at[p]]
  /\ credited' = credited + Effective(p)
  /\ owed' = Greater(owed, Outcome(p).brk)
  /\ Decided(p, "clear")
  /\ UNCHANGED <<clock, rowExists, cached, cache, pend, seen, flush, losses, first>>

\* Break or cap: written through to the row, whatever the row now holds.
PingWriteThrough(p) ==
  /\ At(p, "decide") /\ known[p] /\ GateOpen(p)
  /\ CapHit(p) \/ BreakHit(p)
  /\ row' = Outcome(p)
  /\ credited' = credited + Effective(p)
  /\ Decided(p, "clear")
  /\ owed' = Greater(owed, Outcome(p).brk)
  /\ UNCHANGED <<clock, rowExists, cached, cache, pend, seen, flush, losses, first>>

\* Faulty variant: the buffer survives the write-through.
PingClearPendingKeeps(p) ==
  /\ At(p, "clear")
  /\ Goto(p, "store")
  /\ UNCHANGED <<clock, stores, locals, flush, hist>>

PingClearPending(p) ==
  /\ At(p, "clear")
  /\ pend' = 0
  /\ Goto(p, "store")
  /\ UNCHANGED <<clock, rowExists, row, cached, cache, locals, flush, hist>>

\* A normal ping: read the buffer, then write it back increased.
PingReadPending(p) ==
  /\ At(p, "decide") /\ known[p] /\ GateOpen(p)
  /\ ~CapHit(p) /\ ~BreakHit(p)
  /\ seen' = [seen EXCEPT ![p] = pend + Effective(p)]
  /\ credited' = credited + Effective(p)
  /\ Decided(p, "buffer")
  /\ UNCHANGED <<clock, stores, flush, losses, first, owed>>

PingBuffer(p) ==
  /\ At(p, "buffer")
  /\ pend' = seen[p]
  /\ Goto(p, "store")
  /\ UNCHANGED <<clock, rowExists, row, cached, cache, locals, flush, hist>>

PingStore(p) ==
  /\ At(p, "store")
  /\ cached' = TRUE /\ cache' = sess[p]
  /\ Return(p)
  /\ UNCHANGED <<clock, rowExists, row, pend, flush, hist>>

Ping(p) ==
  \/ PingStart(p) \/ PingLoadCache(p) \/ PingLoadRow(p) \/ PingLoadPending(p)
  \/ PingRefused(p) \/ PingLateCap(p)
  \/ PingCreate(p) \/ PingCreateRefused(p)
  \/ PingWriteThrough(p) \/ PingClearPending(p)
  \/ PingReadPending(p) \/ PingBuffer(p) \/ PingStore(p)

------------------------------------------------------------------------------
(* flushPendingToDb: only rows of today, only positive snapshots.          *)

FlushRead ==
  /\ fpc = "idle"
  /\ now % FlushEvery = 0 /\ flushedAt # now
  /\ rowExists /\ pend > 0
  /\ flushedAt' = now
  /\ snapshot' = pend
  /\ fpc' = "increment"
  /\ UNCHANGED <<clock, stores, pc, locals, current, hist>>

FlushIncrement ==
  /\ fpc = "increment"
  /\ row' = [row EXCEPT !.seconds = @ + snapshot, !.lastPing = now]
  /\ fpc' = "reread"
  /\ UNCHANGED <<clock, rowExists, cached, cache, pend, pc, locals, flushedAt,
                 snapshot, current, hist>>

\* An absent key reads as the snapshot.
FlushReread ==
  /\ fpc = "reread"
  /\ current' = IF pend = 0 THEN snapshot ELSE pend
  /\ fpc' = "settle"
  /\ UNCHANGED <<clock, stores, pc, locals, flushedAt, snapshot, hist>>

FlushSettle ==
  /\ fpc = "settle"
  /\ pend' = Greater(0, current - snapshot)
  /\ fpc' = "idle" /\ snapshot' = 0 /\ current' = 0
  /\ UNCHANGED <<clock, rowExists, row, cached, cache, pc, locals,
                 flushedAt, hist>>

Flush == FlushRead \/ FlushIncrement \/ FlushReread \/ FlushSettle

------------------------------------------------------------------------------
(* The environment.                                                        *)

Tick ==
  /\ now < Horizon
  /\ now' = now + 1
  /\ UNCHANGED <<policy, stores, pc, locals, flush, hist>>

SetPolicy ==
  /\ policy' \in Policies \ {policy}
  /\ UNCHANGED <<now, stores, pc, locals, flush, hist>>

\* The session key expires; every real expiry is SessionTTL after lastPing
\* or later.
SessionExpire ==
  /\ cached /\ now - cache.lastPing >= SessionTTL
  /\ cached' = FALSE /\ cache' = Blank
  /\ UNCHANGED <<clock, rowExists, row, pend, pc, locals, flush, hist>>

\* The cache restarts empty: session and buffer are gone together.
CacheLost ==
  /\ losses < MaxLosses /\ losses' = losses + 1
  /\ cached \/ pend > 0
  /\ cached' = FALSE /\ cache' = Blank /\ pend' = 0
  /\ credited' = credited - pend
  /\ UNCHANGED <<clock, rowExists, row, pc, locals, flush, first, owed>>

TwoPings  == \E p, q \in Pings : p # q /\ ~At(p, "idle") /\ ~At(q, "idle")
PingFlush == fpc # "idle" /\ \E p \in Pings : ~At(p, "idle")

\* Two pings of one student (two tabs) are worse than a ping and the flush.
Overlapping ==
  IF overlap = "pings" \/ TwoPings' THEN "pings"
  ELSE IF overlap = "flush" \/ PingFlush' THEN "flush"
  ELSE "none"

Next ==
  \/ (Flush \/ \E p \in Pings : Ping(p)) /\ overlap' = Overlapping
  \/ /\ CacheLost
     /\ overlap' = IF overlap = "none" /\ ~Quiet THEN "flush" ELSE overlap
  \/ (Tick \/ SetPolicy \/ SessionExpire) /\ UNCHANGED overlap

Spec == Init /\ [][Next]_vars

------------------------------------------------------------------------------
(* Properties.                                                             *)

StateOK ==
  /\ now \in Nat \ {0} /\ policy \in Policies
  /\ rowExists \in BOOLEAN /\ row \in Session
  /\ cached \in BOOLEAN /\ cache \in Session /\ pend \in Nat
  /\ pc \in [Pings -> Steps]
  /\ at \in [Pings -> Nat]
  /\ delta \in [Pings -> 0..Ticks(MaxPing)]
  /\ known \in [Pings -> BOOLEAN]
  /\ sess \in [Pings -> Session]
  /\ seen \in [Pings -> Nat]
  /\ fpc \in {"idle", "increment", "reread", "settle"}
  /\ flushedAt \in Nat /\ snapshot \in Nat /\ current \in Nat
  /\ losses \in Nat /\ credited \in Int /\ first \in Nat /\ owed \in Nat

\* Every variable stays in its type: in particular a ping never credits a
\* negative amount, however far the clock it read lies behind lastPingAt.
TypeOK == StateOK /\ overlap \in {"none", "flush", "pings"}

\* What the day holds when no handler runs: the row plus the buffer.
Recorded == row.seconds + pend

\* While no handler runs, the row and the buffer together hold exactly what
\* pings were credited, less what went with a lost cache.  (Until the daily
\* maximum, where newSeconds is clamped.)
Conservation == Quiet /\ credited <= MaxDaily => Recorded = credited

\* The day holds at most twice the time since the first ping, and the one delta
\* that had no predecessor.  Twice, since half a second of the clock is rounded
\* up to a second: pings half a second apart are credited a second each.
CounterBelowClock ==
  Quiet /\ rowExists => Ticks(Recorded) <= 2 * (now - first) + Ticks(MaxPing)

\* As long as pings, the flush and cache losses do not overlap, no second is
\* counted twice or dropped, and the counter never runs ahead of twice the
\* clock - rounding is all that it may gain, however often the session expires,
\* is reloaded or lost (recordPing, flushPendingToDb).
SecondsAgree == overlap = "none" => Conservation /\ CounterBelowClock

\* Seconds buffered while the flush runs are kept (comment at the flush:
\* "keep any seconds added by pings during flush").
NothingDropped ==
  Quiet /\ credited <= MaxDaily => Recorded >= credited

\* Reaching the cap locks the day: the mark is never removed, and no second
\* is credited while the row carries it - not even through a session that
\* expired or was lost and reloaded, whatever the flush does meanwhile.
CapLocksDay ==
  [][row.cap # Never /\ overlap # "pings" => row'.cap # Never /\ credited' <= credited]_vars

\* A forced break is served: a ping taken before the end of a break that was
\* imposed is never credited, wherever its session came from and whatever
\* the flush does meanwhile.
BreakServed ==
  [][\A p \in Pings :
       credited' > credited /\ pc[p] # pc'[p] /\ overlap # "pings" => at[p] >= owed]_vars
=============================================================================
