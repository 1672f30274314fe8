--------------------------- MODULE StudyTime_proofs ---------------------------
(* What holds of StudyTime for every number of pings, every set of policies  *)
(* and every value of the limits: the types, that the seconds add up, that   *)
(* the cap is kept and that breaks are served.  The last three rest on the   *)
(* invariant Streams: OneStream while no two pings have been under way       *)
(* together, and Counted as long as nothing has overlapped.                  *)
EXTENDS StudyTime, TLAPS

\* The quotient of a division and what it leaves.
LEMMA DivFact ==
  ASSUME NEW a \in Nat, NEW b \in Nat \ {0}
  PROVE  a \div b \in Nat /\ b * (a \div b) <= a
OBVIOUS

\* Seconds add up in ticks, and more of them are more ticks.
LEMMA TicksNat == ASSUME NEW s \in Nat PROVE Ticks(s) \in Nat
BY ConstantsAssumption DEF Ticks

LEMMA TicksAdd == ASSUME NEW s \in Nat, NEW u \in Nat PROVE Ticks(s + u) = Ticks(s) + Ticks(u)
BY ConstantsAssumption DEF Ticks

LEMMA TicksMono == ASSUME NEW s \in Nat, NEW u \in Nat, s <= u PROVE Ticks(s) <= Ticks(u)
<1>1. PICK d \in Nat : u = s + d
  <2>1. u - s \in Nat /\ u = s + (u - s)
    OBVIOUS
  <2> QED
    BY <2>1
<1>2. Ticks(u) = Ticks(s) + Ticks(d)
  BY <1>1, TicksAdd
<1> QED
  BY <1>2, TicksNat

LEMMA TicksMax == MaxPing \in Nat /\ Ticks(MaxPing) \in Nat
BY TicksNat, ConstantsAssumption

\* Rounding makes at most twice as much of it ...
LEMMA RoundedTwice ==
  ASSUME NEW t \in Nat
  PROVE  Rounded(t) \in Nat /\ Ticks(Rounded(t)) <= 2 * t
<1>1. 2 * Second \in Nat \ {0} /\ 2 * t + Second \in Nat
  BY ConstantsAssumption
<1>2. Rounded(t) \in Nat /\ (2 * Second) * Rounded(t) <= 2 * t + Second
  BY <1>1, DivFact DEF Rounded
<1>3. CASE Rounded(t) = 0
  BY <1>3, ConstantsAssumption DEF Ticks
<1>4. CASE Rounded(t) >= 1
  <2> DEFINE P == Second * Rounded(t)
  <2>1. P \in Nat /\ P >= Second
    BY <1>2, <1>4, ConstantsAssumption
  <2>2. 2 * P <= 2 * t + Second
    BY <1>2, ConstantsAssumption
  <2>3. Ticks(Rounded(t)) = P
    BY <1>2, ConstantsAssumption DEF Ticks
  <2> HIDE DEF P
  <2> QED
    BY <1>2, <2>1, <2>2, <2>3, ConstantsAssumption
<1> QED
  BY <1>2, <1>3, <1>4

\* ... and leaves whole seconds as they are.
LEMMA RoundedBound ==
  ASSUME NEW m \in Nat, NEW t \in 0..Ticks(m)
  PROVE  Rounded(t) <= m
<1>1. 2 * Second \in Nat \ {0} /\ 2 * t + Second \in Nat /\ t <= m * Second
  BY ConstantsAssumption DEF Ticks
<1>2. Rounded(t) \in Nat /\ (2 * Second) * Rounded(t) <= 2 * t + Second
  BY <1>1, DivFact DEF Rounded
<1>3. SUFFICES ASSUME Rounded(t) >= m + 1 PROVE FALSE
  BY <1>2
<1>4. Second * Rounded(t) >= Second * (m + 1)
  BY <1>2, <1>3, ConstantsAssumption
<1>5. Second * (m + 1) = m * Second + Second
  BY ConstantsAssumption
<1>6. (2 * Second) * Rounded(t) = 2 * (Second * Rounded(t))
  BY <1>2, ConstantsAssumption
<1> QED
  BY <1>1, <1>2, <1>4, <1>5, <1>6, ConstantsAssumption

\* The ticks a ping rounds: the client's delta or less.
Measured(p) ==
  IF known[p] THEN Greater(0, Lesser(delta[p], at[p] - sess[p].lastPing)) ELSE delta[p]

LEMMA MeasuredBound ==
  ASSUME StateOK, NEW p \in Pings
  PROVE  Measured(p) \in 0..Ticks(MaxPing) /\ Effective(p) = Rounded(Measured(p))
<1>1. Ticks(MaxPing) \in Nat
  BY TicksNat, ConstantsAssumption
<1> QED
  BY <1>1 DEF StateOK, Session, Effective, Measured, Lesser, Greater

\* The credit of a ping is never negative and never more than MAX_PING_SECONDS.
LEMMA EffectiveBound ==
  ASSUME StateOK, NEW p \in Pings
  PROVE  Effective(p) \in 0..MaxPing
<1>1. Measured(p) \in Nat
  BY MeasuredBound, TicksNat, ConstantsAssumption
<1> QED
  BY <1>1, MeasuredBound, RoundedTwice, RoundedBound, ConstantsAssumption

\* The session a ping leaves behind is a session.
LEMMA OutcomeType ==
  ASSUME StateOK, NEW p \in Pings
  PROVE  Outcome(p) \in Session
<1>1. Effective(p) \in Nat
  BY EffectiveBound, ConstantsAssumption
<1>2. NewSeconds(p) \in Nat
  BY <1>1, ConstantsAssumption DEF StateOK, Session, NewSeconds, Lesser
<1>3. BlockStart(p) \in Nat
  BY DEF StateOK, Session, BlockStart, Never
<1>4. policy.brk \in Nat /\ at[p] \in Nat
  BY ConstantsAssumption DEF StateOK
<1> QED
  BY <1>2, <1>3, <1>4 DEF Session, Outcome, Never

\* The session of a ping that found none is a session.
LEMMA BlankType == Blank \in Session
BY DEF Blank, Session, Never

\* Every variable of the study-time engine stays in its type.
THEOREM TypeCorrect == Spec => []TypeOK
<1>1. Init => TypeOK
  <2> SUFFICES ASSUME Init PROVE TypeOK
    OBVIOUS
  <2>1. now \in Nat \ {0} /\ policy \in Policies
    BY DEF Init
  <2>9. overlap \in {"none", "flush", "pings"}
    BY DEF Init
  <2>2. rowExists \in BOOLEAN /\ row \in Session
    BY BlankType DEF Init
  <2>3. cached \in BOOLEAN
    BY DEF Init
  <2>4. cache \in Session /\ pend \in Nat
    BY BlankType DEF Init
  <2>5. /\ pc \in [Pings -> Steps]
        /\ at \in [Pings -> Nat]
        /\ delta \in [Pings -> 0..Ticks(MaxPing)]
        /\ known \in [Pings -> BOOLEAN]
        /\ seen \in [Pings -> Nat]
    BY TicksNat, ConstantsAssumption DEF Init, Steps, Never
  <2>6. sess \in [Pings -> Session]
    BY BlankType DEF Init
  <2>7. fpc \in {"idle", "increment", "reread", "settle"}
    BY DEF Init
  <2>8. /\ flushedAt \in Nat /\ snapshot \in Nat /\ current \in Nat
        /\ losses \in Nat /\ credited \in Int /\ first \in Nat /\ owed \in Nat
    BY DEF Init, Never
  <2> QED
    BY <2>1, <2>2, <2>3, <2>4, <2>5, <2>6, <2>7, <2>8, <2>9 DEF StateOK, TypeOK
<1>2. TypeOK /\ [Next]_vars => TypeOK'
  <2> SUFFICES ASSUME TypeOK, [Next]_vars PROVE TypeOK'
    OBVIOUS
  <2>0. StateOK /\ overlap \in {"none", "flush", "pings"}
    BY DEF TypeOK
  <2>. USE <2>0 DEF StateOK, Steps, clock, stores, locals, flush, hist, Goto, At
  <2>1. ASSUME NEW p \in Pings, Ping(p) PROVE StateOK'
    <3>1. CASE PingStart(p)
      BY <3>1 DEF PingStart
    <3>2. CASE PingLoadCache(p)
      BY <3>2, BlankType DEF PingLoadCache
    <3>3. CASE PingLoadRow(p)
      BY <3>3, BlankType DEF PingLoadRow
    <3>4. CASE PingLoadPending(p)
      BY <3>4 DEF PingLoadPending, Session
    <3>5. CASE PingRefused(p)
      BY <3>5, BlankType, TicksMax DEF PingRefused, Return, Never
    <3>6. CASE PingLateCap(p)
      BY <3>6 DEF PingLateCap, Session
    <3>7. CASE PingCreate(p)
      <4>1. Outcome(p) \in Session /\ Effective(p) \in Nat /\ at[p] \in Nat
        <5>1. Effective(p) \in 0..MaxPing
          BY EffectiveBound
        <5> HIDE DEF StateOK
        <5>2. Outcome(p) \in Session
          BY OutcomeType, <2>0
        <5> USE DEF StateOK
        <5> QED
          BY <5>1, <5>2, TicksMax
      <4>2. [Outcome(p) EXCEPT !.seconds = Effective(p), !.block = at[p]] \in Session
        BY <4>1 DEF Session
      <4> QED
        BY <3>7, <4>1, <4>2, TicksMax DEF PingCreate, Decided
    <3>8. CASE PingCreateRefused(p)
      BY <3>8, OutcomeType, TicksMax DEF PingCreateRefused, Decided
    <3>9. CASE PingWriteThrough(p)
      <4>1. Greater(owed, Outcome(p).brk) \in Nat
        BY OutcomeType DEF Session, Greater
      <4> QED
        BY <3>9, <4>1, EffectiveBound, OutcomeType, TicksMax
        DEF PingWriteThrough, Decided
    <3>10. CASE PingClearPending(p)
      BY <3>10 DEF PingClearPending
    <3>11. CASE PingReadPending(p)
      BY <3>11, EffectiveBound, OutcomeType, TicksMax
      DEF PingReadPending, Decided
    <3>12. CASE PingBuffer(p)
      BY <3>12 DEF PingBuffer
    <3>13. CASE PingStore(p)
      BY <3>13, BlankType, TicksMax DEF PingStore, Return, Never
    <3> QED
      BY <2>1, <3>1, <3>2, <3>3, <3>4, <3>5, <3>6, <3>7, <3>8, <3>9, <3>10,
         <3>11, <3>12, <3>13 DEF Ping
  <2>2. ASSUME Flush PROVE StateOK'
    <3>1. CASE FlushRead
      BY <3>1 DEF FlushRead
    <3>2. CASE FlushIncrement
      <4>1. row \in Session /\ row.seconds + snapshot \in Nat /\ now \in Nat
        BY DEF Session
      <4>2. row' = [row EXCEPT !.seconds = row.seconds + snapshot, !.lastPing = now]
        BY <3>2 DEF FlushIncrement
      <4>3. row' \in Session
        BY <4>1, <4>2 DEF Session
      <4> QED
        BY <3>2, <4>3 DEF FlushIncrement
    <3>3. CASE FlushReread
      BY <3>3 DEF FlushReread
    <3>4. CASE FlushSettle
      BY <3>4 DEF FlushSettle, Greater
    <3> QED
      BY <2>2, <3>1, <3>2, <3>3, <3>4 DEF Flush
  <2>3. ASSUME Tick PROVE StateOK'
    BY <2>3 DEF Tick
  <2>5. ASSUME SetPolicy PROVE StateOK'
    BY <2>5 DEF SetPolicy
  <2>6. ASSUME SessionExpire PROVE StateOK'
    BY <2>6, BlankType DEF SessionExpire
  <2>7. ASSUME CacheLost PROVE StateOK'
    <3>1. credited' \in Int /\ losses' \in Nat /\ cache' \in Session /\ pend' \in Nat
      BY <2>7, BlankType DEF CacheLost
    <3>2. cached' \in BOOLEAN
      BY <2>7 DEF CacheLost
    <3> QED
      BY <2>7, <3>1, <3>2 DEF CacheLost
  <2>8. ASSUME UNCHANGED vars PROVE StateOK'
    BY <2>8 DEF vars
  <2>9. StateOK'
    <3> HIDE DEF StateOK
    <3> QED
      BY <2>1, <2>2, <2>3, <2>5, <2>6, <2>7, <2>8 DEF Next
  <2>10. overlap' \in {"none", "flush", "pings"}
    BY DEF Next, Overlapping, vars
  <2> QED
    BY <2>9, <2>10 DEF TypeOK
<1> QED
  BY <1>1, <1>2, PTL DEF Spec
------------------------------------------------------------------------------
(* One heartbeat stream: no two pings have been under way together.  The     *)
(* flush and the losses of the cache come as they like.                      *)

Deciding(p) == pc[p] = "decide" /\ known[p]
Leaving(p)  == pc[p] \in {"clear", "buffer", "store"}

\* There is one ping at a time, and it read the clock when it began.
OnePing ==
  /\ \A p, q \in Pings : pc[p] # "idle" /\ pc[q] # "idle" => p = q
  /\ \A p \in Pings : pc[p] # "idle" => at[p] \in 1..now

\* Before the row of the day there is nothing; a lone ping knows of the row.
Born ==
  IF rowExists
  THEN \A p \in Pings : pc[p] \in {"pend", "decide"} => known[p]
  ELSE /\ row = Blank /\ ~cached /\ pend = 0 /\ fpc = "idle"
       /\ owed = Never /\ credited = 0
       /\ \A p \in Pings :
            /\ pc[p] \in {"idle", "load", "row", "decide"}
            /\ pc[p] = "decide" => ~known[p] /\ sess[p] = Blank

\* The cap on the row is in every session that was or will be loaded.
CapSeen ==
  row.cap # Never =>
    /\ \A p \in Pings : pc[p] = "pend" \/ Deciding(p) \/ Leaving(p) => sess[p].cap # Never
    /\ cached /\ (\A p \in Pings : ~Leaving(p)) => cache.cap # Never

\* The break that is owed is over, or on the row and in the cached session ...
BreakKept(t) ==
  owed <= t \/ (row.brk = owed /\ (cached => cache.brk = owed))

\* ... and a ping that came before its end finds it in the session it loaded.
BreakSeen ==
  /\ (\A p \in Pings : pc[p] = "idle") => BreakKept(now)
  /\ \A p \in Pings :
       /\ pc[p] \in {"load", "row", "pend", "decide"} => BreakKept(at[p])
       /\ pc[p] = "pend" \/ Deciding(p) => owed <= at[p] \/ sess[p].brk = owed
       /\ Leaving(p) => owed <= at[p] \/ (row.brk = owed /\ sess[p].brk = owed)

OneStream == OnePing /\ Born /\ CapSeen /\ BreakSeen

------------------------------------------------------------------------------
(* Nothing overlaps: the ping and the flush do not run together either.      *)

\* The row and what will be in the buffer are what was credited, or more was
\* credited without the buffer than a day holds.
Balanced(buffer) ==
  row.seconds + buffer = credited \/ credited - buffer > MaxDaily

\* A session counts what was credited, up to what a day holds.
Counts(seconds) == credited <= MaxDaily => seconds = credited

Moving == \E p \in Pings : pc[p] \in {"clear", "buffer"}

Sums ==
  /\ ~Moving => Balanced(IF fpc \in {"reread", "settle"} THEN 0 ELSE pend)
  /\ cached /\ (\A p \in Pings : ~Leaving(p)) => Counts(cache.seconds)
  /\ \A p \in Pings :
       /\ pc[p] = "pend" => sess[p] = row
       /\ Deciding(p) \/ Leaving(p) => Counts(sess[p].seconds)
       /\ pc[p] = "clear" => sess[p] = row /\ Balanced(0)
       /\ pc[p] = "buffer" => Balanced(seen[p])

\* Seconds are covered by twice the clock, or by twice the time of the last ping
\* and one delta without a predecessor.
Paid(seconds, last) ==
  \/ Ticks(seconds) <= 2 * (now - first)
  \/ Ticks(seconds) <= 2 * (last - first) + Ticks(MaxPing)

\* What a ping taken at t may credit on top of a session is covered too: it was
\* covered at t, or the clock has gone on for a delta more.
Ready(seconds, last, t) ==
  \/ Ticks(seconds) <= 2 * (t - first)
  \/ Ticks(seconds) <= 2 * (last - first) + Ticks(MaxPing)
  \/ Ticks(seconds) + Ticks(MaxPing) <= 2 * (now - first)

Last  == IF cached THEN cache.lastPing ELSE row.lastPing
Total == row.seconds + (IF fpc \in {"reread", "settle"} THEN 0 ELSE pend)

Resting ==
  (\A p \in Pings : pc[p] = "idle") =>
    /\ Paid(Total, Last)
    /\ cached => Paid(cache.seconds, cache.lastPing)

Loading(p) ==
  pc[p] \in {"load", "row", "pend", "decide"} =>
    /\ Ready(Total, Last, at[p]) /\ row.lastPing <= at[p]
    /\ cached => Ready(cache.seconds, cache.lastPing, at[p]) /\ cache.lastPing <= at[p]
    /\ pc[p] \in {"row", "pend"} => ~cached
    /\ Deciding(p) => /\ sess[p].lastPing <= at[p]
                      /\ Ready(Total, sess[p].lastPing, at[p])
                      /\ Ready(sess[p].seconds, sess[p].lastPing, at[p])

Left(p) ==
  Leaving(p) =>
    /\ sess[p].lastPing <= at[p] /\ Paid(sess[p].seconds, sess[p].lastPing)
    /\ pc[p] = "buffer" => Paid(row.seconds + seen[p], sess[p].lastPing)
    /\ pc[p] = "store" => Paid(Total, sess[p].lastPing)

Covered ==
  /\ row.lastPing <= now
  /\ cached => cache.lastPing <= now
  /\ rowExists => /\ Paid(row.seconds, row.lastPing) /\ Resting
                  /\ \A p \in Pings : Loading(p) /\ Left(p)

FlushAlone ==
  /\ fpc # "idle" => \A p \in Pings : pc[p] = "idle"
  /\ fpc # "idle" => snapshot = pend /\ pend > 0
  /\ fpc = "settle" => current = pend

Counted == FlushAlone /\ Sums /\ Covered

Streams ==
  /\ overlap # "pings" => OneStream
  /\ overlap = "none" => Counted

\* A ping of a lone stream is the only one before and after its step.
LEMMA Lone ==
  ASSUME StateOK, OnePing, NEW p \in Pings, Ping(p), ~TwoPings'
  PROVE  \A q \in Pings : q # p => pc[q] = "idle" /\ pc'[q] = "idle"
<1>1. \A q \in Pings : q # p => pc'[q] = pc[q]
  BY DEF StateOK, Ping, PingStart, PingLoadCache, PingLoadRow, PingLoadPending, PingRefused, PingLateCap,
    PingCreate, PingCreateRefused, PingWriteThrough, PingClearPending, PingReadPending, PingBuffer,
    PingStore, Return, Decided, Goto
<1>2. CASE pc[p] # "idle"
  BY <1>1, <1>2 DEF OnePing
<1>3. CASE pc[p] = "idle"
  <2>1. PingStart(p)
    BY <1>3 DEF Ping, At, PingLoadCache, PingLoadRow, PingLoadPending, PingRefused, PingLateCap,
      PingCreate, PingCreateRefused, PingWriteThrough, PingClearPending, PingReadPending, PingBuffer, PingStore
  <2>2. pc'[p] = "load"
    BY <2>1 DEF PingStart, Goto, StateOK
  <2> QED
    BY <1>1, <2>2 DEF TwoPings, At
<1> QED
  BY <1>2, <1>3

\* Its reading of the clock stays in the past.
LEMMA OnePingKept ==
  ASSUME StateOK, OneStream, NEW p \in Pings, Ping(p),
         \A q \in Pings : q # p => pc[q] = "idle" /\ pc'[q] = "idle"
  PROVE  OnePing'
<1> USE DEF StateOK, At, Goto, clock, stores, locals, flush, hist, OneStream, OnePing
<1>1. CASE PingStart(p)
  BY <1>1 DEF PingStart
<1>2. CASE PingLoadCache(p)
  BY <1>2 DEF PingLoadCache
<1>3. CASE PingLoadRow(p)
  BY <1>3 DEF PingLoadRow
<1>4. CASE PingLoadPending(p)
  BY <1>4 DEF PingLoadPending
<1>5. CASE PingRefused(p)
  BY <1>5 DEF PingRefused, Return
<1>6. CASE PingLateCap(p)
  BY <1>6 DEF PingLateCap
<1>7. CASE PingCreate(p)
  BY <1>7 DEF PingCreate, Decided
<1>8. CASE PingCreateRefused(p)
  BY <1>8 DEF PingCreateRefused, Decided
<1>9. CASE PingWriteThrough(p)
  BY <1>9 DEF PingWriteThrough, Decided
<1>10. CASE PingClearPending(p)
  BY <1>10 DEF PingClearPending
<1>11. CASE PingReadPending(p)
  BY <1>11 DEF PingReadPending, Decided
<1>12. CASE PingBuffer(p)
  BY <1>12 DEF PingBuffer
<1>13. CASE PingStore(p)
  BY <1>13 DEF PingStore, Return
<1> QED
  BY <1>1, <1>2, <1>3, <1>4, <1>5, <1>6, <1>7, <1>8, <1>9, <1>10, <1>11, <1>12, <1>13 DEF Ping

\* Only its first ping creates the row.
LEMMA BornKept ==
  ASSUME StateOK, OneStream, NEW p \in Pings, Ping(p),
         \A q \in Pings : q # p => pc[q] = "idle" /\ pc'[q] = "idle"
  PROVE  Born'
<1> USE DEF StateOK, At, Goto, clock, stores, locals, flush, hist, OneStream, OnePing, Born, Deciding
<1>1. CASE PingStart(p)
  BY <1>1 DEF PingStart
<1>2. CASE PingLoadCache(p)
  BY <1>2 DEF PingLoadCache
<1>3. CASE PingLoadRow(p)
  BY <1>3 DEF PingLoadRow
<1>4. CASE PingLoadPending(p)
  BY <1>4 DEF PingLoadPending
<1>5. CASE PingRefused(p)
  BY <1>5 DEF PingRefused, Return
<1>6. CASE PingLateCap(p)
  BY <1>6 DEF PingLateCap, CapGate
<1>7. CASE PingCreate(p)
  BY <1>7 DEF PingCreate, Decided, Blank, Never
<1>8. CASE PingCreateRefused(p)
  BY <1>8 DEF PingCreateRefused, Decided
<1>9. CASE PingWriteThrough(p)
  BY <1>9 DEF PingWriteThrough, Decided
<1>10. CASE PingClearPending(p)
  BY <1>10 DEF PingClearPending
<1>11. CASE PingReadPending(p)
  BY <1>11 DEF PingReadPending, Decided
<1>12. CASE PingBuffer(p)
  BY <1>12 DEF PingBuffer
<1>13. CASE PingStore(p)
  BY <1>13 DEF PingStore, Return
<1> QED
  BY <1>1, <1>2, <1>3, <1>4, <1>5, <1>6, <1>7, <1>8, <1>9, <1>10, <1>11, <1>12, <1>13 DEF Ping

\* What marks the cap marks the session that is stored.
LEMMA CapSeenKept ==
  ASSUME StateOK, OneStream, NEW p \in Pings, Ping(p),
         \A q \in Pings : q # p => pc[q] = "idle" /\ pc'[q] = "idle"
  PROVE  CapSeen'
<1> USE DEF StateOK, At, Goto, clock, stores, locals, flush, hist, OneStream, OnePing, Born, CapSeen, Deciding, Leaving, Never
<1>1. CASE PingStart(p)
  BY <1>1 DEF PingStart
<1>2. CASE PingLoadCache(p)
  BY <1>2 DEF PingLoadCache
<1>3. CASE PingLoadRow(p)
  BY <1>3 DEF PingLoadRow, Blank
<1>4. CASE PingLoadPending(p)
  BY <1>4 DEF PingLoadPending
<1>5. CASE PingRefused(p)
  BY <1>5 DEF PingRefused, Return
<1>6. CASE PingLateCap(p)
  BY <1>6 DEF PingLateCap
<1>7. CASE PingCreate(p)
  BY <1>7 DEF PingCreate, Decided, Outcome, Blank
<1>8. CASE PingCreateRefused(p)
  BY <1>8 DEF PingCreateRefused, Decided
<1>9. CASE PingWriteThrough(p)
  BY <1>9 DEF PingWriteThrough, Decided, GateOpen, CapGate, Outcome
<1>10. CASE PingClearPending(p)
  BY <1>10 DEF PingClearPending
<1>11. CASE PingReadPending(p)
  BY <1>11 DEF PingReadPending, Decided, GateOpen, CapGate, Outcome
<1>12. CASE PingBuffer(p)
  BY <1>12 DEF PingBuffer
<1>13. CASE PingStore(p)
  BY <1>13 DEF PingStore, Return
<1> QED
  BY <1>1, <1>2, <1>3, <1>4, <1>5, <1>6, <1>7, <1>8, <1>9, <1>10, <1>11, <1>12, <1>13 DEF Ping

\* What imposes a break puts it on the row and in the session that is stored.
LEMMA BreakSeenKept ==
  ASSUME StateOK, OneStream, NEW p \in Pings, Ping(p),
         \A q \in Pings : q # p => pc[q] = "idle" /\ pc'[q] = "idle"
  PROVE  BreakSeen'
<1> USE DEF StateOK, At, Goto, clock, stores, locals, flush, hist, OneStream, OnePing, Born, BreakSeen, BreakKept, Deciding, Leaving, Never
<1>1. CASE PingStart(p)
  BY <1>1 DEF PingStart
<1>2. CASE PingLoadCache(p)
  BY <1>2 DEF PingLoadCache
<1>3. CASE PingLoadRow(p)
  BY <1>3 DEF PingLoadRow, Blank
<1>4. CASE PingLoadPending(p)
  BY <1>4 DEF PingLoadPending
<1>5. CASE PingRefused(p)
  BY <1>5 DEF PingRefused, Return
<1>6. CASE PingLateCap(p)
  BY <1>6 DEF PingLateCap
<1>7. CASE PingCreate(p)
  BY <1>7 DEF PingCreate, Decided, Outcome, Blank
<1>8. CASE PingCreateRefused(p)
  BY <1>8 DEF PingCreateRefused, Decided
<1>9. CASE PingWriteThrough(p)
  BY <1>9 DEF PingWriteThrough, Decided, GateOpen, BreakGate, Outcome, Greater, BreakHit, Session
<1>10. CASE PingClearPending(p)
  BY <1>10 DEF PingClearPending
<1>11. CASE PingReadPending(p)
  BY <1>11 DEF PingReadPending, Decided, GateOpen, BreakGate, Outcome
<1>12. CASE PingBuffer(p)
  BY <1>12 DEF PingBuffer
<1>13. CASE PingStore(p)
  BY <1>13 DEF PingStore, Return
<1> QED
  BY <1>1, <1>2, <1>3, <1>4, <1>5, <1>6, <1>7, <1>8, <1>9, <1>10, <1>11, <1>12, <1>13 DEF Ping

------------------------------------------------------------------------------
(* A ping while the flush is not at work.                                    *)

\* What it leaves on the row, in the buffer and in its session is what was credited.
LEMMA SumsKept ==
  ASSUME StateOK, OneStream, Counted, fpc = "idle", NEW p \in Pings, Ping(p),
         \A q \in Pings : q # p => pc[q] = "idle" /\ pc'[q] = "idle"
  PROVE  Sums'
<1> USE DEF StateOK, At, Goto, clock, stores, locals, flush, hist, OneStream, OnePing, Born, Counted, Sums, Balanced, Counts, Moving, Deciding, Leaving, Blank
<1>0. Effective(p) \in 0..MaxPing /\ MaxDaily \in Nat /\ MaxPing \in Nat
  BY EffectiveBound, ConstantsAssumption
<1>1. CASE PingStart(p)
  BY <1>1 DEF PingStart
<1>2. CASE PingLoadCache(p)
  BY <1>2 DEF PingLoadCache
<1>3. CASE PingLoadRow(p)
  BY <1>3 DEF PingLoadRow
<1>4. CASE PingLoadPending(p)
  <2>1. pc[p] = "pend" /\ pc' = [pc EXCEPT ![p] = "decide"] /\ UNCHANGED <<row, cached, cache, pend, known, seen, fpc, credited>>
    BY <1>4 DEF PingLoadPending
  <2>2. /\ sess'[p].seconds = row.seconds + pend /\ row.seconds \in Nat
        /\ \A q \in Pings : q # p => sess'[q] = sess[q]
    BY <1>4, <2>1 DEF PingLoadPending, Session
  <2>3. Balanced(pend)
    BY <2>1
  <2>4. Counts(sess'[p].seconds)
    BY <2>2, <2>3, <1>0
  <2> QED
    BY <2>1, <2>2, <2>3, <2>4
<1>5. CASE PingRefused(p)
  BY <1>5 DEF PingRefused, Return
<1>6. CASE PingLateCap(p)
  BY <1>6 DEF PingLateCap, CapGate, Session
<1>7. CASE PingCreate(p)
  BY <1>7, <1>0 DEF PingCreate, Decided, Outcome, NewSeconds, Lesser, Session
<1>8. CASE PingCreateRefused(p)
  BY <1>8 DEF PingCreateRefused, Decided
<1>9. CASE PingWriteThrough(p)
  BY <1>9, <1>0 DEF PingWriteThrough, Decided, Outcome, NewSeconds, Lesser, Session
<1>10. CASE PingClearPending(p)
  BY <1>10 DEF PingClearPending
<1>11. CASE PingReadPending(p)
  BY <1>11, <1>0 DEF PingReadPending, Decided, Outcome, NewSeconds, Lesser, Session
<1>12. CASE PingBuffer(p)
  BY <1>12 DEF PingBuffer
<1>13. CASE PingStore(p)
  BY <1>13 DEF PingStore, Return
<1> QED
  BY <1>1, <1>2, <1>3, <1>4, <1>5, <1>6, <1>7, <1>8, <1>9, <1>10, <1>11, <1>12, <1>13 DEF Ping

\* The credit is within twice the clock since the ping that the session knows of.
LEMMA EffectiveWithin ==
  ASSUME StateOK, NEW p \in Pings, known[p], sess[p].lastPing <= at[p]
  PROVE  Ticks(Effective(p)) <= 2 * (at[p] - sess[p].lastPing)
<1>1. Measured(p) \in Nat /\ Measured(p) <= at[p] - sess[p].lastPing
  <2>1. Ticks(MaxPing) \in Nat
    BY TicksNat, ConstantsAssumption
  <2>2. /\ at[p] \in Nat /\ sess[p].lastPing \in Nat
        /\ delta[p] \in Nat
    BY <2>1 DEF StateOK, Session
  <2> QED
    BY <2>2 DEF Measured, Lesser, Greater
<1>2. Ticks(Effective(p)) <= 2 * Measured(p) /\ Ticks(Effective(p)) \in Nat
  BY <1>1, MeasuredBound, RoundedTwice, TicksNat
<1>3. at[p] \in Nat /\ sess[p].lastPing \in Nat
  BY DEF StateOK, Session
<1> QED
  BY <1>1, <1>2, <1>3

\* What a session may be credited is paid for.
LEMMA CreditIsPaid ==
  ASSUME StateOK, NEW s \in Nat, NEW l \in Nat, NEW t \in Nat, Ready(s, l, t), t <= now,
         NEW e \in 0..MaxPing, Ticks(e) <= 2 * (t - l)
  PROVE  Paid(s + e, t)
<1>1. /\ Ticks(s) \in Nat /\ Ticks(e) \in Nat /\ Ticks(MaxPing) \in Nat
      /\ Ticks(s + e) = Ticks(s) + Ticks(e) /\ Ticks(e) <= Ticks(MaxPing)
      /\ now \in Nat /\ first \in Nat
  BY TicksNat, TicksAdd, TicksMono, TicksMax DEF StateOK
<1> QED
  BY <1>1 DEF Ready, Paid

\* Fewer seconds are paid for if more are, and by a later ping if by an earlier.
LEMMA LessIsPaid ==
  ASSUME StateOK, NEW s \in Nat, NEW u \in Nat, NEW l \in Nat, NEW k \in Nat,
         Paid(u, l), s <= u, l <= k
  PROVE  Paid(s, k)
<1>1. /\ Ticks(s) \in Nat /\ Ticks(u) \in Nat /\ Ticks(s) <= Ticks(u) /\ Ticks(MaxPing) \in Nat
      /\ now \in Nat /\ first \in Nat
  BY TicksNat, TicksMono, TicksMax DEF StateOK
<1> QED
  BY <1>1 DEF Paid

\* What may be credited was paid for before.
LEMMA ReadyIsPaid ==
  ASSUME StateOK, NEW s \in Nat, NEW l \in Nat, NEW t \in Nat, Ready(s, l, t), t <= now
  PROVE  Paid(s, l)
<1>1. Ticks(s) \in Nat /\ Ticks(MaxPing) \in Nat /\ now \in Nat /\ first \in Nat
  BY TicksNat, ConstantsAssumption DEF StateOK
<1> QED
  BY <1>1 DEF Ready, Paid

\* What it leaves is covered by the clock.
LEMMA CoveredKept ==
  ASSUME StateOK, OneStream, Counted, fpc = "idle", NEW p \in Pings, Ping(p),
         \A q \in Pings : q # p => pc[q] = "idle" /\ pc'[q] = "idle"
  PROVE  Covered'
<1> USE DEF StateOK, At, Goto, clock, stores, locals, flush, hist, OneStream, OnePing, Born, Counted, Covered, Resting, Loading, Left, Total, Last, Deciding, Leaving, Blank, Paid, Ready
<1>0. /\ Effective(p) \in 0..MaxPing /\ MaxDaily \in Nat /\ MaxPing \in Nat
      /\ now \in Nat /\ at[p] \in Nat /\ pend \in Nat /\ seen[p] \in Nat /\ first \in Nat
      /\ row.seconds \in Nat /\ row.lastPing \in Nat /\ cache.seconds \in Nat /\ cache.lastPing \in Nat
      /\ sess[p].seconds \in Nat /\ sess[p].lastPing \in Nat
  BY EffectiveBound, ConstantsAssumption DEF Session
<1>0a. Total = row.seconds + pend /\ Total \in Nat
  BY <1>0
<1>0b. ASSUME Deciding(p), ~CapGate(p), ~BreakGate(p)
       PROVE  /\ Outcome(p).seconds \in Nat /\ Outcome(p).lastPing = at[p]
              /\ Paid(Outcome(p).seconds, at[p]) /\ Paid(row.seconds + pend + Effective(p), at[p])
              /\ rowExists /\ at[p] <= now
  <2>1. /\ rowExists /\ at[p] <= now /\ sess[p].lastPing <= at[p] /\ known[p]
        /\ Ready(Total, sess[p].lastPing, at[p]) /\ Ready(sess[p].seconds, sess[p].lastPing, at[p])
    BY <1>0b
  <2>2. Ticks(Effective(p)) <= 2 * (at[p] - sess[p].lastPing)
    BY <2>1, EffectiveWithin
  <2>3. /\ Paid(sess[p].seconds + Effective(p), at[p])
        /\ Paid(Total + Effective(p), at[p])
    <3> HIDE DEF StateOK, Paid, Ready, Total
    <3> QED
      BY <2>1, <2>2, <1>0, <1>0a, CreditIsPaid
  <2>4. /\ Outcome(p).lastPing = at[p] /\ Outcome(p).seconds \in Nat
        /\ Outcome(p).seconds <= sess[p].seconds + Effective(p)
    BY <1>0 DEF Outcome, NewSeconds, Lesser
  <2>5. Paid(Outcome(p).seconds, at[p])
    <3>1. sess[p].seconds + Effective(p) \in Nat
      BY <1>0
    <3> HIDE DEF StateOK, Paid, Ready, Total
    <3> QED
      BY <2>3, <2>4, <3>1, <1>0, LessIsPaid
  <2> QED
    BY <2>1, <2>3, <2>4, <2>5, <1>0a
<1>1. CASE PingStart(p)
  BY <1>1 DEF PingStart
<1>2. CASE PingLoadCache(p)
  BY <1>2 DEF PingLoadCache
<1>3. CASE PingLoadRow(p)
  BY <1>3 DEF PingLoadRow
<1>4. CASE PingLoadPending(p)
  <2>1. /\ pc[p] = "pend" /\ pc'[p] = "decide"
        /\ UNCHANGED <<now, first, rowExists, row, cached, cache, pend, at, known, seen, fpc>>
        /\ sess' = [sess EXCEPT ![p].seconds = sess[p].seconds + pend]
    BY <1>4 DEF PingLoadPending
  <2>2. /\ rowExists /\ sess[p] = row /\ ~cached
        /\ row.lastPing <= at[p] /\ at[p] <= now /\ Ready(row.seconds + pend, row.lastPing, at[p])
    BY <2>1 DEF Sums
  <2>3. sess'[p].seconds = row.seconds + pend /\ sess'[p].lastPing = row.lastPing
    BY <2>1, <2>2 DEF Session
  <2>4. Paid(row.seconds, row.lastPing)
    BY <2>2
  <2> HIDE DEF StateOK, Session
  <2> QED
    BY <2>1, <2>2, <2>3, <2>4
<1>5. CASE PingRefused(p)
  <2>1. /\ pc[p] = "decide" /\ \A q \in Pings : pc'[q] = "idle"
        /\ UNCHANGED <<now, first, rowExists, row, cached, cache, pend, fpc>>
    BY <1>5 DEF PingRefused, Return
  <2>2. CASE ~rowExists
    BY <2>1, <2>2
  <2>3. CASE rowExists
    <3>1. at[p] <= now /\ Ready(Total, Last, at[p]) /\ (cached => Ready(cache.seconds, cache.lastPing, at[p]))
      BY <2>1, <2>3
    <3>2. Total \in Nat /\ Last \in Nat
      BY <1>0
    <3>3. Paid(Total, Last) /\ (cached => Paid(cache.seconds, cache.lastPing))
      BY <3>1, <3>2, <1>0, ReadyIsPaid DEF Ready
    <3>4. row.lastPing <= now /\ (cached => cache.lastPing <= now) /\ Paid(row.seconds, row.lastPing)
      BY <2>3
    <3> HIDE DEF StateOK, OnePing, Born
    <3> QED
      BY <2>1, <3>3, <3>4
  <2> QED
    BY <2>2, <2>3
<1>6. CASE PingLateCap(p)
  <2>1. /\ pc[p] = "decide" /\ known[p] /\ pc'[p] = "store"
        /\ UNCHANGED <<now, first, rowExists, cached, cache, pend, at, known, seen, fpc>>
        /\ sess' = [sess EXCEPT ![p].cap = at[p]]
        /\ row' = [row EXCEPT !.cap = at[p]]
    BY <1>6 DEF PingLateCap, CapGate
  <2>2. /\ rowExists /\ at[p] <= now /\ sess[p].lastPing <= at[p]
        /\ Ready(Total, sess[p].lastPing, at[p]) /\ Ready(sess[p].seconds, sess[p].lastPing, at[p])
    BY <2>1
  <2>3. Paid(Total, sess[p].lastPing) /\ Paid(sess[p].seconds, sess[p].lastPing)
    <3> HIDE DEF StateOK, Paid, Ready, Total
    <3> QED
      BY <2>2, <1>0, <1>0a, ReadyIsPaid
  <2>4. sess'[p].seconds = sess[p].seconds /\ sess'[p].lastPing = sess[p].lastPing
    BY <2>1 DEF Session
  <2>5. row'.seconds = row.seconds /\ row'.lastPing = row.lastPing
    BY <2>1 DEF Session
  <2>6. Paid(row.seconds, row.lastPing) /\ row.lastPing <= now /\ (cached => cache.lastPing <= now)
    BY <2>2
  <2> HIDE DEF StateOK, OnePing, Born
  <2> QED
    BY <2>1, <2>2, <2>3, <2>4, <2>5, <2>6
<1>7. CASE PingCreate(p)
  <2>1. /\ pc[p] = "decide" /\ ~known[p] /\ ~rowExists /\ pc'[p] = "store"
        /\ UNCHANGED <<now, cached, cache, pend, at, known, seen, fpc>>
        /\ rowExists' /\ first' = at[p]
        /\ sess'[p] = Outcome(p)
        /\ row' = [Outcome(p) EXCEPT !.seconds = Effective(p), !.block = at[p]]
    BY <1>7 DEF PingCreate, Decided
  <2>2. at[p] <= now /\ ~cached /\ pend = 0 /\ sess[p].seconds = 0
    BY <2>1
  <2>3. row'.seconds = Effective(p) /\ row'.lastPing = at[p]
    BY <2>1 DEF Outcome
  <2>4. sess'[p].seconds <= Effective(p) /\ sess'[p].seconds \in Nat /\ sess'[p].lastPing = at[p]
    BY <2>1, <2>2, <1>0 DEF Outcome, NewSeconds, Lesser
  <2>5. Effective(p) \in Nat /\ Effective(p) <= MaxPing
    BY <1>0
  <2>6. /\ Ticks(Effective(p)) <= Ticks(MaxPing) /\ Ticks(sess'[p].seconds) <= Ticks(MaxPing)
        /\ Ticks(row'.seconds) <= Ticks(MaxPing) /\ Ticks(MaxPing) \in Nat
    BY <2>3, <2>4, <2>5, <1>0, TicksMono, TicksMax
  <2>7. first' \in Nat /\ first' = at[p] /\ now' = now /\ pend' = 0 /\ at' = at
    BY <2>1, <2>2, <1>0
  <2>8. Paid(row.seconds, row.lastPing)' /\ Paid(sess[p].seconds, sess[p].lastPing)'
    BY <2>3, <2>4, <2>6, <2>7, <1>0
  <2>9. Total' = row'.seconds
    BY <2>3, <2>5, <2>7, <2>1
  <2> HIDE DEF StateOK, OnePing, Born, Paid, Total
  <2> QED
    BY <2>1, <2>2, <2>3, <2>4, <2>5, <2>7, <2>8, <2>9, <1>0
<1>8. CASE PingCreateRefused(p)
  BY <1>8 DEF PingCreateRefused, Decided
<1>9. CASE PingWriteThrough(p)
  <2>1. /\ pc[p] = "decide" /\ known[p] /\ pc'[p] = "clear" /\ ~CapGate(p) /\ ~BreakGate(p)
        /\ UNCHANGED <<now, first, rowExists, cached, cache, pend, at, known, seen, fpc>>
        /\ sess'[p] = Outcome(p) /\ row' = Outcome(p)
    BY <1>9 DEF PingWriteThrough, Decided, GateOpen
  <2>2. /\ Outcome(p).seconds \in Nat /\ Outcome(p).lastPing = at[p]
        /\ Paid(Outcome(p).seconds, at[p])
        /\ rowExists /\ at[p] <= now
    BY <2>1, <1>0b
  <2>3. cached => cache.lastPing <= now
    BY <2>2
  <2> HIDE DEF StateOK, OnePing, Born
  <2> QED
    BY <2>1, <2>2, <2>3, <1>0
<1>10. CASE PingClearPending(p)
  <2>1. /\ pc[p] = "clear" /\ pc'[p] = "store" /\ pend' = 0
        /\ UNCHANGED <<now, first, rowExists, row, cached, cache, at, known, seen, sess, fpc>>
    BY <1>10 DEF PingClearPending
  <2>2. sess[p] = row /\ rowExists
    BY <2>1 DEF Sums
  <2>3. sess[p].lastPing <= at[p] /\ Paid(sess[p].seconds, sess[p].lastPing)
    BY <2>1, <2>2
  <2>4. Paid(row.seconds, row.lastPing) /\ row.lastPing <= now /\ (cached => cache.lastPing <= now)
    BY <2>2
  <2> HIDE DEF StateOK, OnePing, Born
  <2> QED
    BY <2>1, <2>2, <2>3, <2>4, <1>0
<1>11. CASE PingReadPending(p)
  <2>1. /\ pc[p] = "decide" /\ known[p] /\ pc'[p] = "buffer" /\ ~CapGate(p) /\ ~BreakGate(p)
        /\ UNCHANGED <<now, first, rowExists, row, cached, cache, pend, at, known, fpc>>
        /\ sess'[p] = Outcome(p) /\ seen'[p] = pend + Effective(p)
    BY <1>11 DEF PingReadPending, Decided, GateOpen
  <2>2. /\ Outcome(p).seconds \in Nat /\ Outcome(p).lastPing = at[p]
        /\ Paid(Outcome(p).seconds, at[p]) /\ Paid(row.seconds + pend + Effective(p), at[p])
        /\ rowExists /\ at[p] <= now
    BY <2>1, <1>0b
  <2>3. Paid(row.seconds, row.lastPing) /\ row.lastPing <= now /\ (cached => cache.lastPing <= now)
    BY <2>2
  <2>4. row.seconds + seen'[p] = row.seconds + pend + Effective(p)
    BY <2>1, <1>0
  <2> HIDE DEF StateOK, OnePing, Born
  <2> QED
    BY <2>1, <2>2, <2>3, <2>4, <1>0
<1>12. CASE PingBuffer(p)
  BY <1>12 DEF PingBuffer
<1>13. CASE PingStore(p)
  <2>1. /\ pc[p] = "store" /\ \A q \in Pings : pc'[q] = "idle"
        /\ cached' /\ cache' = sess[p]
        /\ UNCHANGED <<now, first, rowExists, row, pend, fpc>>
    BY <1>13 DEF PingStore, Return
  <2>2. /\ rowExists /\ at[p] <= now /\ sess[p].lastPing <= at[p]
        /\ Paid(sess[p].seconds, sess[p].lastPing) /\ Paid(Total, sess[p].lastPing)
        /\ Paid(row.seconds, row.lastPing) /\ row.lastPing <= now
    BY <2>1
  <2> HIDE DEF StateOK, OnePing, Born
  <2> QED
    BY <2>1, <2>2, <1>0
<1> QED
  BY <1>1, <1>2, <1>3, <1>4, <1>5, <1>6, <1>7, <1>8, <1>9, <1>10, <1>11, <1>12, <1>13 DEF Ping
------------------------------------------------------------------------------
(* The steps of the flush, the clock and the environment.                    *)

\* The flush, the clock and the environment leave a lone stream alone: the flush
\* keeps what marks the cap and the break on the row.
LEMMA OthersKeepStream ==
  ASSUME StateOK, OneStream, Flush \/ Tick \/ SetPolicy \/ SessionExpire \/ CacheLost
  PROVE  OneStream'
<1> USE DEF StateOK, clock, stores, locals, flush, hist, OneStream, OnePing, Born, CapSeen, BreakSeen,
            BreakKept, Deciding, Leaving, Never, Session
<1>1. CASE FlushRead
  BY <1>1 DEF FlushRead
<1>2. CASE FlushIncrement
  <2>1. rowExists /\ row' = [row EXCEPT !.seconds = row.seconds + snapshot, !.lastPing = now]
    BY <1>2 DEF FlushIncrement
  <2>2. row'.cap = row.cap /\ row'.brk = row.brk
    BY <2>1
  <2>3. UNCHANGED <<clock, rowExists, cached, cache, pend, pc, locals, hist>>
    BY <1>2 DEF FlushIncrement
  <2> QED
    BY <2>1, <2>2, <2>3
<1>3. CASE FlushReread
  BY <1>3 DEF FlushReread
<1>4. CASE FlushSettle
  BY <1>4 DEF FlushSettle
<1>5. CASE Tick
  BY <1>5 DEF Tick
<1>6. CASE SetPolicy
  BY <1>6 DEF SetPolicy
<1>7. CASE SessionExpire
  BY <1>7 DEF SessionExpire
<1>8. CASE CacheLost
  BY <1>8 DEF CacheLost
<1> QED
  BY <1>1, <1>2, <1>3, <1>4, <1>5, <1>6, <1>7, <1>8 DEF Flush

\* The flush moves the buffer to the row while no ping runs.
LEMMA FlushCounts ==
  ASSUME StateOK, OneStream, Counted, Flush, ~PingFlush'
  PROVE  Counted'
<1>1. /\ \A p \in Pings : pc[p] = "idle"
      /\ rowExists
      /\ UNCHANGED <<clock, rowExists, cached, cache, pc, locals, hist>>
  BY DEF Flush, FlushRead, FlushIncrement, FlushReread, FlushSettle, PingFlush, At, Counted, FlushAlone,
         OneStream, Born, clock, stores
<1>2. /\ now \in Nat /\ first \in Nat /\ credited \in Int /\ pend \in Nat /\ MaxPing \in Nat /\ MaxDaily \in Nat
      /\ row.seconds \in Nat /\ row.lastPing \in Nat /\ cache.seconds \in Nat /\ cache.lastPing \in Nat
  BY ConstantsAssumption DEF StateOK, Session
<1>3. /\ Balanced(IF fpc \in {"reread", "settle"} THEN 0 ELSE pend)
      /\ cached => Counts(cache.seconds)
  BY <1>1 DEF Counted, Sums, Moving, Leaving
<1>4. /\ row.lastPing <= now
      /\ cached => cache.lastPing <= now
      /\ Paid(row.seconds, row.lastPing)
      /\ Paid(Total, Last)
      /\ cached => Paid(cache.seconds, cache.lastPing)
  BY <1>1 DEF Counted, Covered, Resting
<1>5. FlushAlone
  BY DEF Counted
<1>6. CASE FlushRead
  <2>1. FlushAlone'
    BY <1>1, <1>6 DEF FlushRead, FlushAlone, stores
  <2>2. UNCHANGED <<row, pend>> /\ fpc = "idle" /\ fpc' = "increment"
    BY <1>6 DEF FlushRead, stores
  <2>3. Sums'
    BY <1>1, <1>3, <2>2 DEF Sums, Moving, Leaving, Deciding, Balanced, Counts, hist, locals
  <2>4. Covered'
    BY <1>1, <1>4, <2>2 DEF Covered, Resting, Loading, Left, Leaving, Deciding, Paid, Total, Last, hist, clock
  <2> QED
    BY <2>1, <2>3, <2>4 DEF Counted
<1>7. CASE FlushIncrement
  <2>1. FlushAlone'
    BY <1>1, <1>5, <1>7 DEF FlushIncrement, FlushAlone
  <2>2. /\ fpc = "increment" /\ fpc' = "reread" /\ snapshot = pend /\ pend' = pend
        /\ row' = [row EXCEPT !.seconds = row.seconds + snapshot, !.lastPing = now]
    BY <1>5, <1>7 DEF FlushIncrement, FlushAlone
  <2>3. row'.seconds = row.seconds + pend /\ row'.lastPing = now
    BY <2>2 DEF StateOK, Session
  <2>4. Sums'
    <3>1. Balanced(pend)
      BY <1>3, <2>2
    <3>2. Balanced(0)'
      BY <3>1, <1>1, <1>2, <2>3 DEF Balanced, hist
    <3> QED
      BY <1>1, <1>3, <2>2, <3>2 DEF Sums, Moving, Leaving, Deciding, Balanced, Counts, hist
  <2>5. Total = row.seconds + pend /\ Last \in Nat /\ Last <= now
    BY <1>2, <1>4, <2>2 DEF Total, Last
  <2>6. Paid(row.seconds + pend, Last) /\ Paid(row.seconds + pend, now)
    BY <1>2, <1>4, <2>5, LessIsPaid
  <2>7. Covered'
    BY <1>1, <1>2, <1>4, <2>2, <2>3, <2>6
    DEF Covered, Resting, Loading, Left, Leaving, Deciding, Paid, Total, Last, hist, clock
  <2> QED
    BY <2>1, <2>4, <2>7 DEF Counted
<1>8. CASE FlushReread
  <2>1. FlushAlone'
    BY <1>1, <1>5, <1>8 DEF FlushReread, FlushAlone, stores
  <2>2. UNCHANGED <<row, pend>> /\ fpc = "reread" /\ fpc' = "settle"
    BY <1>8 DEF FlushReread, stores
  <2>3. Sums'
    BY <1>1, <1>3, <2>2 DEF Sums, Moving, Leaving, Deciding, Balanced, Counts, hist, locals
  <2>4. Covered'
    BY <1>1, <1>4, <2>2 DEF Covered, Resting, Loading, Left, Leaving, Deciding, Paid, Total, Last, hist, clock
  <2> QED
    BY <2>1, <2>3, <2>4 DEF Counted
<1>9. CASE FlushSettle
  <2>1. FlushAlone'
    BY <1>1, <1>9 DEF FlushSettle, FlushAlone
  <2>2. row' = row /\ fpc = "settle" /\ fpc' = "idle" /\ pend' = 0
    BY <1>2, <1>5, <1>9 DEF FlushSettle, FlushAlone, Greater
  <2>3. Sums'
    BY <1>1, <1>3, <2>2 DEF Sums, Moving, Leaving, Deciding, Balanced, Counts, hist, locals
  <2>4. Covered'
    BY <1>1, <1>2, <1>4, <2>2 DEF Covered, Resting, Loading, Left, Leaving, Deciding, Paid, Total, Last, hist, clock
  <2> QED
    BY <2>1, <2>3, <2>4 DEF Counted
<1> QED
  BY <1>6, <1>7, <1>8, <1>9 DEF Flush

\* As time passes, more is covered.
LEMMA TickCounts ==
  ASSUME StateOK, OneStream, Counted, Tick
  PROVE  Counted'
<1>1. /\ now' = now + 1
      /\ UNCHANGED <<rowExists, row, cached, cache, pend, pc, at, delta, known, sess, seen, fpc, snapshot, current,
                     credited, first>>
  BY DEF Tick, stores, locals, flush, hist
<1>2. FlushAlone' /\ Sums'
  BY <1>1 DEF Counted, FlushAlone, Sums, Moving, Leaving, Deciding, Balanced, Counts
<1>3. /\ now \in Nat /\ first \in Nat /\ MaxPing \in Nat
      /\ row.lastPing \in Nat /\ cache.lastPing \in Nat
      /\ row.seconds \in Nat /\ cache.seconds \in Nat /\ pend \in Nat
      /\ Total \in Nat /\ Last \in Nat
  BY ConstantsAssumption DEF StateOK, Session, Total, Last
<1>4. /\ row.lastPing <= now' /\ (cached => cache.lastPing <= now')
  BY <1>1, <1>3 DEF Counted, Covered
<1>5. ASSUME NEW s \in Nat, NEW l \in Nat, NEW t \in Nat
      PROVE  /\ Paid(s, l) => Paid(s, l)'
             /\ Ready(s, l, t) => Ready(s, l, t)'
  BY <1>1, <1>3, TicksNat, TicksMax DEF Paid, Ready
<1>6. ASSUME rowExists
      PROVE  (Paid(row.seconds, row.lastPing))' /\ Resting'
  <2>1. Total' = Total /\ Last' = Last
    BY <1>1 DEF Total, Last
  <2>2. Paid(row.seconds, row.lastPing) /\ Resting
    BY <1>6 DEF Counted, Covered
  <2> QED
    BY <1>1, <1>3, <1>5, <2>1, <2>2 DEF Resting
<1>7. ASSUME rowExists, NEW p \in Pings
      PROVE  Loading(p)'
  <2>1. at[p] \in Nat /\ sess[p].seconds \in Nat /\ sess[p].lastPing \in Nat
    BY DEF StateOK, Session
  <2>2. Total' = Total /\ Last' = Last
    BY <1>1 DEF Total, Last
  <2>3. Loading(p)
    BY <1>7 DEF Counted, Covered
  <2> QED
    BY <1>1, <1>3, <1>5, <2>1, <2>2, <2>3 DEF Loading, Deciding
<1>8. ASSUME rowExists, NEW p \in Pings
      PROVE  Left(p)'
  <2>1. at[p] \in Nat /\ seen[p] \in Nat /\ sess[p].seconds \in Nat /\ sess[p].lastPing \in Nat
    BY DEF StateOK, Session
  <2>2. Total' = Total
    BY <1>1 DEF Total
  <2>3. Left(p)
    BY <1>8 DEF Counted, Covered
  <2> QED
    BY <1>1, <1>3, <1>5, <2>1, <2>2, <2>3 DEF Left, Leaving
<1> QED
  BY <1>1, <1>2, <1>4, <1>6, <1>7, <1>8 DEF Counted, Covered

\* A session that expires has been idle for so long that the row speaks for it:
\* twice MAX_PING_SECONDS are covered, for a ping that is loading and one more.
LEMMA ExpiryCounts ==
  ASSUME StateOK, OneStream, Counted, SessionExpire
  PROVE  Counted'
<1>1. /\ cached /\ now - cache.lastPing >= SessionTTL /\ ~cached'
      /\ UNCHANGED <<now, rowExists, row, pend, pc, at, delta, known, sess, seen, fpc, snapshot, current, credited, first>>
  BY DEF SessionExpire, clock, locals, flush, hist
<1>2. FlushAlone' /\ Sums'
  BY <1>1 DEF Counted, FlushAlone, Sums, Moving, Leaving, Deciding, Balanced, Counts
<1>3. /\ now \in Nat /\ first \in Nat /\ MaxPing \in Nat /\ SessionTTL \in Nat
      /\ row.lastPing \in Nat /\ cache.lastPing \in Nat
      /\ row.seconds \in Nat /\ cache.seconds \in Nat /\ pend \in Nat
      /\ Total \in Nat /\ Last \in Nat
      /\ Ticks(MaxPing) \in Nat /\ Ticks(Total) \in Nat
      /\ cache.lastPing + Ticks(MaxPing) <= now
  <2>1. /\ now \in Nat /\ first \in Nat /\ MaxPing \in Nat /\ SessionTTL \in Nat
        /\ row.lastPing \in Nat /\ cache.lastPing \in Nat
        /\ row.seconds \in Nat /\ cache.seconds \in Nat /\ pend \in Nat
    BY ConstantsAssumption DEF StateOK, Session
  <2>2. Total \in Nat /\ Last \in Nat
    BY <2>1 DEF Total, Last
  <2>3. Ticks(MaxPing) <= SessionTTL
    BY ConstantsAssumption DEF Ticks
  <2> QED
    BY <1>1, <2>1, <2>2, <2>3, TicksNat, TicksMax
<1>4. rowExists
  BY <1>1 DEF OneStream, Born
<1>5. /\ Total' = Total /\ Last = cache.lastPing /\ Last' = row.lastPing
  BY <1>1 DEF Total, Last
<1>6. Resting'
  <2>1. (\A p \in Pings : pc[p] = "idle") => Paid(Total, Last)
    BY <1>4 DEF Counted, Covered, Resting
  <2>2. Paid(Total, Last) => Ticks(Total) <= 2 * (now - first)
    BY <1>3, <1>5 DEF Paid
  <2> QED
    BY <1>1, <1>5, <2>1, <2>2 DEF Resting, Paid
<1>7. ASSUME NEW p \in Pings
      PROVE  Loading(p)'
  <2>1. at[p] \in Nat
    BY DEF StateOK
  <2>2. Loading(p)
    BY <1>4 DEF Counted, Covered
  <2>3. Ready(Total, Last, at[p]) =>
          \/ Ticks(Total) <= 2 * (at[p] - first)
          \/ Ticks(Total) + Ticks(MaxPing) <= 2 * (now - first)
    BY <1>3, <1>5, <2>1 DEF Ready
  <2> QED
    <3>1. Ready(Total, Last, at[p]) => Ready(Total, row.lastPing, at[p])'
      BY <1>1, <1>5, <2>3 DEF Ready
    <3> QED
      BY <1>1, <1>5, <2>2, <3>1 DEF Loading, Ready, Deciding
<1>8. ASSUME NEW p \in Pings
      PROVE  Left(p)'
  <2>1. Left(p)
    BY <1>4 DEF Counted, Covered
  <2> QED
    BY <1>1, <1>5, <2>1 DEF Left, Leaving, Paid
<1>9. row.lastPing <= now /\ Paid(row.seconds, row.lastPing)
  BY <1>4 DEF Counted, Covered
<1>10. Covered'
  BY <1>1, <1>6, <1>7, <1>8, <1>9 DEF Covered, Paid
<1> QED
  BY <1>2, <1>10 DEF Counted

\* What is lost with the cache while nothing runs was credited and not yet on the
\* row, and the row is covered by itself.
LEMMA LossCounts ==
  ASSUME StateOK, OneStream, Counted, CacheLost, Quiet
  PROVE  Counted'
<1>1. /\ \A p \in Pings : pc[p] = "idle" /\ pc'[p] = "idle"
      /\ fpc = "idle" /\ fpc' = "idle" /\ pend' = 0 /\ ~cached' /\ credited' = credited - pend
      /\ cached \/ pend > 0
      /\ UNCHANGED <<now, rowExists, row, first>>
  BY DEF CacheLost, Quiet, clock, flush
<1>2. rowExists /\ credited \in Int /\ pend \in Nat /\ row.seconds \in Nat /\ MaxDaily \in Nat
  BY <1>1, ConstantsAssumption DEF OneStream, Born, StateOK, Session
<1>3. Balanced(pend) /\ Paid(row.seconds, row.lastPing) /\ row.lastPing <= now
  BY <1>1, <1>2 DEF Counted, Sums, Moving, Covered
<1>4. Balanced(0)'
  BY <1>1, <1>2, <1>3 DEF Balanced
<1>5. FlushAlone'
  BY <1>1 DEF FlushAlone
<1>6. Sums'
  BY <1>1, <1>4 DEF Sums, Moving, Leaving, Deciding, Balanced
<1>7. Covered'
  BY <1>1, <1>2, <1>3 DEF Covered, Resting, Loading, Left, Leaving, Deciding, Paid, Total, Last
<1> QED
  BY <1>5, <1>6, <1>7 DEF Counted
------------------------------------------------------------------------------
(* The invariant of the streams, and what follows from it.                   *)

\* A step by which nothing comes to overlap with pings leaves no two pings.
LEMMA StepOfOneStream ==
  ASSUME Next, overlap' # "pings"
  PROVE  /\ overlap # "pings"
         /\ \/ (Flush \/ \E p \in Pings : Ping(p)) /\ ~TwoPings'
            \/ Tick \/ SetPolicy \/ SessionExpire \/ CacheLost
BY DEF Next, Overlapping

\* A step by which nothing comes to overlap at all.
LEMMA StepAlone ==
  ASSUME TypeOK, Next, overlap' = "none"
  PROVE  /\ overlap = "none"
         /\ \/ (Flush \/ \E p \in Pings : Ping(p)) /\ ~TwoPings' /\ ~PingFlush'
            \/ Tick \/ SetPolicy \/ SessionExpire
            \/ CacheLost /\ Quiet
<1>1. CASE (Flush \/ \E p \in Pings : Ping(p)) /\ overlap' = Overlapping
  <2>1. overlap # "pings" /\ ~TwoPings' /\ overlap # "flush" /\ ~PingFlush'
    BY <1>1 DEF Overlapping
  <2> QED
    BY <1>1, <2>1 DEF TypeOK
<1>2. CASE CacheLost /\ overlap' = IF overlap = "none" /\ ~Quiet THEN "flush" ELSE overlap
  BY <1>2
<1>3. CASE (Tick \/ SetPolicy \/ SessionExpire) /\ UNCHANGED overlap
  BY <1>3
<1> QED
  BY <1>1, <1>2, <1>3 DEF Next

\* A ping that runs alone finds the flush idle.
LEMMA FlushStaysAlone ==
  ASSUME StateOK, Counted, NEW p \in Pings, Ping(p), ~PingFlush'
  PROVE  fpc = "idle" /\ fpc' = "idle"
<1>1. fpc' = fpc
  BY DEF Ping, PingStart, PingLoadCache, PingLoadRow, PingLoadPending, PingRefused, PingLateCap,
    PingCreate, PingCreateRefused, PingWriteThrough, PingClearPending, PingReadPending, PingBuffer,
    PingStore, flush
<1>2. CASE pc[p] # "idle"
  BY <1>1, <1>2 DEF Counted, FlushAlone
<1>3. CASE pc[p] = "idle"
  <2>1. PingStart(p)
    BY <1>3 DEF Ping, At, PingLoadCache, PingLoadRow, PingLoadPending, PingRefused, PingLateCap,
      PingCreate, PingCreateRefused, PingWriteThrough, PingClearPending, PingReadPending, PingBuffer, PingStore
  <2>2. pc'[p] = "load"
    BY <2>1 DEF PingStart, Goto, StateOK
  <2> QED
    BY <1>1, <2>2 DEF PingFlush, At
<1> QED
  BY <1>2, <1>3

\* The day is consistent for one heartbeat stream.
LEMMA StreamsHold == Spec => [](StateOK /\ Streams)
<1>1. Init => Streams
  <2> SUFFICES ASSUME Init PROVE Streams
    OBVIOUS
  <2>1. OneStream
    BY DEF Init, OneStream, OnePing, Born, CapSeen, BreakSeen, BreakKept, Deciding, Leaving, Blank, Never
  <2>2. FlushAlone
    BY DEF Init, FlushAlone
  <2>3. Sums
    BY DEF Init, Sums, Moving, Balanced, Counts, Deciding, Leaving, Blank
  <2>4. Covered
    BY DEF Init, Covered, Blank, Never
  <2> QED
    BY <2>1, <2>2, <2>3, <2>4 DEF Streams, Counted
<1>2. TypeOK /\ Streams /\ [Next]_vars => Streams'
  <2> SUFFICES ASSUME TypeOK, Streams, [Next]_vars PROVE Streams'
    OBVIOUS
  <2>0. StateOK
    BY DEF TypeOK
  <2>1. CASE UNCHANGED vars
    <3>1. UNCHANGED <<overlap, StateOK, OneStream, Counted>>
      BY <2>1 DEF vars, clock, stores, locals, flush, hist, StateOK, OneStream, OnePing, Born, CapSeen, BreakSeen,
         BreakKept, Deciding, Leaving, Counted, FlushAlone, Sums, Moving, Balanced, Counts, Covered, Resting,
         Loading, Left, Paid, Ready, Total, Last
    <3> QED
      BY <3>1 DEF Streams
  <2>2. CASE Next
    <3>1. ASSUME overlap' # "pings" PROVE OneStream'
      <4>1. OneStream
        BY <2>2, <3>1, StepOfOneStream DEF Streams
      <4>2. ASSUME NEW p \in Pings, Ping(p), ~TwoPings' PROVE OneStream'
        <5>1. \A q \in Pings : q # p => pc[q] = "idle" /\ pc'[q] = "idle"
          BY <2>0, <4>1, <4>2, Lone DEF OneStream
        <5> QED
          BY <2>0, <4>1, <4>2, <5>1, OnePingKept, BornKept, CapSeenKept, BreakSeenKept DEF OneStream
      <4> QED
        BY <2>0, <2>2, <3>1, <4>1, <4>2, StepOfOneStream, OthersKeepStream
    <3>2. ASSUME overlap' = "none" PROVE Counted'
      <4>1. overlap = "none" /\ OneStream /\ Counted
        BY <2>2, <3>2, StepAlone DEF Streams
      <4>2. ASSUME NEW p \in Pings, Ping(p), ~TwoPings', ~PingFlush' PROVE Counted'
        <5>1. fpc = "idle" /\ fpc' = "idle"
          BY <2>0, <4>1, <4>2, FlushStaysAlone
        <5>2. \A q \in Pings : q # p => pc[q] = "idle" /\ pc'[q] = "idle"
          BY <2>0, <4>1, <4>2, Lone DEF OneStream
        <5>3. FlushAlone'
          BY <5>1 DEF FlushAlone
        <5> QED
          BY <2>0, <4>1, <4>2, <5>1, <5>2, <5>3, SumsKept, CoveredKept DEF Counted
      <4>3. CASE SetPolicy
        <5>1. UNCHANGED Counted
          BY <4>3 DEF SetPolicy, stores, locals, flush, hist, Counted, FlushAlone, Sums, Moving, Balanced, Counts,
             Covered, Resting, Loading, Left, Leaving, Deciding, Paid, Ready, Total, Last
        <5> QED
          BY <4>1, <5>1
      <4> QED
        BY <2>0, <2>2, <3>2, <4>1, <4>2, <4>3, StepAlone, FlushCounts, TickCounts, ExpiryCounts, LossCounts
    <3> QED
      BY <3>1, <3>2 DEF Streams
  <2> QED
    BY <2>1, <2>2
<1>3. TypeOK => StateOK
  BY DEF TypeOK
<1> QED
  BY <1>1, <1>2, <1>3, TypeCorrect, PTL DEF Spec

\* As long as pings, the flush and losses of the cache do not overlap, the row and
\* the buffer hold exactly what was credited, and no more than the time since the
\* first ping and one delta, however often the session expires or is lost
\* (recordPing, flushPendingToDb).
THEOREM SecondsAddUp == Spec => []SecondsAgree
<1>1. StateOK /\ Streams => SecondsAgree
  <2> SUFFICES ASSUME StateOK, Streams, overlap = "none", Quiet PROVE Conservation /\ CounterBelowClock
    BY DEF SecondsAgree, Conservation, CounterBelowClock
  <2>1. Counted /\ (\A p \in Pings : pc[p] = "idle") /\ fpc = "idle"
    BY DEF Streams, Quiet
  <2>2. /\ now \in Nat /\ first \in Nat /\ credited \in Int /\ pend \in Nat /\ MaxPing \in Nat /\ MaxDaily \in Nat
        /\ row.seconds \in Nat /\ Last \in Nat
    BY ConstantsAssumption DEF StateOK, Session, Last
  <2>3. Balanced(pend)
    BY <2>1 DEF Counted, Sums, Moving
  <2>4. rowExists => Paid(row.seconds + pend, Last) /\ Last <= now
    BY <2>1 DEF Counted, Covered, Resting, Total, Last
  <2>5. Conservation
    BY <2>2, <2>3 DEF Conservation, Recorded, Balanced
  <2>6. CounterBelowClock
    <3>1. row.seconds + pend \in Nat /\ Ticks(row.seconds + pend) \in Nat /\ Ticks(MaxPing) \in Nat
      BY <2>2, TicksNat
    <3> QED
      BY <2>2, <2>4, <3>1 DEF CounterBelowClock, Recorded, Paid
  <2> QED
    BY <2>5, <2>6
<1> QED
  BY <1>1, StreamsHold, PTL

\* Only a ping that passed the gate is credited.
LEMMA WhoIsCredited ==
  ASSUME StateOK, [Next]_vars, credited' > credited
  PROVE  \E p \in Pings : /\ PingCreate(p) \/ PingWriteThrough(p) \/ PingReadPending(p)
                          /\ \A q \in Pings : q # p => pc'[q] = pc[q]
<1>1. credited \in Int /\ pend \in Nat
  BY DEF StateOK
<1>2. \E p \in Pings : Ping(p)
  BY <1>1 DEF Next, Flush, FlushRead, FlushIncrement, FlushReread, FlushSettle, Tick, SetPolicy, SessionExpire,
     CacheLost, vars, hist
<1>3. PICK p \in Pings : Ping(p)
  BY <1>2
<1>4. PingCreate(p) \/ PingWriteThrough(p) \/ PingReadPending(p)
  BY <1>1, <1>3 DEF Ping, PingStart, PingLoadCache, PingLoadRow, PingLoadPending, PingRefused, PingLateCap,
     PingCreateRefused, PingClearPending, PingBuffer, PingStore, hist
<1>5. \A q \in Pings : q # p => pc'[q] = pc[q]
  BY <1>4 DEF PingCreate, PingWriteThrough, PingReadPending, Decided, Goto, StateOK
<1> QED
  BY <1>4, <1>5

\* The mark of the cap is never removed from the row.
LEMMA CapStays ==
  ASSUME StateOK, OneStream, [Next]_vars, row.cap # Never
  PROVE  row'.cap # Never
<1> USE DEF Never
<1>1. rowExists
  BY DEF OneStream, Born, Blank
<1>2. ASSUME NEW p \in Pings, Ping(p) PROVE row'.cap # Never
  <2>1. CASE PingLateCap(p)
    <3>1. at[p] # 0
      BY <2>1 DEF PingLateCap, At, OneStream, OnePing
    <3> QED
      BY <2>1, <3>1 DEF PingLateCap, StateOK, Session
  <2>2. CASE PingWriteThrough(p)
    BY <2>2 DEF PingWriteThrough, GateOpen, CapGate, OneStream, CapSeen, Deciding, At
  <2>3. CASE PingCreate(p)
    BY <1>1, <2>3 DEF PingCreate
  <2>4. row' = row \/ PingLateCap(p) \/ PingWriteThrough(p) \/ PingCreate(p)
    BY <1>2 DEF Ping, PingStart, PingLoadCache, PingLoadRow, PingLoadPending, PingRefused, PingCreateRefused,
       PingClearPending, PingReadPending, PingBuffer, PingStore, stores
  <2> QED
    BY <2>1, <2>2, <2>3, <2>4
<1>3. ASSUME FlushIncrement PROVE row'.cap # Never
  BY <1>3 DEF FlushIncrement, StateOK, Session
<1>4. row' = row \/ FlushIncrement \/ \E p \in Pings : Ping(p)
  BY DEF Next, Flush, FlushRead, FlushReread, FlushSettle, Tick, SetPolicy, SessionExpire, CacheLost, vars, stores
<1> QED
  BY <1>2, <1>3, <1>4

\* The daily cap is final: once it is on the row the mark stays and no second is
\* credited that day, from whichever session the ping came and whatever the flush
\* or the loss of the cache did in between (recordPing).
THEOREM CapIsKept == Spec => CapLocksDay
<1>1. StateOK /\ Streams /\ [Next]_vars
        => [row.cap # Never /\ overlap # "pings" => row'.cap # Never /\ credited' <= credited]_vars
  <2> SUFFICES ASSUME StateOK, Streams, [Next]_vars, row.cap # Never, overlap # "pings"
               PROVE  row'.cap # Never /\ credited' <= credited
    OBVIOUS
  <2>1. OneStream
    BY DEF Streams
  <2>2. ASSUME credited' > credited PROVE FALSE
    <3>1. PICK p \in Pings : PingCreate(p) \/ PingWriteThrough(p) \/ PingReadPending(p)
      BY <2>2, WhoIsCredited
    <3>2. rowExists
      BY <2>1 DEF OneStream, Born, Blank, Never
    <3>3. Deciding(p) /\ ~CapGate(p)
      BY <3>1, <3>2 DEF PingCreate, PingWriteThrough, PingReadPending, GateOpen, Deciding, At
    <3>4. sess[p].cap # Never
      BY <2>1, <3>3 DEF OneStream, CapSeen
    <3> QED
      BY <3>3, <3>4 DEF CapGate, Deciding
  <2>3. credited' \in Int /\ credited \in Int
    <3>1. credited \in Int /\ pend \in Nat
      BY DEF StateOK
    <3>2. ASSUME NEW p \in Pings, Ping(p) PROVE credited' \in Int
      <4>1. Effective(p) \in Int
        BY EffectiveBound, ConstantsAssumption
      <4> QED
        BY <3>1, <3>2, <4>1 DEF Ping, PingStart, PingLoadCache, PingLoadRow, PingLoadPending, PingRefused, PingLateCap,
           PingCreate, PingCreateRefused, PingWriteThrough, PingClearPending, PingReadPending, PingBuffer, PingStore, hist
    <3> QED
      BY <3>1, <3>2 DEF Next, Flush, FlushRead, FlushIncrement, FlushReread, FlushSettle, Tick, SetPolicy,
         SessionExpire, CacheLost, vars, hist
  <2> QED
    BY <2>1, <2>2, <2>3, CapStays
<1> QED
  BY <1>1, StreamsHold, PTL DEF Spec, CapLocksDay

\* A forced break is served: no ping that was taken before the end of a break the
\* engine imposed is credited, whether it found its session in the cache, on the
\* row or nowhere (recordPing).
THEOREM BreaksAreServed == Spec => BreakServed
<1>1. StateOK /\ Streams /\ [Next]_vars
        => [\A p \in Pings :
              credited' > credited /\ pc[p] # pc'[p] /\ overlap # "pings" => at[p] >= owed]_vars
  <2> SUFFICES ASSUME StateOK, Streams, [Next]_vars, overlap # "pings", credited' > credited,
                      NEW p \in Pings, pc[p] # pc'[p]
               PROVE  at[p] >= owed
    OBVIOUS
  <2>1. OneStream
    BY DEF Streams
  <2>2. PingCreate(p) \/ PingWriteThrough(p) \/ PingReadPending(p)
    BY WhoIsCredited
  <2>3. at[p] \in Nat /\ owed \in Nat
    BY DEF StateOK
  <2>4. CASE PingCreate(p)
    BY <2>1, <2>3, <2>4 DEF PingCreate, OneStream, Born, Never
  <2>5. CASE PingWriteThrough(p) \/ PingReadPending(p)
    <3>1. Deciding(p) /\ ~BreakGate(p)
      BY <2>5 DEF PingWriteThrough, PingReadPending, GateOpen, Deciding, At
    <3>2. owed <= at[p] \/ sess[p].brk = owed
      BY <2>1, <3>1 DEF OneStream, BreakSeen
    <3>3. sess[p].brk # Never => ~(at[p] < sess[p].brk)
      BY <3>1 DEF BreakGate, Deciding
    <3> QED
      BY <2>3, <3>2, <3>3 DEF Never
  <2> QED
    BY <2>2, <2>4, <2>5
<1> QED
  BY <1>1, StreamsHold, PTL DEF Spec, BreakServed

==============================================================================
