------------------------- MODULE AnchorTimerProofs -------------------------
(***************************************************************************)
(* The anchor's schedule for every clock rate, delay and width of          *)
(* next_tx_tick, where TLC has one of each.                                *)
(***************************************************************************)
EXTENDS AnchorTimer, TLAPS

-----------------------------------------------------------------------------
(***************************************************************************)
(* Arithmetic: the kernel's conversions and the 32-bit subtraction.        *)
(***************************************************************************)
\* Both roundings of the conversions keep the order and the sign.
LEMMA Conversions ==
  /\ \A ms \in Nat : MsToTicks(ms) \in Nat /\ MsToTicksCeil(ms) \in Nat
  /\ \A ticks \in Nat : TicksToMs(ticks) \in Nat
  /\ \A m, n \in Nat : m <= n => /\ MsToTicks(m) <= MsToTicks(n)
                                 /\ MsToTicksCeil(m) <= MsToTicksCeil(n)
                                 /\ TicksToMs(m) <= TicksToMs(n)
<1> USE TickAssumption DEF MsToTicks, MsToTicksCeil, TicksToMs
<1>1. \A m \in Nat : m * TickNum \in Nat /\ m * TickDen \in Nat
  OBVIOUS
<1>2. \A a \in Nat : a \div TickDen \in Nat /\ a \div TickNum \in Nat
  OBVIOUS
<1>3. \A m \in Nat : m * TickNum + TickDen - 1 \in Nat
  BY <1>1
<1>4. ASSUME NEW m \in Nat, NEW n \in Nat, m <= n
      PROVE  m * TickNum <= n * TickNum /\ m * TickDen <= n * TickDen
  BY <1>4
<1>5. ASSUME NEW a \in Nat, NEW b \in Nat, a <= b
      PROVE  a \div TickDen <= b \div TickDen /\ a \div TickNum <= b \div TickNum
  BY <1>5
<1>6. ASSUME NEW m \in Nat, NEW n \in Nat, m <= n
      PROVE  m * TickNum + TickDen - 1 <= n * TickNum + TickDen - 1
  BY <1>1, <1>4, <1>6
<1> QED
  BY <1>1, <1>2, <1>3, <1>4, <1>5, <1>6

\* What k_ms_to_ticks_floor64 has rounded k_ticks_to_ms_floor32 does not round up.
LEMMA RoundTrip == ASSUME NEW ms \in Nat PROVE TicksToMs(MsToTicks(ms)) <= ms
<1> USE TickAssumption
<1> DEFINE t == (ms * TickNum) \div TickDen
<1>1. ms * TickNum \in Nat
  OBVIOUS
<1>2. t \in Nat /\ t * TickDen <= ms * TickNum
  BY <1>1
<1>3. t * TickDen \in Nat
  BY <1>2
<1>4. (t * TickDen) \div TickNum <= (ms * TickNum) \div TickNum
  <2> HIDE DEF t
  <2> QED BY <1>1, <1>2, <1>3
<1>5. (ms * TickNum) \div TickNum = ms
  OBVIOUS
<1> QED
  BY <1>4, <1>5 DEF TicksToMs, MsToTicks

\* The delays of randomize_delay_to_next_tx are what MinDelay and MaxDelay say.
LEMMA DelayRange ==
  /\ MinDelay \in Nat /\ MaxDelay \in Nat
  /\ \A delay \in Delays : delay \in MinDelay .. MaxDelay
BY DelayAssumption DEF Delays, MinDelay, MaxDelay

LEMMA RemainderType == ASSUME NEW w \in Nat \ {0}, NEW a \in Int PROVE a % w \in 0 .. w - 1
OBVIOUS

\* A remainder is known by what it differs by.
LEMMA Remainder ==
  ASSUME NEW w \in Nat \ {0}, NEW q \in Int, NEW r \in 0 .. w - 1
  PROVE  (w * q + r) % w = r
OBVIOUS

\* The wrap does not show in a difference that is shorter than it.
LEMMA WrappedDifference ==
  ASSUME NEW w \in Nat \ {0}, NEW a \in Nat, NEW b \in 0 .. w - 1
  PROVE  (((a + b) % w) - a) % w = b
<1> DEFINE q == (a + b) \div w
           m == (a + b) % w
           n == w * (-q)
<1>1. q \in Nat /\ m \in Nat
  OBVIOUS
<1>2. a + b = w * q + m
  OBVIOUS
<1>3. n = -(w * q) /\ w * q \in Int
  BY <1>1
<1>4. m - a = n + b
  <2> DEFINE p == w * q
  <2>1. a + b = p + m /\ n = -p /\ p \in Int
    BY <1>2, <1>3
  <2> HIDE DEF m, n, p
  <2> QED BY <1>1, <2>1
<1>5. -q \in Int
  BY <1>1
<1>6. (n + b) % w = b
  BY ONLY <1>5, Remainder
<1> QED
  BY <1>4, <1>6

-----------------------------------------------------------------------------
(***************************************************************************)
(* Type correctness.                                                       *)
(***************************************************************************)
\* A new next_tx_tick has 32 bits, and what it was computed from comes back as long
\* as the clock has not reached the wrap.
LEMMA NextTxTickFits ==
  ASSUME NEW delay \in Delays, now \in Nat
  PROVE  /\ NextTxTick(delay) \in 0 .. Wrap - 1
         /\ BeforeWrap => NextTxTick(delay) = now + MsToTicks(delay)
         /\ TicksToMs((NextTxTick(delay) - now) % Wrap) = TicksToMs(MsToTicks(delay))
<1> DEFINE d == MsToTicks(delay)
<1>1. Wrap \in Nat \ {0}
  BY TickAssumption
<1>2. d \in Nat /\ d <= MsToTicks(MaxDelay)
  BY Conversions, DelayRange
<1>3. MsToTicks(MaxDelay) \in Nat /\ d \in 0 .. Wrap - 1
  BY <1>1, <1>2, Conversions, DelayRange, SpacingAssumption
<1> HIDE DEF d
<1>4. (now + d) % Wrap \in 0 .. Wrap - 1
  BY <1>1, <1>2
<1>5. BeforeWrap => (now + d) % Wrap = now + d
  <2> SUFFICES ASSUME BeforeWrap PROVE (now + d) % Wrap = now + d
    OBVIOUS
  <2>1. now + d \in 0 .. Wrap - 1
    BY <1>1, <1>2, <1>3 DEF BeforeWrap
  <2> QED BY <1>1, <2>1
<1>6. (((now + d) % Wrap) - now) % Wrap = d
  BY <1>1, <1>3, WrappedDifference
<1> QED
  BY <1>4, <1>5, <1>6 DEF NextTxTick, d

\* What a handler leaves of the variables it writes.
LEMMA HandlerTypes ==
  ASSUME TypeOK, NEW e \in {"TIMEOUT", "PACKET_RECEIVED", "PACKET_SENT"},
         StartNextEvent(e), Wait(e)
  PROVE  /\ next_tx_tick' \in 0 .. Wrap - 1 /\ timeout_ms' \in Nat /\ waitUntil' \in Nat
         /\ radio' \in {"idle", "rx", "txwait"} /\ txEnd' \in Nat
         /\ lastStart' \in Nat /\ quiet' \in BOOLEAN
         /\ startedBy' \in {"none", "TIMEOUT", "PACKET_RECEIVED", "PACKET_SENT"}
<1> USE DEF TypeOK
<1>1. TxDelay \in Nat /\ Wrap \in Nat \ {0}
  BY DelayAssumption, TickAssumption
<1>2. /\ next_tx_tick' \in 0 .. Wrap - 1 /\ txEnd' \in Nat /\ lastStart' \in Nat
      /\ radio' \in {"idle", "rx", "txwait"} /\ quiet' \in BOOLEAN
      /\ startedBy' \in {"none", "TIMEOUT", "PACKET_RECEIVED", "PACKET_SENT"}
  <2>1. CASE Due /\ SendTxPacket(e) /\ \E delay \in Delays : next_tx_tick' = NextTxTick(delay)
    <3>1. next_tx_tick' \in 0 .. Wrap - 1
      BY <2>1, NextTxTickFits
    <3>2. txEnd' \in Nat /\ radio' \in {"idle", "rx", "txwait"}
      BY <1>1, <2>1 DEF SendTxPacket
    <3>3. lastStart' \in Nat /\ startedBy' = e /\ quiet' \in BOOLEAN
      BY <2>1 DEF SendTxPacket
    <3> QED BY <3>1, <3>2, <3>3
  <2>2. CASE radio' = "rx" /\ UNCHANGED <<next_tx_tick, txEnd, lastStart, startedBy, quiet>>
    BY <2>2
  <2> QED BY <2>1, <2>2 DEF StartNextEvent
<1>3. timeout_ms' \in Nat
  <2>1. (next_tx_tick' - now) % Wrap \in Nat
    <3>1. next_tx_tick' - now \in Int
      BY <1>1, <1>2
    <3> QED BY <1>1, <3>1, RemainderType
  <2>2. DelayToNext \in Nat
    BY <2>1, Conversions DEF DelayToNext
  <2> QED BY <2>2 DEF Wait
<1>4. waitUntil' \in Nat
  <2>1. MsToTicksCeil(timeout_ms') \in Nat
    BY <1>3, Conversions
  <2> QED BY <2>1 DEF Wait
<1> QED
  BY <1>2, <1>3, <1>4

LEMMA TypeStep == TypeOK /\ [Next]_vars => TypeOK'
<1> SUFFICES ASSUME TypeOK, [Next]_vars PROVE TypeOK'
  OBVIOUS
<1> USE DEF TypeOK
<1>1. CASE Tick
  BY <1>1 DEF Tick
<1>2. CASE FrameArrives
  BY <1>2 DEF FrameArrives
<1>3. CASE FrameSent
  BY <1>3 DEF FrameSent
<1>4. CASE OnTimeout
  BY <1>4, HandlerTypes DEF OnTimeout
<1>5. CASE OnCallback
  BY <1>5, HandlerTypes DEF OnCallback
<1>6. CASE UNCHANGED vars
  BY <1>6 DEF vars
<1> QED
  BY <1>1, <1>2, <1>3, <1>4, <1>5, <1>6 DEF Next

LEMMA TypeInit == Init => TypeOK
BY TickAssumption DEF Init, TypeOK

\* The clock, the 32-bit tick and the timeouts stay what they are.
THEOREM TypeCorrect == Spec => []TypeOK
BY TypeInit, TypeStep, PTL DEF Spec

-----------------------------------------------------------------------------
(***************************************************************************)
(* The schedule, before next_tx_tick wraps.                                *)
(***************************************************************************)
\* next_tx_tick is where the last start put it, no timeout in force is longer than
\* the longest delay, and the wait in progress ends within one such timeout after
\* next_tx_tick at the latest.
ScheduleInv ==
  BeforeWrap =>
    /\ 0 < now /\ now <= waitUntil + Latency
    /\ timeout_ms <= MaxDelay
    /\ startedBy = "none" <=> lastStart = 0
    /\ startedBy = "none" => next_tx_tick = 0 /\ pending = "none" /\ radio = "idle"
    /\ startedBy # "none" =>
         /\ lastStart <= now
         /\ \E delay \in Delays : next_tx_tick = lastStart + MsToTicks(delay)
         /\ waitUntil <= next_tx_tick + MsToTicksCeil(MaxDelay)

LEMMA ScheduleInit == Init => ScheduleInv
<1>1. MaxDelay \in Nat
  BY DelayRange
<1> QED
  BY <1>1 DEF Init, ScheduleInv, Latency

\* A start: next_tx_tick lies between the shortest and the longest delay ahead.
LEMMA StartAhead ==
  ASSUME TypeOK, BeforeWrap, NEW delay \in Delays, next_tx_tick' = NextTxTick(delay)
  PROVE  /\ next_tx_tick' = now + MsToTicks(delay)
         /\ MsToTicks(delay) \in Nat
         /\ MsToTicks(MinDelay) <= MsToTicks(delay) /\ MsToTicks(MinDelay) \in Nat
         /\ delay \in Nat /\ delay <= MaxDelay
         /\ DelayToNext <= delay /\ DelayToNext \in Nat
<1>1. delay \in Nat /\ MinDelay \in Nat /\ MaxDelay \in Nat /\ delay \in MinDelay .. MaxDelay
  BY DelayRange
<1>2. next_tx_tick' = now + MsToTicks(delay)
  BY NextTxTickFits DEF TypeOK
<1>3. MsToTicks(delay) \in Nat /\ MsToTicks(MinDelay) \in Nat
      /\ MsToTicks(MinDelay) <= MsToTicks(delay)
  BY <1>1, Conversions
<1>4. DelayToNext = TicksToMs(MsToTicks(delay))
  BY NextTxTickFits DEF TypeOK, DelayToNext
<1>5. DelayToNext <= delay
  BY <1>1, <1>4, RoundTrip
<1>6. DelayToNext \in Nat
  BY <1>3, <1>4, Conversions
<1> QED
  BY <1>1, <1>2, <1>3, <1>5, <1>6

\* No start: the rest of the time to next_tx_tick, which lies ahead.
LEMMA NoStartAhead ==
  ASSUME TypeOK, BeforeWrap, ScheduleInv, startedBy # "none", ~Due,
         next_tx_tick' = next_tx_tick
  PROVE  DelayToNext <= MaxDelay /\ DelayToNext \in Nat /\ now <= next_tx_tick
<1> DEFINE ahead == next_tx_tick - now
<1>1. PICK delay \in Delays : next_tx_tick = lastStart + MsToTicks(delay)
  BY DEF ScheduleInv
<1>2. delay \in Nat /\ MaxDelay \in Nat /\ delay <= MaxDelay /\ MsToTicks(delay) \in Nat
  BY DelayRange, Conversions
<1>3. now <= next_tx_tick /\ lastStart <= now
  BY DEF TypeOK, Due, ScheduleInv
<1>4. ahead \in Nat /\ ahead <= MsToTicks(delay) /\ ahead \in 0 .. Wrap - 1
  BY <1>1, <1>2, <1>3, TickAssumption DEF TypeOK
<1>5. ahead % Wrap = ahead
  BY <1>4, TickAssumption
<1>6. TicksToMs(ahead) \in Nat /\ TicksToMs(ahead) <= TicksToMs(MsToTicks(delay))
      /\ TicksToMs(MsToTicks(delay)) \in Nat
  BY <1>2, <1>4, Conversions
<1>7. TicksToMs(MsToTicks(delay)) <= delay
  BY <1>2, RoundTrip
<1>8. DelayToNext = TicksToMs(ahead)
  BY <1>5 DEF DelayToNext
<1> QED
  BY <1>2, <1>3, <1>6, <1>7, <1>8

\* A handler keeps the schedule.  What a timeout stores is no longer than the longest
\* delay, and a callback keeps a timeout that was stored earlier.
LEMMA ScheduleHandler ==
  ASSUME TypeOK, TypeOK', ScheduleInv, BeforeWrap, now' = now, pending' = "none",
         NEW e \in {"TIMEOUT", "PACKET_RECEIVED", "PACKET_SENT"},
         StartNextEvent(e), Wait(e)
  PROVE  ScheduleInv'
<1> SUFFICES ASSUME BeforeWrap'
             PROVE /\ now' <= waitUntil' + Latency
                   /\ timeout_ms' <= MaxDelay
                   /\ startedBy' # "none" /\ lastStart' # 0
                   /\ lastStart' <= now'
                   /\ \E delay \in Delays : next_tx_tick' = lastStart' + MsToTicks(delay)
                   /\ waitUntil' <= next_tx_tick' + MsToTicksCeil(MaxDelay)
  BY DEF ScheduleInv
<1> USE DEF TypeOK
<1>1. MaxDelay \in Nat /\ MsToTicksCeil(MaxDelay) \in Nat /\ Latency = 1
  BY DelayRange, Conversions DEF Latency
<1>2. 0 < now /\ timeout_ms <= MaxDelay
  BY DEF ScheduleInv
<1>3. /\ now <= next_tx_tick' /\ DelayToNext <= MaxDelay /\ DelayToNext \in Nat
      /\ startedBy' # "none" /\ lastStart' # 0 /\ lastStart' <= now
      /\ \E delay \in Delays : next_tx_tick' = lastStart' + MsToTicks(delay)
  <2>1. CASE Due /\ SendTxPacket(e) /\ \E delay \in Delays : next_tx_tick' = NextTxTick(delay)
    <3> PICK delay \in Delays : next_tx_tick' = NextTxTick(delay)
      BY <2>1
    <3>1. /\ next_tx_tick' = now + MsToTicks(delay) /\ MsToTicks(delay) \in Nat
          /\ delay \in Nat /\ delay <= MaxDelay
          /\ DelayToNext <= delay /\ DelayToNext \in Nat
      BY StartAhead
    <3>2. lastStart' = now /\ startedBy' = e
      BY <2>1 DEF SendTxPacket
    <3> QED BY <1>1, <1>2, <3>1, <3>2
  <2>2. CASE ~Due /\ UNCHANGED <<next_tx_tick, txEnd, lastStart, startedBy, quiet>>
    <3>1. startedBy # "none"
      BY <1>2, <2>2 DEF ScheduleInv, Due
    <3>2. DelayToNext <= MaxDelay /\ DelayToNext \in Nat /\ now <= next_tx_tick
      BY <2>2, <3>1, NoStartAhead
    <3> QED BY <2>2, <3>1, <3>2 DEF ScheduleInv
  <2> QED BY <2>1, <2>2 DEF StartNextEvent
<1>4. timeout_ms' <= MaxDelay /\ timeout_ms' \in Nat
  BY <1>2, <1>3 DEF Wait
<1>5. MsToTicksCeil(timeout_ms') \in Nat /\ MsToTicksCeil(timeout_ms') <= MsToTicksCeil(MaxDelay)
  BY <1>1, <1>4, Conversions
<1>6. waitUntil' = now + MsToTicksCeil(timeout_ms')
  BY DEF Wait
<1> QED
  BY <1>1, <1>3, <1>4, <1>5, <1>6

LEMMA ScheduleStep == TypeOK /\ TypeOK' /\ ScheduleInv /\ [Next]_vars => ScheduleInv'
<1> SUFFICES ASSUME TypeOK, TypeOK', ScheduleInv, [Next]_vars, BeforeWrap' PROVE ScheduleInv'
  BY DEF ScheduleInv
<1>1. BeforeWrap
  <2>1. now <= now'
    BY DEF TypeOK, Next, Tick, FrameArrives, FrameSent, OnTimeout, OnCallback, vars
  <2>2. MsToTicks(MaxDelay) \in Nat /\ Wrap \in Nat
    BY Conversions, DelayRange, TickAssumption
  <2> QED BY <2>1, <2>2 DEF TypeOK, BeforeWrap
<1>2. CASE Tick
  BY <1>1, <1>2 DEF Tick, ScheduleInv, TypeOK, Latency
<1>3. CASE FrameArrives \/ FrameSent
  BY <1>1, <1>3 DEF FrameArrives, FrameSent, ScheduleInv, TypeOK
<1>4. CASE OnTimeout
  BY <1>1, <1>4, ScheduleHandler DEF OnTimeout
<1>5. CASE OnCallback
  BY <1>1, <1>5, ScheduleHandler DEF OnCallback, TypeOK
<1>6. CASE UNCHANGED vars
  BY <1>1, <1>6 DEF vars, ScheduleInv, BeforeWrap
<1> QED
  BY <1>2, <1>3, <1>4, <1>5, <1>6 DEF Next

\* Before the wrap no transmission is overdue by more than the longest timeout.
THEOREM NeverOverdue == Spec => []OverdueBounded
<1>1. TypeOK /\ ScheduleInv => OverdueBounded
  <2>1. MaxDelay \in Nat /\ MsToTicksCeil(MaxDelay) \in Nat
    BY DelayRange, Conversions
  <2> QED BY <2>1 DEF TypeOK, ScheduleInv, OverdueBounded, Latency
<1> QED
  BY <1>1, TypeInit, TypeStep, ScheduleInit, ScheduleStep, PTL DEF Spec

\* Before the wrap two transmissions start more than the shortest delay apart.
THEOREM StartsAreSpaced == Spec => MinimumSpacing
<1>1. TypeOK /\ ScheduleInv /\ [Next]_vars =>
        [lastStart' # lastStart /\ lastStart # 0 /\ BeforeWrap
           => now - lastStart > MsToTicks(MinDelay)]_vars
  <2> SUFFICES ASSUME TypeOK, ScheduleInv, Next, lastStart' # lastStart, lastStart # 0, BeforeWrap
               PROVE  now - lastStart > MsToTicks(MinDelay)
    BY DEF vars
  <2>1. Due
    BY DEF Next, Tick, FrameArrives, FrameSent, OnTimeout, OnCallback, StartNextEvent
  <2>2. PICK delay \in Delays : next_tx_tick = lastStart + MsToTicks(delay)
    BY DEF ScheduleInv
  <2>3. MsToTicks(MinDelay) \in Nat /\ MsToTicks(delay) \in Nat
        /\ MsToTicks(MinDelay) <= MsToTicks(delay)
    <3>1. delay \in Nat /\ MinDelay \in Nat /\ MinDelay <= delay
      BY DelayRange
    <3> QED BY <3>1, Conversions
  <2> QED BY <2>1, <2>2, <2>3 DEF TypeOK, Due
<1> QED
  BY <1>1, TypeInit, TypeStep, ScheduleInit, ScheduleStep, PTL DEF Spec, MinimumSpacing

-----------------------------------------------------------------------------
(***************************************************************************)
(* The armed frame, before the wrap and after it.                          *)
(***************************************************************************)
\* A frame that a timeout has armed, or that is armed on a quiet channel, is sent
\* before the wait in progress ends, and on a quiet channel the stored timeout would
\* outlast the next frame, too.  An event on its way finds the radio idle.
ArmedInv ==
  /\ pending # "none" => radio = "idle"
  /\ quiet => pending # "PACKET_RECEIVED"
  /\ radio = "txwait" => now <= txEnd
  /\ radio = "txwait" /\ (startedBy = "TIMEOUT" \/ quiet) => txEnd < waitUntil
  /\ quiet /\ (radio = "txwait" \/ pending = "PACKET_SENT")
       => TxDelay < MsToTicksCeil(timeout_ms)

\* The timeout that a start stores is longer than the transmission.
LEMMA TimeoutOutlastsFrame ==
  ASSUME TypeOK, NEW delay \in Delays, next_tx_tick' = NextTxTick(delay)
  PROVE  TxDelay < MsToTicksCeil(DelayToNext)
<1>1. delay \in Nat /\ MinDelay \in Nat /\ MinDelay <= delay
  BY DelayRange
<1>2. MsToTicks(MinDelay) \in Nat /\ MsToTicks(delay) \in Nat
      /\ MsToTicks(MinDelay) <= MsToTicks(delay)
  BY <1>1, Conversions
<1>3. /\ TicksToMs(MsToTicks(MinDelay)) \in Nat /\ TicksToMs(MsToTicks(delay)) \in Nat
      /\ TicksToMs(MsToTicks(MinDelay)) <= TicksToMs(MsToTicks(delay))
  BY <1>2, Conversions
<1>4. /\ MsToTicksCeil(TicksToMs(MsToTicks(MinDelay))) \in Nat
      /\ MsToTicksCeil(TicksToMs(MsToTicks(delay))) \in Nat
      /\ MsToTicksCeil(TicksToMs(MsToTicks(MinDelay)))
           <= MsToTicksCeil(TicksToMs(MsToTicks(delay)))
  BY <1>3, Conversions
<1>5. DelayToNext = TicksToMs(MsToTicks(delay))
  BY NextTxTickFits DEF TypeOK, DelayToNext
<1>6. TxDelay \in Nat
  BY DelayAssumption
<1> QED
  BY <1>4, <1>5, <1>6, SpacingAssumption

LEMMA ArmedInit == Init => ArmedInv
BY DEF Init, ArmedInv

\* A handler that arms a frame waits until it has been sent: with the timeout just
\* stored, or on a quiet channel with the one that was long enough before.
LEMMA ArmedHandler ==
  ASSUME TypeOK, ArmedInv, now' = now, pending' = "none",
         NEW e \in {"TIMEOUT", "PACKET_RECEIVED", "PACKET_SENT"},
         e = "TIMEOUT" \/ e = pending,
         StartNextEvent(e), Wait(e)
  PROVE  ArmedInv'
<1> USE DEF TypeOK, ArmedInv
<1>1. TxDelay \in Nat
  BY DelayAssumption
<1>2. CASE Due /\ SendTxPacket(e) /\ \E delay \in Delays : next_tx_tick' = NextTxTick(delay)
  <2>1. e = "TIMEOUT" => TxDelay < MsToTicksCeil(timeout_ms')
    BY <1>2, TimeoutOutlastsFrame DEF Wait
  <2>2. e # "TIMEOUT" /\ quiet => TxDelay < MsToTicksCeil(timeout_ms')
    BY DEF Wait
  <2>3. quiet' => quiet
    BY <1>2 DEF SendTxPacket
  <2>4. timeout_ms' \in Nat /\ MsToTicksCeil(timeout_ms') \in Nat
    <3>1. timeout_ms' \in Nat
      BY HandlerTypes
    <3> QED BY <3>1, Conversions
  <2>5. waitUntil' = now + MsToTicksCeil(timeout_ms')
    BY DEF Wait
  <2>6. CASE radio' = "txwait" /\ txEnd' = now + TxDelay /\ startedBy' = e
    BY <1>1, <2>1, <2>2, <2>3, <2>4, <2>5, <2>6
  <2>7. CASE radio' = "idle" /\ quiet' = FALSE
    BY <2>7
  <2> QED BY <1>2, <2>6, <2>7 DEF SendTxPacket
<1>3. CASE radio' = "rx"
  BY <1>3
<1> QED
  BY <1>2, <1>3 DEF StartNextEvent

LEMMA ArmedStep == TypeOK /\ ArmedInv /\ [Next]_vars => ArmedInv'
<1> SUFFICES ASSUME TypeOK, ArmedInv, [Next]_vars PROVE ArmedInv'
  OBVIOUS
<1>1. CASE Tick
  BY <1>1 DEF Tick, ArmedInv, TypeOK
<1>2. CASE FrameArrives
  BY <1>2 DEF FrameArrives, ArmedInv
<1>3. CASE FrameSent
  BY <1>3 DEF FrameSent, ArmedInv
<1>4. CASE OnTimeout
  BY <1>4, ArmedHandler DEF OnTimeout
<1>5. CASE OnCallback
  BY <1>5, ArmedHandler DEF OnCallback, TypeOK
<1>6. CASE UNCHANGED vars
  BY <1>6 DEF vars, ArmedInv
<1> QED
  BY <1>1, <1>2, <1>3, <1>4, <1>5, <1>6 DEF Next

\* No timeout takes a frame away that a timeout has armed, nor any on a quiet channel:
\* the only way such a frame leaves the radio is on the air.
THEOREM ArmedFramesAreSent == Spec => ArmedFrameIsSent
<1>1. TypeOK /\ ArmedInv /\ [Next]_vars =>
        [radio = "txwait" /\ radio' # "txwait" /\ (startedBy = "TIMEOUT" \/ quiet)
           => pending' = "PACKET_SENT"]_vars
  <2> SUFFICES ASSUME TypeOK, ArmedInv, Next, radio = "txwait", radio' # "txwait",
                      startedBy = "TIMEOUT" \/ quiet
               PROVE  pending' = "PACKET_SENT"
    OBVIOUS
  <2>1. pending = "none" /\ now < waitUntil
    BY DEF TypeOK, ArmedInv
  <2>2. ~OnTimeout /\ ~OnCallback
    BY <2>1 DEF OnTimeout, OnCallback, TypeOK
  <2> QED BY <2>2 DEF Next, Tick, FrameArrives, FrameSent
<1> QED
  BY <1>1, TypeInit, TypeStep, ArmedInit, ArmedStep, PTL DEF Spec, ArmedFrameIsSent
=============================================================================
