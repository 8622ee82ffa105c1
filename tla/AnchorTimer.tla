---------------------------- MODULE AnchorTimer ----------------------------
(***************************************************************************)
(* The anchor's transmission schedule against the kernel clock.            *)
(*                                                                         *)
(*   src/src/uwb_anchor.c  start_next_event, randomize_delay_to_next_tx,   *)
(*                         send_tx_packet, anchor_init, anchor_on_event    *)
(*   src/src/uwb.c         uwb_loop's timeout, the callbacks               *)
(*                                                                         *)
(* UwbThread has the interleavings; here a handler is one step, and what   *)
(* counts is when it runs.  Times are kernel ticks.  next_tx_tick has      *)
(* 32 bits, Wrap values, and k_uptime_ticks has no bound.  The event       *)
(* "PACKET_RECEIVED" stands for every event that ends a reception, which   *)
(* all lead to start_next_event.                                           *)
(***************************************************************************)
EXTENDS Integers

CONSTANTS
  Wrap,              \* values of ctx.next_tx_tick: 2^32
  TickNum, TickDen,  \* ticks per millisecond, as a fraction: 32768/1000
  AverageDelay,      \* randomize_delay_to_next_tx: 200 ms
  Interval,          \* randomize_delay_to_next_tx: 10 ms
  TxDelay,           \* from send_tx_packet to the end of the frame, in ticks
  MaxTime            \* bound: the clock stops here

ASSUME TickAssumption ==
  /\ Wrap \in Nat \ {0} /\ TickNum \in Nat \ {0} /\ TickDen \in Nat \ {0}
ASSUME DelayAssumption ==
  /\ AverageDelay \in Nat /\ Interval \in Nat \ {0} /\ Interval \div 2 <= AverageDelay
  /\ TxDelay \in Nat \ {0} /\ MaxTime \in Nat

\* k_ms_to_ticks_floor64, K_MSEC and k_ticks_to_ms_floor32.
MsToTicks(ms)     == (ms * TickNum) \div TickDen
MsToTicksCeil(ms) == (ms * TickNum + TickDen - 1) \div TickDen
TicksToMs(ticks)  == (ticks * TickDen) \div TickNum

\* randomize_delay_to_next_tx: average_delay + random % interval - interval / 2.
Delays   == {AverageDelay + r - Interval \div 2 : r \in 0 .. Interval - 1}
MinDelay == AverageDelay - Interval \div 2
MaxDelay == MinDelay + Interval - 1

\* The timeout that on_event returns for the shortest delay, 194 ms after both
\* roundings, outlasts a transmission of 31 ms, and 204 ms are no wrap of 36 hours.
ASSUME SpacingAssumption ==
  /\ TxDelay < MsToTicksCeil(TicksToMs(MsToTicks(MinDelay)))
  /\ MsToTicks(MaxDelay) < Wrap

\* An expired timeout wakes the thread within this many ticks.
Latency == 1

VARIABLES
  now,          \* k_uptime_ticks
  next_tx_tick, \* ctx.next_tx_tick
  timeout_ms,   \* uwb.c: timeout_ms
  waitUntil,    \* when the k_sem_take in progress times out
  radio,        \* "idle", "rx" or "txwait" (a delayed frame is armed)
  txEnd,        \* when that frame has been sent
  pending,      \* the event on its way to the thread, or "none"
  lastStart,    \* history: when a transmission was last started
  startedBy,    \* history: the event whose handler started it
  quiet         \* history: no frame has arrived, no start time was missed

vars == <<now, next_tx_tick, timeout_ms, waitUntil, radio, txEnd, pending,
          lastStart, startedBy, quiet>>

TypeOK ==
  /\ now \in Nat
  /\ next_tx_tick \in 0 .. Wrap - 1
  /\ timeout_ms \in Nat
  /\ waitUntil \in Nat
  /\ radio \in {"idle", "rx", "txwait"}
  /\ txEnd \in Nat
  /\ pending \in {"none", "PACKET_RECEIVED", "PACKET_SENT"}
  /\ lastStart \in Nat
  /\ startedBy \in {"none", "TIMEOUT", "PACKET_RECEIVED", "PACKET_SENT"}
  /\ quiet \in BOOLEAN

-----------------------------------------------------------------------------
\* Time passes: not beyond the end of a frame, and not while the thread has an
\* event to handle or a timeout that expired more than Latency ago.
Tick ==
  /\ now < MaxTime
  /\ pending = "none"
  /\ now < waitUntil + Latency
  /\ radio = "txwait" => now < txEnd
  /\ now' = now + 1
  /\ UNCHANGED <<next_tx_tick, timeout_ms, waitUntil, radio, txEnd, pending,
                 lastStart, startedBy, quiet>>

FrameArrives ==
  /\ radio = "rx"
  /\ radio' = "idle"
  /\ quiet' = FALSE
  /\ pending' = "PACKET_RECEIVED"
  /\ UNCHANGED <<now, next_tx_tick, timeout_ms, waitUntil, txEnd, lastStart, startedBy>>

FrameSent ==
  /\ radio = "txwait" /\ now = txEnd
  /\ radio' = "idle"
  /\ pending' = "PACKET_SENT"
  /\ UNCHANGED <<now, next_tx_tick, timeout_ms, waitUntil, txEnd, lastStart, startedBy,
                 quiet>>

-----------------------------------------------------------------------------
\* Mutant: a transmission within the next millisecond counts as due.
DueEarly == next_tx_tick <= now + MsToTicks(1)

\* ctx.next_tx_tick < current_ticks: 32 bits against 64.
Due == next_tx_tick < now

\* send_tx_packet: a delayed transmission, or -2 with the radio off.
SendTxPacket(e) ==
  /\ \/ radio' = "txwait" /\ txEnd' = now + TxDelay /\ UNCHANGED quiet
     \/ radio' = "idle" /\ quiet' = FALSE /\ UNCHANGED txEnd
  /\ lastStart' = now
  /\ startedBy' = e

\* Mutant: next_tx_tick keeps all the bits of the clock.
NextTxTickWide(delay) == now + MsToTicks(delay)

\* ctx.next_tx_tick = current_ticks + k_ms_to_ticks_floor64(new_delay), in 32 bits.
NextTxTick(delay) == (now + MsToTicks(delay)) % Wrap

\* start_next_event after dwt_forcetrxoff, which cancels an armed frame.
StartNextEvent(e) ==
  \/ /\ Due
     /\ \E delay \in Delays : next_tx_tick' = NextTxTick(delay)
     /\ SendTxPacket(e)
  \/ /\ ~Due
     /\ radio' = "rx"
     /\ UNCHANGED <<next_tx_tick, txEnd, lastStart, startedBy, quiet>>

\* Mutant: on_event returns ticks where uwb_loop expects milliseconds.
DelayInTicks == (next_tx_tick' - now) % Wrap

\* k_ticks_to_ms_floor32(ctx.next_tx_tick - current_ticks), in 32 bits.
DelayToNext == TicksToMs((next_tx_tick' - now) % Wrap)

\* Mutant: timeout_ms keeps its initial value.
WaitInitial(e) ==
  /\ timeout_ms' = 0
  /\ waitUntil' = now

\* uwb_loop waits again.  Only the timeout path stores what on_event returned.
Wait(e) ==
  /\ timeout_ms' = IF e = "TIMEOUT" THEN DelayToNext ELSE timeout_ms
  /\ waitUntil' = now + MsToTicksCeil(timeout_ms')

\* k_sem_take times out: on_event(UWB_EVENT_TIMEOUT).
OnTimeout ==
  /\ pending = "none" /\ now >= waitUntil
  /\ StartNextEvent("TIMEOUT")
  /\ Wait("TIMEOUT")
  /\ UNCHANGED <<now, pending>>

\* dwt_isr calls back: on_event(event).
OnCallback ==
  /\ pending # "none"
  /\ pending' = "none"
  /\ StartNextEvent(pending)
  /\ Wait(pending)
  /\ UNCHANGED now

\* anchor_init: next_tx_tick is 0 and the clock is past it.
Init ==
  /\ now = 1
  /\ next_tx_tick = 0
  /\ timeout_ms = 0
  /\ waitUntil = 1
  /\ radio = "idle" /\ txEnd = 0
  /\ pending = "none"
  /\ lastStart = 0 /\ startedBy = "none" /\ quiet = TRUE

Next == Tick \/ FrameArrives \/ FrameSent \/ OnTimeout \/ OnCallback
Spec == Init /\ [][Next]_vars

-----------------------------------------------------------------------------
\* Before next_tx_tick can wrap.
BeforeWrap == now + MsToTicks(MaxDelay) < Wrap

\* Before next_tx_tick wraps, two transmissions are started at least the minimal
\* random delay apart, however many events come between them.
MinimumSpacing ==
  [][lastStart' # lastStart /\ lastStart # 0 /\ BeforeWrap
       => now - lastStart > MsToTicks(MinDelay)]_vars

\* Before the wrap a transmission is overdue by at most one maximal timeout: the
\* timeout that uwb_loop keeps when a callback drops the new one restarts the
\* wait, but never for longer than that.
OverdueBounded ==
  BeforeWrap /\ startedBy # "none"
    => now <= next_tx_tick + MsToTicksCeil(MaxDelay) + Latency

\* An armed frame is sent when a timeout event armed it, because the timeout stored
\* with it is longer than the transmission, and on a quiet channel whichever event
\* did.  (With traffic one armed in a callback can be cancelled by the older,
\* shorter timeout that uwb_loop still holds.)
ArmedFrameIsSent ==
  [][radio = "txwait" /\ radio' # "txwait" /\ (startedBy = "TIMEOUT" \/ quiet)
       => pending' = "PACKET_SENT"]_vars
=============================================================================
