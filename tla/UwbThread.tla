----------------------------- MODULE UwbThread -----------------------------
(***************************************************************************)
(* The uwb thread, the DW1000 interrupt driver it calls and the algorithm  *)
(* it dispatches to, one SPI transaction per step, so that the chip and    *)
(* the GPIO interrupt can act between any two of them.                     *)
(*                                                                         *)
(*   src/src/uwb.c            uwb_start, uwb_loop, uwb_isr, the callbacks  *)
(*   src/src/uwb_tag.c, uwb_anchor.c, uwb_dummy.c      init and on_event   *)
(*   src/dw1000/src/deca_device.c   dwt_isr, dwt_checkirq, dwt_rxenable,   *)
(*                                  dwt_forcetrxoff, dwt_starttx           *)
(*   src/dw1000/src/port.c          the rising-edge interrupt              *)
(*                                                                         *)
(* Time is left out: the anchor's comparison of next_tx_tick with the      *)
(* clock is a choice here, and AnchorTimer models it.  wait4resp stays 0   *)
(* because nobody starts a transmission with DWT_RESPONSE_EXPECTED, and    *)
(* dblbuffon stays 0, so the branches they guard are left out.             *)
(***************************************************************************)
EXTENDS Naturals, FiniteSets

CONSTANTS
  Algorithms,     \* the algorithms the configuration may select
  ReceiverEvents  \* the status bits with which the receiver may stop

ASSUME AlgorithmsAssumption == Algorithms \subseteq {"tag", "anchor", "dummy"}
ASSUME ReceiverAssumption ==
  ReceiverEvents \subseteq {"RXFCG", "RXERR", "RXRFTO", "RXPTO"}

(***************************************************************************)
(* SYS_STATUS.  "RXFCG" stands for the group SYS_STATUS_ALL_RX_GOOD,       *)
(* "TXFRS" for ALL_TX, "RXERR" for any of the four receiver errors that    *)
(* the interrupt mask enables (RXPHE, RXFCE, RXRFSL, RXSFDTO).             *)
(***************************************************************************)
StatusBits == {"RXFCG", "TXFRS", "RXRFTO", "RXPTO", "RXERR", "LDEERR"}
AllRxTo    == {"RXRFTO", "RXPTO"}
AllRxErr   == {"RXERR", "LDEERR"}

\* Mutant: uwb_init forgets the receiver error bits.
InterruptsNoErrors == {"TXFRS", "RXFCG", "RXRFTO", "RXPTO"}

\* The mask uwb_init passes to dwt_setinterrupt: LDEERR is not in it.
Interrupts == {"TXFRS", "RXFCG", "RXRFTO", "RXPTO", "RXERR"}

VARIABLES
  \* the chip
  radio,      \* "idle", "rx", "txwait" (delayed start armed) or "tx"
  sysStatus,  \* the event bits set in SYS_STATUS
  sysMask,    \* the bits enabled in SYS_MASK
  \* the interrupt path
  irqEdge,    \* a rising edge the GPIO interrupt has not yet served
  sem,        \* count of uwb_irq_sem, at most 1
  \* the software
  algorithm,  \* uwb.c: algorithm
  timeout_ms, \* uwb.c: timeout_ms, as "zero", "finite" or "max"
  pc,         \* where the thread is
  status,     \* dwt_isr: the local copy of SYS_STATUS
  event,      \* the event on_event is handling
  mask,       \* dwt_forcetrxoff: the mask it saved
  caller      \* dwt_forcetrxoff: whom it returns to

chip     == <<radio, sysStatus, sysMask>>
software == <<algorithm, timeout_ms, pc, status, event, mask, caller>>
vars     == <<chip, irqEdge, sem, software>>

Events == {"TIMEOUT", "PACKET_RECEIVED", "PACKET_SENT", "RECEIVE_TIMEOUT",
           "RECEIVE_FAILED"}
OffPcs == {"off_mask", "off_trx", "off_clear", "off_restore"}
Pcs    == {"start", "create", "wait", "isr", "isr_rx", "isr_finfo", "isr_tx",
           "isr_to", "isr_err", "check", "on_event", "read", "rxenable",
           "schedule", "txcheck"} \cup OffPcs

TypeOK ==
  /\ radio \in {"idle", "rx", "txwait", "tx"}
  /\ sysStatus \subseteq StatusBits
  /\ sysMask \in {{}, Interrupts}
  /\ irqEdge \in BOOLEAN
  /\ sem \in {0, 1}
  /\ algorithm \in Algorithms
  /\ timeout_ms \in {"zero", "finite", "max"}
  /\ pc \in Pcs
  /\ status \subseteq StatusBits
  /\ event \in Events
  /\ mask \in {{}, Interrupts}
  /\ caller \in {"isr_to", "isr_err", "on_event"}

-----------------------------------------------------------------------------
(***************************************************************************)
(* The chip and the interrupt line.  The IRQ pin is high while an enabled  *)
(* event bit is set; the GPIO is configured for rising edges only, so an   *)
(* edge is seen only when the pin goes from low to high.                   *)
(***************************************************************************)
Active(bits, enabled) == bits \cap enabled # {}
IrqLine == Active(sysStatus, sysMask)

SetChip(r, s, m) ==
  /\ radio' = r
  /\ sysStatus' = s
  /\ sysMask' = m
  /\ irqEdge' = (irqEdge \/ (~IrqLine /\ Active(s, m)))

\* The receiver stops with event e; a good frame may carry an LDE error.
ReceiverStops ==
  /\ radio = "rx"
  /\ \E e \in ReceiverEvents :
       \E more \in IF e = "RXFCG" THEN {{}, {"LDEERR"}} ELSE {{}} :
         SetChip("idle", sysStatus \cup {e} \cup more, sysMask)
  /\ UNCHANGED <<sem, software>>

\* The delayed start time is reached: the transmitter switches on.
TransmitterStarts ==
  /\ radio = "txwait"
  /\ SetChip("tx", sysStatus, sysMask)
  /\ UNCHANGED <<sem, software>>

\* The frame has been sent.
TransmitterStops ==
  /\ radio = "tx"
  /\ SetChip("idle", sysStatus \cup {"TXFRS"}, sysMask)
  /\ UNCHANGED <<sem, software>>

\* Mutant: a semaphore without its limit of 1.
UwbIsrUnlimited ==
  /\ irqEdge
  /\ irqEdge' = FALSE
  /\ sem' = sem + 1
  /\ UNCHANGED <<chip, software>>

\* uwb_isr, in interrupt context: K_SEM_DEFINE(uwb_irq_sem, 0, 1) saturates.
UwbIsr ==
  /\ irqEdge
  /\ irqEdge' = FALSE
  /\ sem' = 1
  /\ UNCHANGED <<chip, software>>

-----------------------------------------------------------------------------
(***************************************************************************)
(* The thread.                                                             *)
(***************************************************************************)
Goto(from, to) == pc = from /\ pc' = to

\* algorithm->init in uwb_start: the tag turns its receiver on.
AlgorithmInit ==
  /\ Goto("start", "create")
  /\ SetChip(IF algorithm = "tag" THEN "rx" ELSE radio, sysStatus, sysMask)
  /\ UNCHANGED <<sem, algorithm, timeout_ms, status, event, mask, caller>>

\* k_thread_create with K_NO_WAIT: uwb_loop starts.
CreateThread ==
  /\ Goto("create", "wait")
  /\ UNCHANGED <<chip, irqEdge, sem, algorithm, timeout_ms, status, event,
                 mask, caller>>

\* uwb_loop: k_sem_take succeeds.
SemTake ==
  /\ Goto("wait", "isr")
  /\ sem = 1
  /\ sem' = 0
  /\ UNCHANGED <<chip, irqEdge, algorithm, timeout_ms, status, event, mask,
                 caller>>

\* uwb_loop: k_sem_take times out, at once when timeout_ms is 0.
SemTimeout ==
  /\ Goto("wait", "on_event")
  /\ sem = 0
  /\ event' = "TIMEOUT"
  /\ UNCHANGED <<chip, irqEdge, sem, algorithm, timeout_ms, status, mask,
                 caller>>

\* dwt_isr: status is read once, and every branch below tests this copy.
IsrReadStatus ==
  /\ Goto("isr", "isr_rx")
  /\ status' = sysStatus
  /\ UNCHANGED <<chip, irqEdge, sem, algorithm, timeout_ms, event, mask,
                 caller>>

\* dwt_isr, good frame: clear ALL_RX_GOOD, then read the frame information.
IsrRxGood ==
  /\ pc = "isr_rx"
  /\ IF "RXFCG" \in status
       THEN pc' = "isr_finfo" /\ SetChip(radio, sysStatus \ {"RXFCG"}, sysMask)
       ELSE pc' = "isr_tx" /\ UNCHANGED <<chip, irqEdge>>
  /\ UNCHANGED <<sem, algorithm, timeout_ms, status, event, mask, caller>>

\* dwt_isr, good frame: finfo and fctrl have been read; cbRxOk.
IsrRxOk ==
  /\ Goto("isr_finfo", "on_event")
  /\ event' = "PACKET_RECEIVED"
  /\ UNCHANGED <<chip, irqEdge, sem, algorithm, timeout_ms, status, mask,
                 caller>>

\* dwt_isr, transmission confirmed: clear ALL_TX; cbTxDone.
IsrTxDone ==
  /\ pc = "isr_tx"
  /\ IF "TXFRS" \in status
       THEN /\ pc' = "on_event"
            /\ event' = "PACKET_SENT"
            /\ SetChip(radio, sysStatus \ {"TXFRS"}, sysMask)
       ELSE pc' = "isr_to" /\ UNCHANGED <<chip, irqEdge, event>>
  /\ UNCHANGED <<sem, algorithm, timeout_ms, status, mask, caller>>

\* dwt_isr, timeout: clear RXRFTO only (the rest is left to
\* dwt_forcetrxoff), then dwt_forcetrxoff.
IsrRxTimeout ==
  /\ pc = "isr_to"
  /\ IF status \cap AllRxTo # {}
       THEN /\ pc' = "off_mask"
            /\ caller' = "isr_to"
            /\ SetChip(radio, sysStatus \ {"RXRFTO"}, sysMask)
       ELSE pc' = "isr_err" /\ UNCHANGED <<chip, irqEdge, caller>>
  /\ UNCHANGED <<sem, algorithm, timeout_ms, status, event, mask>>

\* dwt_isr, error: clear ALL_RX_ERR, then dwt_forcetrxoff.
IsrRxError ==
  /\ pc = "isr_err"
  /\ IF status \cap AllRxErr # {}
       THEN /\ pc' = "off_mask"
            /\ caller' = "isr_err"
            /\ SetChip(radio, sysStatus \ AllRxErr, sysMask)
       ELSE pc' = "check" /\ UNCHANGED <<chip, irqEdge, caller>>
  /\ UNCHANGED <<sem, algorithm, timeout_ms, status, event, mask>>

\* Mutant: one dwt_isr per semaphore count, with no loop around it.
CheckIrqOnce ==
  /\ Goto("check", "wait")
  /\ UNCHANGED <<chip, irqEdge, sem, algorithm, timeout_ms, status, event,
                 mask, caller>>

\* uwb_loop: while (dwt_checkirq() != 0).
CheckIrq ==
  /\ pc = "check"
  /\ pc' = IF IrqLine THEN "isr" ELSE "wait"
  /\ UNCHANGED <<chip, irqEdge, sem, algorithm, timeout_ms, status, event,
                 mask, caller>>

-----------------------------------------------------------------------------
(***************************************************************************)
(* dwt_forcetrxoff: save and clear the mask, turn the transceiver off,     *)
(* clear the events, restore the mask.  decamutexon does nothing.          *)
(***************************************************************************)
\* Mutant: the mask is cleared before it is saved.
OffMaskSwapped ==
  /\ Goto("off_mask", "off_trx")
  /\ mask' = {}
  /\ SetChip(radio, sysStatus, {})
  /\ UNCHANGED <<sem, algorithm, timeout_ms, status, event, caller>>

OffMask ==
  /\ Goto("off_mask", "off_trx")
  /\ mask' = sysMask
  /\ SetChip(radio, sysStatus, {})
  /\ UNCHANGED <<sem, algorithm, timeout_ms, status, event, caller>>

OffTrx ==
  /\ Goto("off_trx", "off_clear")
  /\ SetChip("idle", sysStatus, sysMask)
  /\ UNCHANGED <<sem, algorithm, timeout_ms, status, event, mask, caller>>

\* Mutant: the receiver timeouts are left set.
OffClearNoTimeouts ==
  /\ Goto("off_clear", "off_restore")
  /\ SetChip(radio, sysStatus \cap AllRxTo, sysMask)
  /\ UNCHANGED <<sem, algorithm, timeout_ms, status, event, mask, caller>>

\* ALL_TX, ALL_RX_ERR, ALL_RX_TO and ALL_RX_GOOD are every bit there is.
OffClear ==
  /\ Goto("off_clear", "off_restore")
  /\ SetChip(radio, {}, sysMask)
  /\ UNCHANGED <<sem, algorithm, timeout_ms, status, event, mask, caller>>

\* The dwt_isr branches then reset the receiver, which is off, and call back.
OffRestore ==
  /\ pc = "off_restore"
  /\ SetChip(radio, sysStatus, mask)
  /\ \/ caller = "on_event" /\ pc' = "schedule" /\ event' = event
     \/ caller = "isr_to" /\ pc' = "on_event" /\ event' = "RECEIVE_TIMEOUT"
     \/ caller = "isr_err" /\ pc' = "on_event" /\ event' = "RECEIVE_FAILED"
  /\ UNCHANGED <<sem, algorithm, timeout_ms, status, mask, caller>>

-----------------------------------------------------------------------------
(***************************************************************************)
(* algorithm->on_event.  uwb_loop stores the returned timeout when it made *)
(* the call itself; the four callbacks drop it.                            *)
(***************************************************************************)
ReturnsTo == [TIMEOUT |-> "wait", PACKET_RECEIVED |-> "isr_tx",
              PACKET_SENT |-> "isr_to", RECEIVE_TIMEOUT |-> "isr_err",
              RECEIVE_FAILED |-> "check"]

\* Mutant: the tag's timeout is stored whatever the algorithm returns.
ReturnMaximum(timeout) ==
  /\ pc' = ReturnsTo[event]
  /\ timeout_ms' = "max"

Return(timeout) ==
  /\ pc' = ReturnsTo[event]
  /\ timeout_ms' = IF event = "TIMEOUT" THEN timeout ELSE timeout_ms

DummyOnEvent ==
  /\ pc = "on_event" /\ algorithm = "dummy"
  /\ Return("max")
  /\ UNCHANGED <<chip, irqEdge, sem, algorithm, status, event, mask, caller>>

\* A received frame is read first, in both algorithms.
OnPacketReceived ==
  /\ Goto("on_event", "read")
  /\ algorithm # "dummy" /\ event = "PACKET_RECEIVED"
  /\ UNCHANGED <<chip, irqEdge, sem, algorithm, timeout_ms, status, event,
                 mask, caller>>

\* tag_on_event goes on to dwt_rxenable ...
TagRestart ==
  /\ pc = "read" \/ (pc = "on_event" /\ event # "PACKET_RECEIVED")
  /\ algorithm = "tag"
  /\ pc' = "rxenable"
  /\ UNCHANGED <<chip, irqEdge, sem, algorithm, timeout_ms, status, event,
                 mask, caller>>

\* Mutant: the anchor does not turn the transceiver off first.
AnchorRestartNoOff ==
  /\ pc = "read" \/ (pc = "on_event" /\ event # "PACKET_RECEIVED")
  /\ algorithm = "anchor"
  /\ pc' = "schedule"
  /\ UNCHANGED <<chip, irqEdge, sem, algorithm, timeout_ms, status, event,
                 mask, caller>>

\* ... and start_next_event of the anchor starts with dwt_forcetrxoff.
AnchorRestart ==
  /\ pc = "read" \/ (pc = "on_event" /\ event # "PACKET_RECEIVED")
  /\ algorithm = "anchor"
  /\ pc' = "off_mask"
  /\ caller' = "on_event"
  /\ UNCHANGED <<chip, irqEdge, sem, algorithm, timeout_ms, status, event,
                 mask>>

\* dwt_rxenable(DWT_START_RX_IMMEDIATE), the last call of both algorithms.
RxEnable ==
  /\ pc = "rxenable"
  /\ SetChip(IF radio = "idle" THEN "rx" ELSE radio, sysStatus, sysMask)
  /\ Return(IF algorithm = "tag" THEN "max" ELSE "finite")
  /\ UNCHANGED <<sem, algorithm, status, event, mask, caller>>

\* start_next_event: next_tx_tick is not reached.
NotDue ==
  /\ Goto("schedule", "rxenable")
  /\ UNCHANGED <<chip, irqEdge, sem, algorithm, timeout_ms, status, event,
                 mask, caller>>

\* start_next_event: a transmission is due; dwt_starttx sets TXDLYS|TXSTRT.
StartTx ==
  /\ Goto("schedule", "txcheck")
  /\ SetChip("txwait", sysStatus, sysMask)
  /\ UNCHANGED <<sem, algorithm, timeout_ms, status, event, mask, caller>>

\* dwt_starttx: the start time was not missed.
TxInTime ==
  /\ pc = "txcheck"
  /\ Return("finite")
  /\ UNCHANGED <<chip, irqEdge, sem, algorithm, status, event, mask, caller>>

\* dwt_starttx: HPDWARN or TXPUTE, so TRXOFF.  start_next_event ignores -2
\* and leaves the radio off.
TxLate ==
  /\ pc = "txcheck" /\ radio = "txwait"
  /\ SetChip("idle", sysStatus, sysMask)
  /\ Return("finite")
  /\ UNCHANGED <<sem, algorithm, status, event, mask, caller>>

-----------------------------------------------------------------------------
\* uwb_init has set the mask and the callbacks; the receiver is off.
Init ==
  /\ radio = "idle" /\ sysStatus = {} /\ sysMask = Interrupts
  /\ irqEdge = FALSE /\ sem = 0
  /\ algorithm \in Algorithms
  /\ timeout_ms = "zero"
  /\ pc = "start"
  /\ status = {} /\ event = "TIMEOUT" /\ mask = {} /\ caller = "on_event"

Chip == ReceiverStops \/ TransmitterStarts \/ TransmitterStops

Isr == \/ IsrReadStatus \/ IsrRxGood \/ IsrRxOk \/ IsrTxDone
       \/ IsrRxTimeout \/ IsrRxError \/ CheckIrq
ForceTrxOff == OffMask \/ OffTrx \/ OffClear \/ OffRestore
OnEvent == \/ DummyOnEvent \/ OnPacketReceived \/ TagRestart \/ AnchorRestart
           \/ RxEnable \/ NotDue \/ StartTx \/ TxInTime \/ TxLate
Thread  == AlgorithmInit \/ CreateThread \/ SemTake \/ Isr \/ ForceTrxOff \/ OnEvent

Next == Chip \/ UwbIsr \/ Thread \/ SemTimeout
Spec == Init /\ [][Next]_vars

(***************************************************************************)
(* The kernel runs the thread when it is ready and the interrupt when it   *)
(* is pending; a timeout that is not the maximum passes; an armed          *)
(* transmission is sent.  Nothing is assumed of the receiver.              *)
(***************************************************************************)
Fairness ==
  /\ WF_vars(Thread)
  /\ WF_vars(UwbIsr)
  /\ WF_vars(timeout_ms # "max" /\ SemTimeout)
  /\ WF_vars(TransmitterStarts) /\ WF_vars(TransmitterStops)

FairSpec == Spec /\ Fairness

-----------------------------------------------------------------------------
(***************************************************************************)
(* Properties.                                                             *)
(***************************************************************************)
\* The points from which the thread reaches dwt_checkirq before it waits.
Serving ==
  \/ pc \in {"isr", "isr_rx", "isr_finfo", "isr_tx", "isr_to", "isr_err", "check"}
  \/ pc \in OffPcs /\ caller \in {"isr_to", "isr_err"}
  \/ /\ pc \in OffPcs \cup {"on_event", "read", "rxenable", "schedule", "txcheck"}
     /\ event # "TIMEOUT"

\* The interrupt is edge triggered and the driver polls the level: while the
\* IRQ pin is high, either an edge or a semaphore count is still to be served
\* or the thread is going to look at the pin again before it waits.
NoLostInterrupt == IrqLine => irqEdge \/ sem = 1 \/ Serving

\* A tag that waits is listening, or an event is on its way to the thread: no
\* order of frames, errors, timeouts and stale semaphore counts leaves it deaf.
TagNeverDeaf ==
  algorithm = "tag" /\ pc = "wait" => radio = "rx" \/ irqEdge \/ sem = 1

\* The interrupt mask is off only inside dwt_forcetrxoff, however the calls from
\* dwt_isr and from start_next_event follow each other.
MaskRestored == pc \notin {"off_trx", "off_clear", "off_restore"} => sysMask = Interrupts

\* The anchor reads a received frame only while the receiver is off, so no
\* later frame overwrites the single receive buffer under the read.
AnchorReadsSettledFrame ==
  algorithm = "anchor" /\ pc \in {"isr_finfo", "read"} => radio # "rx"

\* The timeout and error branches of dwt_isr never abort a transmission that an
\* event of the same pass, or of an earlier one, has started, unless LDEERR is
\* among the bits it read: the error branch then cancels what RXFCG has started.
IsrKeepsTransmission ==
  [][pc = "off_trx" /\ pc' = "off_clear" /\ caller # "on_event" /\ "LDEERR" \notin status
       => radio \notin {"txwait", "tx"}]_vars

\* An event that raises the interrupt is handled: its status bit is cleared.
EventServed == Active(sysStatus, Interrupts) ~> ~Active(sysStatus, Interrupts)

\* A tag whose receiver has stopped turns it on again.
TagListensAgain == (algorithm = "tag" /\ radio = "idle") ~> (radio = "rx")

\* The anchor comes back to its schedule for ever, also after a late start has
\* left its radio off and no interrupt can come.
AnchorKeepsScheduling == (algorithm = "anchor") => []<>(pc = "schedule")

-----------------------------------------------------------------------------
(***************************************************************************)
(* The inductive invariants behind the safety properties.                  *)
(***************************************************************************)
\* While the mask is off, dwt_forcetrxoff holds the value it will restore.
MaskInv ==
  /\ MaskRestored
  /\ pc \in {"off_trx", "off_clear", "off_restore"} => mask = Interrupts

\* A tag whose receiver is off is on its way to dwt_rxenable, or an event that
\* raises the interrupt is set.
Restarting == pc \in {"isr_finfo", "on_event", "read", "rxenable"} \cup OffPcs
TagInv ==
  algorithm = "tag" =>
    /\ pc \notin {"schedule", "txcheck"} /\ radio \in {"idle", "rx"}
    /\ pc \in OffPcs => caller # "on_event"
    /\ radio = "rx" \/ pc = "start" \/ Restarting \/ Active(sysStatus, Interrupts)

\* The anchor starts the radio only after dwt_forcetrxoff has cleared every
\* event, so an event set, or seen by dwt_isr, means that the radio is off.
AnchorInv ==
  algorithm = "anchor" =>
    /\ radio # "idle" => sysStatus = {}
    /\ pc \in {"off_clear", "off_restore", "schedule", "rxenable"} => radio = "idle"
    /\ pc \in {"off_restore", "schedule", "rxenable"} => sysStatus = {}
    /\ pc = "isr_rx" /\ "RXFCG" \in status => radio = "idle"
    /\ pc = "isr_finfo" => radio = "idle"
    /\ pc = "on_event" /\ event = "PACKET_RECEIVED" => radio = "idle"
    /\ pc = "read" => radio = "idle" /\ event = "PACKET_RECEIVED"

\* The radio is still off before the algorithm is initialised, and again once
\* dwt_forcetrxoff has turned it off.
OffInv == pc \in {"start", "off_clear"} => radio = "idle"

-----------------------------------------------------------------------------
(***************************************************************************)
(* The thread and the chip together are an EventLoop.                      *)
(***************************************************************************)
KindOf == [RXFCG |-> "PACKET_RECEIVED", TXFRS |-> "PACKET_SENT",
           RXRFTO |-> "RECEIVE_TIMEOUT", RXPTO |-> "RECEIVE_TIMEOUT",
           RXERR |-> "RECEIVE_FAILED", LDEERR |-> "RECEIVE_FAILED"]
KindsOf(bits) == {KindOf[b] : b \in bits}

\* An event is in hand from the write that clears its bit.
Handling ==
  CASE pc \in {"start", "create"} -> "START"
    [] pc = "isr_finfo" -> "PACKET_RECEIVED"
    [] pc \in OffPcs /\ caller = "isr_to" -> "RECEIVE_TIMEOUT"
    [] pc \in OffPcs /\ caller = "isr_err" -> "RECEIVE_FAILED"
    [] pc \in {"wait", "isr", "isr_rx", "isr_tx", "isr_to", "isr_err", "check"} -> "none"
    [] OTHER -> event

\* The bits whose branch of dwt_isr is still ahead.
Ahead ==
  CASE pc = "isr_rx" -> StatusBits
    [] pc = "isr_tx" \/ Handling = "PACKET_RECEIVED" -> StatusBits \ {"RXFCG"}
    [] pc = "isr_to" \/ Handling = "PACKET_SENT" -> AllRxTo \cup AllRxErr
    [] pc = "isr_err" \/ Handling = "RECEIVE_TIMEOUT" -> AllRxErr
    [] OTHER -> {}

\* The timeout branch leaves RXPTO to dwt_forcetrxoff.
InForceTrxOff == IF caller = "isr_to" /\ pc \in {"off_mask", "off_trx", "off_clear"}
                   THEN AllRxTo ELSE {}

Unhandled == (sysStatus \ InForceTrxOff) \cup (status \cap Ahead)

RadioOf == [idle |-> "off", rx |-> "rx", txwait |-> "tx", tx |-> "tx"]

Loop == INSTANCE EventLoop WITH
          radio <- RadioOf[radio],
          happened <- KindsOf(Unhandled),
          handling <- Handling

\* The algorithm sees one event at a time, each for something that has happened
\* and has not been handled before; nothing is forgotten, and the radio is neither
\* turned on nor stopped, but in the handling of an event.
ImplementsEventLoop == Loop!Spec
=============================================================================
