-------------------------- MODULE UwbThreadProofs --------------------------
(***************************************************************************)
(* The safety of the uwb thread, for every choice of algorithms and        *)
(* receiver events.                                                        *)
(***************************************************************************)
EXTENDS UwbThread, TLAPS

\* Every step of the thread or the chip keeps the variables in their types.
LEMMA TypeStep == TypeOK /\ [Next]_vars => TypeOK'
<1> SUFFICES ASSUME TypeOK, [Next]_vars PROVE TypeOK'
  OBVIOUS
<1> USE DEF TypeOK
<1>1. ASSUME NEW r \in {"idle", "rx", "txwait", "tx"}, NEW s \in SUBSET StatusBits,
             NEW m \in {{}, Interrupts}, SetChip(r, s, m)
      PROVE  /\ radio' \in {"idle", "rx", "txwait", "tx"}
             /\ sysStatus' \subseteq StatusBits
             /\ sysMask' \in {{}, Interrupts}
             /\ irqEdge' \in BOOLEAN
  BY <1>1 DEF SetChip
<1>2. CASE Chip
  <2>1. CASE ReceiverStops
    <3>1. PICK e \in ReceiverEvents :
            \E more \in {{}, {"LDEERR"}} : SetChip("idle", sysStatus \cup {e} \cup more, sysMask)
      BY <2>1 DEF ReceiverStops
    <3>2. PICK more \in {{}, {"LDEERR"}} : SetChip("idle", sysStatus \cup {e} \cup more, sysMask)
      BY <3>1
    <3>3. sysStatus \cup {e} \cup more \in SUBSET StatusBits
      BY ReceiverAssumption DEF StatusBits
    <3> QED BY <1>1, <2>1, <3>2, <3>3 DEF ReceiverStops, software
  <2>2. CASE TransmitterStarts
    BY <1>1, <2>2 DEF TransmitterStarts, software
  <2>3. CASE TransmitterStops
    <3>1. sysStatus \cup {"TXFRS"} \in SUBSET StatusBits
      BY DEF StatusBits
    <3> QED BY <1>1, <2>3, <3>1 DEF TransmitterStops, software
  <2> QED BY <1>2, <2>1, <2>2, <2>3 DEF Chip
<1>3. CASE UwbIsr
  BY <1>3 DEF UwbIsr, chip, software
<1>4. CASE AlgorithmInit \/ CreateThread \/ SemTake \/ SemTimeout
  <2>1. CASE AlgorithmInit
    BY <1>1, <2>1 DEF AlgorithmInit, Goto, Pcs
  <2>2. CASE CreateThread \/ SemTake \/ SemTimeout
    BY <2>2 DEF CreateThread, SemTake, SemTimeout, Goto, chip, Pcs, Events
  <2> QED BY <1>4, <2>1, <2>2
<1>5. CASE Isr
  <2>1. CASE IsrReadStatus \/ IsrRxOk \/ CheckIrq
    BY <2>1 DEF IsrReadStatus, IsrRxOk, CheckIrq, Goto, chip, Pcs, Events
  <2>2. CASE IsrRxGood
    <3>1. sysStatus \ {"RXFCG"} \in SUBSET StatusBits
      OBVIOUS
    <3>2. \/ SetChip(radio, sysStatus \ {"RXFCG"}, sysMask)
          \/ UNCHANGED <<chip, irqEdge>>
      BY ONLY <2>2 DEF IsrRxGood
    <3>3. pc' \in Pcs /\ UNCHANGED <<sem, algorithm, timeout_ms, status, event, mask, caller>>
      BY ONLY <2>2 DEF IsrRxGood, Pcs
    <3> QED BY <1>1, <3>1, <3>2, <3>3 DEF chip
  <2>3. CASE IsrTxDone
    <3>1. sysStatus \ {"TXFRS"} \in SUBSET StatusBits
      OBVIOUS
    <3> QED BY <1>1, <2>3, <3>1 DEF IsrTxDone, chip, Pcs, Events
  <2>4. CASE IsrRxTimeout
    <3>1. sysStatus \ {"RXRFTO"} \in SUBSET StatusBits
      OBVIOUS
    <3> QED BY <1>1, <2>4, <3>1 DEF IsrRxTimeout, chip, Pcs, OffPcs
  <2>5. CASE IsrRxError
    <3>1. sysStatus \ AllRxErr \in SUBSET StatusBits
      OBVIOUS
    <3>2. \/ SetChip(radio, sysStatus \ AllRxErr, sysMask)
          \/ UNCHANGED <<chip, irqEdge>>
      BY ONLY <2>5 DEF IsrRxError
    <3>3. /\ pc' \in Pcs /\ caller' \in {"isr_err", caller}
          /\ UNCHANGED <<sem, algorithm, timeout_ms, status, event, mask>>
      BY ONLY <2>5 DEF IsrRxError, Pcs, OffPcs
    <3>4. /\ radio' \in {"idle", "rx", "txwait", "tx"} /\ sysStatus' \subseteq StatusBits
          /\ sysMask' \in {{}, Interrupts} /\ irqEdge' \in BOOLEAN
      <4>1. CASE SetChip(radio, sysStatus \ AllRxErr, sysMask)
        BY ONLY <1>1, <3>1, <4>1, TypeOK DEF TypeOK
      <4>2. CASE UNCHANGED <<chip, irqEdge>>
        BY ONLY <4>2, TypeOK DEF TypeOK, chip
      <4> QED BY ONLY <3>2, <4>1, <4>2
    <3> QED BY <3>3, <3>4
  <2> QED BY <1>5, <2>1, <2>2, <2>3, <2>4, <2>5 DEF Isr
<1>6. CASE ForceTrxOff
  <2>1. CASE OffMask \/ OffTrx \/ OffClear
    BY <1>1, <2>1 DEF OffMask, OffTrx, OffClear, Goto, Pcs, OffPcs
  <2>2. CASE OffRestore
    BY <1>1, <2>2 DEF OffRestore, Pcs, Events
  <2> QED BY <1>6, <2>1, <2>2 DEF ForceTrxOff
<1>7. CASE OnEvent
  <2>1. ASSUME NEW t \in {"zero", "finite", "max"}, Return(t)
        PROVE  pc' \in Pcs /\ timeout_ms' \in {"zero", "finite", "max"}
    BY <2>1 DEF Return, ReturnsTo, Events, Pcs
  <2>2. CASE DummyOnEvent
    BY <2>1, <2>2 DEF DummyOnEvent, chip
  <2>3. CASE RxEnable
    BY <1>1, <2>1, <2>3 DEF RxEnable
  <2>4. CASE TxInTime
    BY <2>1, <2>4 DEF TxInTime, chip
  <2>5. CASE TxLate
    BY <1>1, <2>1, <2>5 DEF TxLate
  <2>6. CASE StartTx
    BY <1>1, <2>6 DEF StartTx, Goto, Pcs
  <2>7. CASE OnPacketReceived \/ TagRestart \/ AnchorRestart \/ NotDue
    BY <2>7 DEF OnPacketReceived, TagRestart, AnchorRestart, NotDue, Goto, chip,
       Pcs, OffPcs
  <2> QED BY <1>7, <2>2, <2>3, <2>4, <2>5, <2>6, <2>7 DEF OnEvent
<1>8. CASE UNCHANGED vars
  BY <1>8 DEF vars, chip, software
<1> QED
  BY <1>2, <1>3, <1>4, <1>5, <1>6, <1>7, <1>8 DEF Next, Thread

\* Type correctness of the thread, the chip and the interrupt path.
THEOREM TypeCorrect == Spec => []TypeOK
<1>1. Init => TypeOK
  BY DEF Init, TypeOK, Pcs, Events
<1> QED
  BY <1>1, TypeStep, PTL DEF Spec

-----------------------------------------------------------------------------
\* The mask is saved before it is cleared, and restored from the saved copy.
LEMMA MaskStep == TypeOK /\ MaskInv /\ [Next]_vars => MaskInv'
<1> SUFFICES ASSUME TypeOK, MaskInv, [Next]_vars PROVE MaskInv'
  OBVIOUS
<1> USE DEF MaskInv, MaskRestored
<1>1. CASE Chip \/ UwbIsr
  BY <1>1 DEF Chip, ReceiverStops, TransmitterStarts, TransmitterStops, UwbIsr,
     SetChip, software, chip
<1>2. CASE AlgorithmInit \/ CreateThread \/ SemTake \/ SemTimeout
  BY <1>2 DEF AlgorithmInit, CreateThread, SemTake, SemTimeout, Goto, SetChip, chip
<1>3. CASE Isr
  BY <1>3 DEF Isr, IsrReadStatus, IsrRxGood, IsrRxOk, IsrTxDone, IsrRxTimeout,
     IsrRxError, CheckIrq, Goto, SetChip, chip
<1>4. CASE ForceTrxOff
  BY <1>4 DEF ForceTrxOff, OffMask, OffTrx, OffClear, OffRestore, Goto, SetChip
<1>5. CASE OnEvent
  <2>1. ASSUME NEW t, Return(t)
        PROVE  pc' \notin OffPcs
    BY <2>1 DEF Return, ReturnsTo, TypeOK, Events, OffPcs
  <2>2. CASE DummyOnEvent \/ RxEnable \/ TxInTime \/ TxLate
    BY <2>1, <2>2 DEF DummyOnEvent, RxEnable, TxInTime, TxLate, SetChip, chip, OffPcs
  <2>3. CASE OnPacketReceived \/ TagRestart \/ AnchorRestart \/ NotDue \/ StartTx
    BY <2>3 DEF OnPacketReceived, TagRestart, AnchorRestart, NotDue, StartTx,
       Goto, SetChip, chip
  <2> QED BY <1>5, <2>2, <2>3 DEF OnEvent
<1>6. CASE UNCHANGED vars
  BY <1>6 DEF vars, chip, software
<1> QED
  BY <1>1, <1>2, <1>3, <1>4, <1>5, <1>6 DEF Next, Thread

\* Every rise of the pin is latched, and only dwt_checkirq, which sees the pin
\* low, ends the serving of an interrupt.
LEMMA InterruptStep ==
  TypeOK /\ NoLostInterrupt /\ [Next]_vars => NoLostInterrupt'
<1> SUFFICES ASSUME TypeOK, NoLostInterrupt, [Next]_vars PROVE NoLostInterrupt'
  OBVIOUS
<1> USE DEF NoLostInterrupt
<1>1. ASSUME NEW r, NEW s, NEW m, SetChip(r, s, m), IrqLine', ~irqEdge'
      PROVE  IrqLine /\ ~irqEdge
  BY <1>1 DEF SetChip, IrqLine, Active
<1>2. ASSUME UNCHANGED chip PROVE IrqLine' <=> IrqLine
  BY <1>2 DEF IrqLine, Active, chip
<1>3. CASE Chip
  <2>1. UNCHANGED <<sem, pc, event, caller>>
    BY <1>3 DEF Chip, ReceiverStops, TransmitterStarts, TransmitterStops, software
  <2>2. IrqLine' /\ ~irqEdge' => IrqLine /\ ~irqEdge
    BY <1>1, <1>3 DEF Chip, ReceiverStops, TransmitterStarts, TransmitterStops
  <2> QED BY <2>1, <2>2 DEF Serving
<1>4. CASE UwbIsr
  BY <1>2, <1>4 DEF UwbIsr
<1>5. CASE AlgorithmInit \/ CreateThread \/ SemTake \/ SemTimeout
  <2>1. CASE AlgorithmInit
    BY <1>1, <2>1 DEF AlgorithmInit, Goto, Serving, OffPcs
  <2>2. CASE CreateThread \/ SemTake \/ SemTimeout
    BY <1>2, <2>2 DEF CreateThread, SemTake, SemTimeout, Goto, Serving, OffPcs
  <2> QED BY <1>5, <2>1, <2>2
<1>6. CASE Isr
  <2>1. CASE IsrReadStatus \/ IsrRxOk \/ CheckIrq
    BY <1>2, <2>1 DEF IsrReadStatus, IsrRxOk, CheckIrq, Goto, Serving
  <2>2. CASE IsrRxGood \/ IsrTxDone \/ IsrRxTimeout \/ IsrRxError
    BY <2>2 DEF IsrRxGood, IsrTxDone, IsrRxTimeout, IsrRxError, Serving, OffPcs
  <2> QED BY <1>6, <2>1, <2>2 DEF Isr
<1>7. CASE ForceTrxOff
  <2>1. UNCHANGED sem /\ (IrqLine' /\ ~irqEdge' => IrqLine /\ ~irqEdge)
    BY <1>1, <1>7 DEF ForceTrxOff, OffMask, OffTrx, OffClear, OffRestore
  <2>2. Serving => Serving'
    BY <1>7 DEF ForceTrxOff, OffMask, OffTrx, OffClear, OffRestore, Goto, Serving, OffPcs
  <2> QED BY <2>1, <2>2
<1>8. CASE OnEvent
  <2>1. UNCHANGED sem /\ (IrqLine' /\ ~irqEdge' => IrqLine /\ ~irqEdge)
    BY <1>1, <1>2, <1>8 DEF OnEvent, DummyOnEvent, OnPacketReceived, TagRestart,
       AnchorRestart, RxEnable, NotDue, StartTx, TxInTime, TxLate
  <2>2. ASSUME NEW t, Return(t), UNCHANGED event, Serving
        PROVE  event # "TIMEOUT" => Serving'
    BY <2>2 DEF Return, ReturnsTo, Serving, TypeOK, Events
  <2>3. Serving => Serving'
    BY <1>8, <2>2 DEF OnEvent, DummyOnEvent, OnPacketReceived, TagRestart,
       AnchorRestart, RxEnable, NotDue, StartTx, TxInTime, TxLate, Goto, Serving, OffPcs
  <2> QED BY <2>1, <2>3
<1>9. CASE UNCHANGED vars
  BY <1>2, <1>9 DEF vars, software, Serving
<1> QED
  BY <1>3, <1>4, <1>5, <1>6, <1>7, <1>8, <1>9 DEF Next, Thread

\* The algorithm is selected once, before the thread starts.
LEMMA AlgorithmFixed == [Next]_vars => algorithm' = algorithm
<1> SUFFICES ASSUME [Next]_vars PROVE algorithm' = algorithm
  OBVIOUS
<1>1. CASE Chip \/ UwbIsr \/ SemTimeout
  BY <1>1 DEF Chip, ReceiverStops, TransmitterStarts, TransmitterStops, UwbIsr,
     SemTimeout, software
<1>2. CASE AlgorithmInit \/ CreateThread \/ SemTake
  BY <1>2 DEF AlgorithmInit, CreateThread, SemTake
<1>3. CASE Isr
  BY <1>3 DEF Isr, IsrReadStatus, IsrRxGood, IsrRxOk, IsrTxDone, IsrRxTimeout,
     IsrRxError, CheckIrq
<1>4. CASE ForceTrxOff
  BY <1>4 DEF ForceTrxOff, OffMask, OffTrx, OffClear, OffRestore
<1>5. CASE OnEvent
  BY <1>5 DEF OnEvent, DummyOnEvent, OnPacketReceived, TagRestart, AnchorRestart,
     RxEnable, NotDue, StartTx, TxInTime, TxLate
<1>6. CASE UNCHANGED vars
  BY <1>6 DEF vars, software
<1> QED
  BY <1>1, <1>2, <1>3, <1>4, <1>5, <1>6 DEF Next, Thread

\* A tag never reaches the transmit path, and clears an event only on the way to
\* dwt_rxenable.
LEMMA TagStep == TypeOK /\ TagInv /\ [Next]_vars => TagInv'
<1> SUFFICES ASSUME TypeOK, TagInv, [Next]_vars, algorithm' = "tag" PROVE TagInv'
  BY DEF TagInv
<1>0. algorithm = "tag"
  BY AlgorithmFixed
<1> USE <1>0 DEF TagInv, Restarting, OffPcs
<1>1. CASE Chip
  <2>1. CASE ReceiverStops
    <3>1. PICK e \in ReceiverEvents : e \in sysStatus'
      BY <2>1 DEF ReceiverStops, SetChip
    <3>2. Active(sysStatus', Interrupts)
      BY <3>1, ReceiverAssumption DEF Active, Interrupts
    <3> QED BY <2>1, <3>2 DEF ReceiverStops, SetChip, software
  <2>2. CASE TransmitterStarts \/ TransmitterStops
    BY <2>2 DEF TransmitterStarts, TransmitterStops
  <2> QED BY <1>1, <2>1, <2>2 DEF Chip
<1>2. CASE UwbIsr
  BY <1>2 DEF UwbIsr, chip, software
<1>3. CASE AlgorithmInit \/ CreateThread \/ SemTake \/ SemTimeout
  BY <1>3 DEF AlgorithmInit, CreateThread, SemTake, SemTimeout, Goto, SetChip, chip
<1>4. CASE Isr
  BY <1>4 DEF Isr, IsrReadStatus, IsrRxGood, IsrRxOk, IsrTxDone, IsrRxTimeout,
     IsrRxError, CheckIrq, Goto, SetChip, chip
<1>5. CASE ForceTrxOff
  BY <1>5 DEF ForceTrxOff, OffMask, OffTrx, OffClear, OffRestore, Goto, SetChip
<1>6. CASE OnEvent
  BY <1>6 DEF OnEvent, DummyOnEvent, OnPacketReceived, TagRestart, AnchorRestart,
     RxEnable, Return, ReturnsTo, NotDue, StartTx, TxInTime, TxLate, Goto, SetChip, chip,
     TypeOK, Events
<1>7. CASE UNCHANGED vars
  BY <1>7 DEF vars, chip, software
<1> QED
  BY <1>1, <1>2, <1>3, <1>4, <1>5, <1>6, <1>7 DEF Next, Thread

\* The anchor turns the radio on only with every event cleared.
LEMMA AnchorStep == TypeOK /\ AnchorInv /\ [Next]_vars => AnchorInv'
<1> SUFFICES ASSUME TypeOK, AnchorInv, [Next]_vars, algorithm = "anchor" PROVE AnchorInv'
  BY AlgorithmFixed DEF AnchorInv
<1> USE DEF AnchorInv
<1>1. CASE Chip
  BY <1>1 DEF Chip, ReceiverStops, TransmitterStarts, TransmitterStops, SetChip, software
<1>2. CASE UwbIsr
  BY <1>2 DEF UwbIsr, chip, software
<1>3. CASE AlgorithmInit \/ CreateThread \/ SemTake \/ SemTimeout
  BY <1>3 DEF AlgorithmInit, CreateThread, SemTake, SemTimeout, Goto, SetChip, chip
<1>4. CASE Isr
  BY <1>4 DEF Isr, IsrReadStatus, IsrRxGood, IsrRxOk, IsrTxDone, IsrRxTimeout,
     IsrRxError, CheckIrq, Goto, SetChip, chip
<1>5. CASE ForceTrxOff
  BY <1>5 DEF ForceTrxOff, OffMask, OffTrx, OffClear, OffRestore, Goto, SetChip
<1>6. CASE OnEvent
  <2>1. ASSUME NEW t, Return(t)
        PROVE  pc' \in {"wait", "isr_tx", "isr_to", "isr_err", "check"}
    BY <2>1 DEF Return, ReturnsTo, TypeOK, Events
  <2>2. CASE DummyOnEvent \/ RxEnable \/ TxInTime \/ TxLate
    BY <2>1, <2>2 DEF DummyOnEvent, RxEnable, TxInTime, TxLate, SetChip, chip
  <2>3. CASE OnPacketReceived \/ TagRestart \/ AnchorRestart \/ NotDue \/ StartTx
    BY <2>3 DEF OnPacketReceived, TagRestart, AnchorRestart, NotDue, StartTx,
       Goto, SetChip, chip
  <2> QED BY <1>6, <2>2, <2>3 DEF OnEvent
<1>7. CASE UNCHANGED vars
  BY <1>7 DEF vars, chip, software
<1> QED
  BY <1>1, <1>2, <1>3, <1>4, <1>5, <1>6, <1>7 DEF Next, Thread

-----------------------------------------------------------------------------
(***************************************************************************)
(* What dwt_isr has read and not handled yet.                              *)
(***************************************************************************)
\* Only the anchor transmits.
TransmitInv ==
  algorithm # "anchor" =>
    /\ radio \notin {"txwait", "tx"} /\ pc \notin {"schedule", "txcheck"}
    /\ pc \in OffPcs => caller # "on_event"

\* The anchor's radio stops with one event, or with LDEERR beside a good frame.
OneEvent(bits) == \A a, b \in bits : a = b \/ {a, b} = {"RXFCG", "LDEERR"}

\* The event that on_event handles is one that dwt_isr has read.
EventRead ==
  /\ event = "PACKET_RECEIVED" => "RXFCG" \in status
  /\ event = "PACKET_SENT" => "TXFRS" \in status
  /\ event = "RECEIVE_TIMEOUT" => status \cap AllRxTo # {}
  /\ event = "RECEIVE_FAILED" => status \cap AllRxErr # {}

\* As long as a timeout or an error that dwt_isr has read is still to be handled, nothing
\* has turned the anchor's radio on again.
StopInv ==
  algorithm = "anchor" =>
    /\ OneEvent(sysStatus) /\ OneEvent(status)
    /\ pc = "isr_finfo" => "RXFCG" \in status
    /\ pc \in OffPcs /\ caller = "isr_to" => status \cap AllRxTo # {}
    /\ pc \in OffPcs /\ caller = "isr_err" => status \cap AllRxErr # {}
    /\ pc \in {"on_event", "read", "rxenable", "schedule", "txcheck"} => EventRead
    /\ pc \in OffPcs /\ caller = "on_event" => EventRead
    /\ pc \in {"isr_rx", "isr_tx", "isr_to"} /\ status \cap AllRxTo # {} => radio = "idle"
    /\ /\ pc \in {"isr_rx", "isr_tx", "isr_to", "isr_err"}
       /\ status \cap AllRxErr # {} /\ "LDEERR" \notin status
       => radio = "idle"
    /\ pc \in OffPcs /\ caller # "on_event" /\ "LDEERR" \notin status => radio = "idle"

\* A tag and the dummy algorithm never get to dwt_starttx.
LEMMA TransmitStep == TypeOK /\ TransmitInv /\ [Next]_vars => TransmitInv'
<1> SUFFICES ASSUME TypeOK, TransmitInv, [Next]_vars, algorithm # "anchor" PROVE TransmitInv'
  BY AlgorithmFixed DEF TransmitInv
<1> USE DEF TransmitInv, OffPcs
<1>1. CASE Chip \/ UwbIsr
  BY <1>1 DEF Chip, ReceiverStops, TransmitterStarts, TransmitterStops, UwbIsr,
     SetChip, software, chip
<1>2. CASE AlgorithmInit \/ CreateThread \/ SemTake \/ SemTimeout
  BY <1>2 DEF AlgorithmInit, CreateThread, SemTake, SemTimeout, Goto, SetChip, chip
<1>3. CASE Isr
  BY <1>3 DEF Isr, IsrReadStatus, IsrRxGood, IsrRxOk, IsrTxDone, IsrRxTimeout,
     IsrRxError, CheckIrq, Goto, SetChip, chip
<1>4. CASE ForceTrxOff
  BY <1>4 DEF ForceTrxOff, OffMask, OffTrx, OffClear, OffRestore, Goto, SetChip
<1>5. CASE OnEvent
  BY <1>5 DEF OnEvent, DummyOnEvent, OnPacketReceived, TagRestart, AnchorRestart,
     RxEnable, Return, ReturnsTo, NotDue, StartTx, TxInTime, TxLate, Goto, SetChip, chip,
     TypeOK, Events
<1>6. CASE UNCHANGED vars
  BY <1>6 DEF vars, chip, software
<1> QED
  BY <1>1, <1>2, <1>3, <1>4, <1>5, <1>6 DEF Next, Thread

\* A callback has an event behind it that excludes the timeouts and errors which the
\* same dwt_isr goes on to test.
LEMMA StopStep == TypeOK /\ AnchorInv /\ StopInv /\ [Next]_vars => StopInv'
<1> SUFFICES ASSUME TypeOK, AnchorInv, StopInv, [Next]_vars, algorithm = "anchor" PROVE StopInv'
  BY AlgorithmFixed DEF StopInv
<1> USE DEF StopInv, AnchorInv, EventRead
<1>0. ASSUME NEW bits, NEW more \in SUBSET bits, OneEvent(bits) PROVE OneEvent(more)
  BY <1>0 DEF OneEvent
<1>1. CASE Chip
  <2>1. CASE ReceiverStops
    <3>1. PICK e \in ReceiverEvents : \E more \in IF e = "RXFCG" THEN {{}, {"LDEERR"}} ELSE {{}} :
            SetChip("idle", sysStatus \cup {e} \cup more, sysMask)
      BY <2>1 DEF ReceiverStops
    <3>2. OneEvent(sysStatus')
      BY <2>1, <3>1 DEF ReceiverStops, SetChip, OneEvent
    <3> QED BY <2>1, <3>1, <3>2 DEF ReceiverStops, SetChip, software
  <2>2. CASE TransmitterStarts \/ TransmitterStops
    BY <2>2 DEF TransmitterStarts, TransmitterStops, SetChip, software, OneEvent
  <2> QED BY <1>1, <2>1, <2>2 DEF Chip
<1>2. CASE UwbIsr
  BY <1>2 DEF UwbIsr, chip, software
<1>3. CASE AlgorithmInit \/ CreateThread \/ SemTake \/ SemTimeout
  BY <1>3 DEF AlgorithmInit, CreateThread, SemTake, SemTimeout, Goto, SetChip, chip, OffPcs
<1>4. CASE Isr
  BY <1>0, <1>4 DEF Isr, IsrReadStatus, IsrRxGood, IsrRxOk, IsrTxDone, IsrRxTimeout,
     IsrRxError, CheckIrq, Goto, SetChip, chip, OffPcs
<1>5. CASE ForceTrxOff
  <2>1. CASE OffMask
    BY <2>1 DEF OffMask, Goto, SetChip, OffPcs
  <2>2. CASE OffTrx
    BY <2>2 DEF OffTrx, Goto, SetChip, OffPcs
  <2>3. CASE OffClear
    <3>1. OneEvent({})
      BY DEF OneEvent
    <3> QED BY <2>3, <3>1 DEF OffClear, Goto, SetChip, OffPcs
  <2>4. CASE OffRestore
    BY <2>4 DEF OffRestore, SetChip, OffPcs
  <2> QED BY <1>5, <2>1, <2>2, <2>3, <2>4 DEF ForceTrxOff
<1>6. CASE OnEvent
  <2>1. ASSUME EventRead, NEW t, Return(t)
        PROVE  /\ pc' \in {"wait", "isr_tx", "isr_to", "isr_err", "check"}
               /\ pc' = "isr_tx" => "RXFCG" \in status
               /\ pc' = "isr_to" => "TXFRS" \in status
               /\ pc' = "isr_err" => status \cap AllRxTo # {}
    BY <2>1 DEF Return, ReturnsTo, TypeOK, Events
  <2>2. \A a, b \in status : a = b \/ (a \in {"RXFCG", "LDEERR"} /\ b \in {"RXFCG", "LDEERR"})
    <3> SUFFICES ASSUME NEW a \in status, NEW b \in status, a # b
                 PROVE  a \in {"RXFCG", "LDEERR"} /\ b \in {"RXFCG", "LDEERR"}
      OBVIOUS
    <3>1. OneEvent(status)
      OBVIOUS
    <3>2. {a, b} = {"RXFCG", "LDEERR"}
      BY ONLY <3>1, a \in status, b \in status, a # b DEF OneEvent
    <3>3. a \in {a, b} /\ b \in {a, b}
      OBVIOUS
    <3> QED BY ONLY <3>2, <3>3
  <2>3. /\ "RXFCG" \in status \/ "TXFRS" \in status => status \cap AllRxTo = {}
        /\ /\ "RXFCG" \in status \/ "TXFRS" \in status \/ status \cap AllRxTo # {}
           /\ "LDEERR" \notin status
           => status \cap AllRxErr = {}
    BY <2>2 DEF AllRxTo, AllRxErr
  <2>4. CASE RxEnable \/ TxInTime \/ TxLate
    <3>1. /\ EventRead
          /\ \E t : Return(t)
          /\ UNCHANGED <<algorithm, status, sysStatus>>
      BY <2>4 DEF RxEnable, TxInTime, TxLate, SetChip, chip
    <3> QED BY <2>1, <2>3, <3>1 DEF OffPcs
  <2>5. CASE OnPacketReceived \/ TagRestart \/ AnchorRestart \/ NotDue \/ StartTx \/ DummyOnEvent
    BY <2>5 DEF OnPacketReceived, TagRestart, AnchorRestart, NotDue, StartTx, DummyOnEvent,
       Goto, SetChip, chip, OffPcs
  <2> QED BY <1>6, <2>4, <2>5 DEF OnEvent
<1>7. CASE UNCHANGED vars
  BY <1>7 DEF vars, chip, software
<1> QED
  BY <1>1, <1>2, <1>3, <1>4, <1>5, <1>6, <1>7 DEF Next, Thread

-----------------------------------------------------------------------------
\* The conjunction of the invariants holds initially and is kept.
LEMMA Invariant ==
  Spec => [](TypeOK /\ MaskInv /\ NoLostInterrupt /\ TagInv /\ AnchorInv /\ TransmitInv /\ StopInv)
<1>1. Init => /\ MaskInv /\ NoLostInterrupt /\ TagInv /\ AnchorInv
              /\ TransmitInv /\ StopInv
  BY DEF Init, MaskInv, MaskRestored, NoLostInterrupt, IrqLine, Active, TagInv, AnchorInv,
     OffPcs, TransmitInv, StopInv, OneEvent
<1> QED
  BY <1>1, TypeCorrect, MaskStep, InterruptStep, TagStep, AnchorStep, TransmitStep, StopStep,
     PTL DEF Spec

\* No interrupt is lost between the edge-triggered pin and the thread.
THEOREM InterruptNeverLost == Spec => []NoLostInterrupt
  BY Invariant, PTL

\* The interrupt mask is off only inside dwt_forcetrxoff.
THEOREM MaskAlwaysRestored == Spec => []MaskRestored
<1>1. MaskInv => MaskRestored
  BY DEF MaskInv
<1> QED
  BY <1>1, Invariant, PTL

\* A waiting tag is listening or has an event on its way.
THEOREM TagIsNeverDeaf == Spec => []TagNeverDeaf
<1>1. MaskInv /\ NoLostInterrupt /\ TagInv => TagNeverDeaf
  BY DEF MaskInv, MaskRestored, NoLostInterrupt, TagInv, TagNeverDeaf, Serving,
     Restarting, IrqLine, OffPcs
<1> QED
  BY <1>1, Invariant, PTL

\* The anchor never reads the receive buffer while the receiver is on.
THEOREM AnchorReadsSafely == Spec => []AnchorReadsSettledFrame
<1>1. AnchorInv => AnchorReadsSettledFrame
  BY DEF AnchorInv, AnchorReadsSettledFrame
<1> QED
  BY <1>1, Invariant, PTL

\* The timeout and error branches of dwt_isr switch the transceiver off only while it is
\* not transmitting, unless LDEERR is among the bits they read.
THEOREM IsrSparesTransmission == Spec => IsrKeepsTransmission
<1>1. TransmitInv /\ StopInv => (pc = "off_trx" /\ caller # "on_event" /\ "LDEERR" \notin status
                                 => radio \notin {"txwait", "tx"})
  BY DEF TransmitInv, StopInv, OffPcs
<1>2. TransmitInv /\ StopInv =>
        [pc = "off_trx" /\ pc' = "off_clear" /\ caller # "on_event" /\ "LDEERR" \notin status
           => radio \notin {"txwait", "tx"}]_vars
  BY <1>1
<1> QED
  BY <1>2, Invariant, PTL DEF IsrKeepsTransmission

-----------------------------------------------------------------------------
(***************************************************************************)
(* The thread and the chip implement EventLoop.                            *)
(***************************************************************************)
\* Without the bits of a kind, without the kind.
LEMMA KindsOfOthers ==
  ASSUME NEW A, NEW k
  PROVE  KindsOf({b \in A : KindOf[b] # k}) = KindsOf(A) \ {k}
BY DEF KindsOf

\* Before uwb_start nothing has happened.
LEMMA LoopInit == Init => Loop!Init
BY DEF Init, Loop!Init, RadioOf, KindsOf, Unhandled, Handling, InForceTrxOff, Ahead, OffPcs

\* A step that only moves the thread on is none of the loop's.
LEMMA LoopStutters ==
  ASSUME Handling' = Handling, Unhandled' = Unhandled, RadioOf[radio'] = RadioOf[radio]
  PROVE  UNCHANGED Loop!vars
BY DEF Loop!vars, KindsOf

\* Clearing the bits of a kind, with the branches of dwt_isr before it behind, begins an
\* event.
LEMMA LoopBegins ==
  ASSUME NEW k, Handling = "none", Handling' = k,
         \E b \in Unhandled : KindOf[b] = k,
         Unhandled' = {b \in Unhandled : KindOf[b] # k},
         radio' = radio
  PROVE  Loop!Begin
<1>1. KindsOf(Unhandled') = KindsOf(Unhandled) \ {k}
  BY KindsOfOthers
<1>2. k \in KindsOf(Unhandled)
  BY DEF KindsOf
<1>3. KindsOf(Unhandled)' = KindsOf(Unhandled')
  BY DEF KindsOf
<1> QED BY <1>1, <1>2, <1>3 DEF Loop!Begin

\* What dwt_forcetrxoff clears with the radio off is forgotten.
LEMMA LoopForgets ==
  ASSUME Handling # "none", Handling' = Handling, radio = "idle", radio' = "idle",
         Unhandled' \subseteq Unhandled
  PROVE  Loop!Forget
<1>1. KindsOf(Unhandled)' \subseteq KindsOf(Unhandled)
  BY DEF KindsOf
<1> QED BY <1>1 DEF Loop!Forget, Loop!InHand, RadioOf

\* Where dwt_isr goes on to after a callback, and what it still tests there.
AheadAfter(e) == CASE e = "PACKET_RECEIVED" -> StatusBits \ {"RXFCG"}
                   [] e = "PACKET_SENT" -> AllRxTo \cup AllRxErr
                   [] e = "RECEIVE_TIMEOUT" -> AllRxErr
                   [] OTHER -> {}

\* In on_event, or in the dwt_forcetrxoff that it has called.
InHandler == \/ pc \in {"on_event", "read", "rxenable", "schedule", "txcheck"}
             \/ pc \in OffPcs /\ caller = "on_event"

\* What is in hand, which branches are ahead, and what dwt_forcetrxoff has still to clear ...
At(h, ahead, off) == Handling = h /\ Ahead = ahead /\ InForceTrxOff = off

\* ... at each point of the thread.
Points ==
  /\ pc \in {"start", "create"} => At("START", {}, {})
  /\ pc \in {"wait", "isr", "check"} => At("none", {}, {})
  /\ pc = "isr_rx" => At("none", StatusBits, {})
  /\ pc = "isr_finfo" => At("PACKET_RECEIVED", StatusBits \ {"RXFCG"}, {})
  /\ pc = "isr_tx" => At("none", StatusBits \ {"RXFCG"}, {})
  /\ pc = "isr_to" => At("none", AllRxTo \cup AllRxErr, {})
  /\ pc = "isr_err" => At("none", AllRxErr, {})
  /\ pc \in {"off_mask", "off_trx", "off_clear"} /\ caller = "isr_to"
       => At("RECEIVE_TIMEOUT", AllRxErr, AllRxTo)
  /\ pc = "off_restore" /\ caller = "isr_to" => At("RECEIVE_TIMEOUT", AllRxErr, {})
  /\ pc \in OffPcs /\ caller = "isr_err" => At("RECEIVE_FAILED", {}, {})
  /\ InHandler => At(event, AheadAfter(event), {})

\* The table is that of the definitions.
LEMMA PointsHold == Points
<1> USE DEF Points, At, Handling, OffPcs
<1>1. CASE pc \in {"start", "create"}
  BY <1>1 DEF Ahead, InForceTrxOff, InHandler
<1>2. CASE pc \in {"wait", "isr", "check", "isr_rx", "isr_finfo", "isr_tx", "isr_to", "isr_err"}
  BY <1>2 DEF Ahead, InForceTrxOff, InHandler
<1>3. CASE pc \in OffPcs /\ caller = "isr_to"
  BY <1>3 DEF Ahead, InForceTrxOff, InHandler
<1>4. CASE pc \in OffPcs /\ caller = "isr_err"
  BY <1>4 DEF Ahead, InForceTrxOff, InHandler
<1>5. CASE InHandler
  <2>1. Handling = event /\ InForceTrxOff = {}
    BY <1>5 DEF InHandler, InForceTrxOff
  <2>2. Ahead = AheadAfter(event)
    BY <1>5, <2>1 DEF Ahead, AheadAfter, InHandler
  <2>3. pc \in {"on_event", "read", "rxenable", "schedule", "txcheck"} \/ caller = "on_event"
    BY <1>5 DEF InHandler
  <2>4. pc \in {"on_event", "read", "rxenable", "schedule", "txcheck"} \cup OffPcs
    BY <1>5 DEF InHandler
  <2> HIDE DEF Handling, OffPcs
  <2> QED BY <1>5, <2>1, <2>2, <2>3, <2>4 DEF OffPcs
<1>6. CASE /\ pc \notin {"start", "create", "wait", "isr", "check", "isr_rx", "isr_finfo",
                         "isr_tx", "isr_to", "isr_err"}
           /\ ~(pc \in OffPcs /\ caller \in {"isr_to", "isr_err"}) /\ ~InHandler
  BY <1>6
<1> QED BY <1>1, <1>2, <1>3, <1>4, <1>5, <1>6

\* What the refinement needs to know of the radio.
LoopInv == TypeOK /\ OffInv /\ AnchorInv /\ TransmitInv

\* Nothing turns the radio on while dwt_forcetrxoff is at work.
LEMMA OffStep == TypeOK /\ OffInv /\ [Next]_vars => OffInv'
<1> SUFFICES ASSUME TypeOK, OffInv, [Next]_vars PROVE OffInv'
  OBVIOUS
<1> USE DEF OffInv
<1>1. CASE Chip \/ UwbIsr
  BY <1>1 DEF Chip, ReceiverStops, TransmitterStarts, TransmitterStops, UwbIsr,
     SetChip, software, chip
<1>2. CASE AlgorithmInit \/ CreateThread \/ SemTake \/ SemTimeout
  BY <1>2 DEF AlgorithmInit, CreateThread, SemTake, SemTimeout, Goto
<1>3. CASE Isr
  BY <1>3 DEF Isr, IsrReadStatus, IsrRxGood, IsrRxOk, IsrTxDone, IsrRxTimeout,
     IsrRxError, CheckIrq, Goto
<1>4. CASE ForceTrxOff
  BY <1>4 DEF ForceTrxOff, OffMask, OffTrx, OffClear, OffRestore, Goto, SetChip
<1>5. CASE OnEvent
  BY <1>5 DEF OnEvent, DummyOnEvent, OnPacketReceived, TagRestart, AnchorRestart,
     RxEnable, Return, ReturnsTo, NotDue, StartTx, TxInTime, TxLate, Goto, TypeOK, Events
<1>6. CASE UNCHANGED vars
  BY <1>6 DEF vars, chip, software
<1> QED
  BY <1>1, <1>2, <1>3, <1>4, <1>5, <1>6 DEF Next, Thread

\* Each branch of dwt_isr begins an event or passes it by.
LEMMA IsrIsLoop ==
  ASSUME TypeOK, Isr
  PROVE  [Loop!Next]_(Loop!vars)
<1>p. Points /\ Points'
  BY PointsHold, PTL
<1>r. radio' = radio
  BY DEF Isr, IsrReadStatus, IsrRxGood, IsrRxOk, IsrTxDone, IsrRxTimeout, IsrRxError,
         CheckIrq, SetChip, chip
<1>s. ASSUME Handling' = Handling, Unhandled' = Unhandled
      PROVE  [Loop!Next]_(Loop!vars)
  BY <1>r, <1>s, LoopStutters
<1>b. ASSUME NEW k, Handling = "none", Handling' = k,
             \E b \in Unhandled : KindOf[b] = k,
             Unhandled' = {b \in Unhandled : KindOf[b] # k}
      PROVE  [Loop!Next]_(Loop!vars)
  BY <1>b, <1>r, LoopBegins DEF Loop!Next
<1>t. sysStatus \subseteq StatusBits /\ status \subseteq StatusBits
  BY DEF TypeOK
<1>1. CASE IsrReadStatus
  BY <1>1, <1>p, <1>s, <1>t DEF IsrReadStatus, Goto, Points, At, Unhandled, chip
<1>2. CASE IsrRxGood
  <2>1. pc = "isr_rx" /\ status' = status /\ At("none", StatusBits, {})
    BY <1>2, <1>p DEF IsrRxGood, Points
  <2>2. CASE "RXFCG" \in status
    <3>1. pc' = "isr_finfo" /\ sysStatus' = sysStatus \ {"RXFCG"}
      BY <1>2, <2>2 DEF IsrRxGood, SetChip
    <3>2. At("PACKET_RECEIVED", StatusBits \ {"RXFCG"}, {})'
      BY <1>p, <3>1 DEF Points
    <3>3. Unhandled = sysStatus \cup status
      BY <1>t, <2>1 DEF At, Unhandled
    <3>4. Unhandled' = (sysStatus \cup status) \ {"RXFCG"}
      BY <1>t, <2>1, <3>1, <3>2 DEF At, Unhandled
    <3>5. \A b \in sysStatus \cup status : KindOf[b] = "PACKET_RECEIVED" <=> b = "RXFCG"
      BY <1>t DEF KindOf, StatusBits
    <3> QED BY <1>b, <2>1, <2>2, <3>2, <3>3, <3>4, <3>5 DEF At
  <2>3. CASE "RXFCG" \notin status
    <3>1. pc' = "isr_tx" /\ sysStatus' = sysStatus
      BY <1>2, <2>3 DEF IsrRxGood, chip
    <3>2. At("none", StatusBits \ {"RXFCG"}, {})'
      BY <1>p, <3>1 DEF Points
    <3> QED BY <1>s, <1>t, <2>1, <2>3, <3>1, <3>2 DEF At, Unhandled
  <2> QED BY <2>2, <2>3
<1>3. CASE IsrRxOk
  <2>1. AheadAfter("PACKET_RECEIVED") = StatusBits \ {"RXFCG"}
    BY DEF AheadAfter
  <2> QED BY <1>3, <1>p, <1>s, <2>1 DEF IsrRxOk, Goto, Points, At, InHandler, Unhandled, chip
<1>4. CASE IsrTxDone
  <2>1. pc = "isr_tx" /\ status' = status /\ At("none", StatusBits \ {"RXFCG"}, {})
    BY <1>4, <1>p DEF IsrTxDone, Points
  <2>2. CASE "TXFRS" \in status
    <3>1. pc' = "on_event" /\ event' = "PACKET_SENT" /\ sysStatus' = sysStatus \ {"TXFRS"}
      BY <1>4, <2>2 DEF IsrTxDone, SetChip
    <3>2. AheadAfter("PACKET_SENT") = AllRxTo \cup AllRxErr
      BY DEF AheadAfter
    <3>3. At("PACKET_SENT", AllRxTo \cup AllRxErr, {})'
      BY <1>p, <3>1, <3>2 DEF Points, InHandler, At
    <3>4. Unhandled = sysStatus \cup (status \ {"RXFCG"})
      BY <1>t, <2>1 DEF At, Unhandled
    <3>5. Unhandled' = (sysStatus \cup (status \ {"RXFCG"})) \ {"TXFRS"}
      BY <1>t, <2>1, <3>1, <3>3 DEF At, Unhandled, AllRxTo, AllRxErr, StatusBits
    <3>6. \A b \in sysStatus \cup status : KindOf[b] = "PACKET_SENT" <=> b = "TXFRS"
      BY <1>t DEF KindOf, StatusBits
    <3> QED BY <1>b, <2>1, <2>2, <3>3, <3>4, <3>5, <3>6 DEF At
  <2>3. CASE "TXFRS" \notin status
    <3>1. pc' = "isr_to" /\ sysStatus' = sysStatus
      BY <1>4, <2>3 DEF IsrTxDone, chip
    <3>2. At("none", AllRxTo \cup AllRxErr, {})'
      BY <1>p, <3>1 DEF Points
    <3>3. status \cap (StatusBits \ {"RXFCG"}) = status \cap (AllRxTo \cup AllRxErr)
      BY <1>t, <2>3 DEF StatusBits, AllRxTo, AllRxErr
    <3> QED BY <1>s, <2>1, <3>1, <3>2, <3>3 DEF At, Unhandled
  <2> QED BY <2>2, <2>3
<1>5. CASE IsrRxTimeout
  <2>1. pc = "isr_to" /\ status' = status /\ At("none", AllRxTo \cup AllRxErr, {})
    BY <1>5, <1>p DEF IsrRxTimeout, Points
  <2>2. CASE status \cap AllRxTo # {}
    <3>1. pc' = "off_mask" /\ caller' = "isr_to" /\ sysStatus' = sysStatus \ {"RXRFTO"}
      BY <1>5, <2>2 DEF IsrRxTimeout, SetChip
    <3>2. At("RECEIVE_TIMEOUT", AllRxErr, AllRxTo)'
      BY <1>p, <3>1 DEF Points
    <3>3. Unhandled = sysStatus \cup (status \cap (AllRxTo \cup AllRxErr))
      BY <2>1 DEF At, Unhandled
    <3>4. Unhandled' = (sysStatus \cup (status \cap (AllRxTo \cup AllRxErr))) \ AllRxTo
      BY <2>1, <3>1, <3>2 DEF At, Unhandled, AllRxTo, AllRxErr
    <3>5. \A b \in sysStatus \cup status : KindOf[b] = "RECEIVE_TIMEOUT" <=> b \in AllRxTo
      BY <1>t DEF KindOf, StatusBits, AllRxTo
    <3> QED BY <1>b, <2>1, <2>2, <3>2, <3>3, <3>4, <3>5 DEF At
  <2>3. CASE status \cap AllRxTo = {}
    <3>1. pc' = "isr_err" /\ sysStatus' = sysStatus
      BY <1>5, <2>3 DEF IsrRxTimeout, chip
    <3>2. At("none", AllRxErr, {})'
      BY <1>p, <3>1 DEF Points
    <3> QED BY <1>s, <2>1, <2>3, <3>1, <3>2 DEF At, Unhandled
  <2> QED BY <2>2, <2>3
<1>6. CASE IsrRxError
  <2>1. pc = "isr_err" /\ status' = status /\ At("none", AllRxErr, {})
    BY <1>6, <1>p DEF IsrRxError, Points
  <2>2. CASE status \cap AllRxErr # {}
    <3>1. pc' = "off_mask" /\ caller' = "isr_err" /\ sysStatus' = sysStatus \ AllRxErr
      BY <1>6, <2>2 DEF IsrRxError, SetChip
    <3>2. At("RECEIVE_FAILED", {}, {})'
      BY <1>p, <3>1 DEF Points, OffPcs
    <3>3. Unhandled = sysStatus \cup (status \cap AllRxErr)
      BY <2>1 DEF At, Unhandled
    <3>4. Unhandled' = (sysStatus \cup (status \cap AllRxErr)) \ AllRxErr
      BY <2>1, <3>1, <3>2 DEF At, Unhandled
    <3>5. \A b \in sysStatus \cup status : KindOf[b] = "RECEIVE_FAILED" <=> b \in AllRxErr
      BY <1>t DEF KindOf, StatusBits, AllRxErr
    <3> QED BY <1>b, <2>1, <2>2, <3>2, <3>3, <3>4, <3>5 DEF At
  <2>3. CASE status \cap AllRxErr = {}
    <3>1. pc' = "check" /\ sysStatus' = sysStatus
      BY <1>6, <2>3 DEF IsrRxError, chip
    <3>2. At("none", {}, {})'
      BY <1>p, <3>1 DEF Points
    <3> QED BY <1>s, <2>1, <2>3, <3>1, <3>2 DEF At, Unhandled
  <2> QED BY <2>2, <2>3
<1>7. CASE CheckIrq
  BY <1>7, <1>p, <1>s DEF CheckIrq, Points, At, Unhandled, chip
<1> QED BY <1>1, <1>2, <1>3, <1>4, <1>5, <1>6, <1>7 DEF Isr

\* dwt_forcetrxoff stops the radio, and then forgets what has happened.
LEMMA ForceTrxOffIsLoop ==
  ASSUME LoopInv, ForceTrxOff
  PROVE  [Loop!Next]_(Loop!vars)
<1>p. Points /\ Points'
  BY PointsHold, PTL
<1>t. sysStatus \subseteq StatusBits /\ status \subseteq StatusBits /\ status' = status
      /\ caller \in {"isr_to", "isr_err", "on_event"}
  BY DEF LoopInv, TypeOK, ForceTrxOff, OffMask, OffTrx, OffClear, OffRestore
<1>e. InHandler => event \in Events
  BY DEF LoopInv, TypeOK
<1>n. InHandler => Handling # "none"
  BY <1>p, <1>e DEF Points, At, Events
<1>1. CASE OffMask
  <2>1. /\ pc = "off_mask" /\ pc' = "off_trx" /\ caller' = caller /\ event' = event
        /\ sysStatus' = sysStatus /\ radio' = radio
    BY <1>1 DEF OffMask, Goto, SetChip
  <2>2. Handling' = Handling /\ Ahead' = Ahead /\ InForceTrxOff' = InForceTrxOff
    BY <1>p, <1>t, <2>1 DEF Points, At, OffPcs, InHandler
  <2> QED BY <1>t, <2>1, <2>2, LoopStutters DEF Unhandled
<1>2. CASE OffTrx
  <2>1. /\ pc = "off_trx" /\ pc' = "off_clear" /\ caller' = caller /\ event' = event
        /\ sysStatus' = sysStatus /\ radio' = "idle"
    BY <1>2 DEF OffTrx, Goto, SetChip
  <2>2. Handling' = Handling /\ Ahead' = Ahead /\ InForceTrxOff' = InForceTrxOff
    BY <1>p, <1>t, <2>1 DEF Points, At, OffPcs, InHandler
  <2>3. Handling # "none"
    BY <1>n, <1>p, <1>t, <2>1 DEF Points, At, OffPcs, InHandler
  <2>4. KindsOf(Unhandled)' = KindsOf(Unhandled)
    BY <1>t, <2>1, <2>2 DEF Unhandled, KindsOf
  <2> QED BY <2>1, <2>2, <2>3, <2>4 DEF Loop!Next, Loop!Abort, Loop!InHand, RadioOf
<1>3. CASE OffClear
  <2>1. /\ pc = "off_clear" /\ pc' = "off_restore" /\ caller' = caller /\ event' = event
        /\ sysStatus' = {} /\ radio' = radio /\ radio = "idle"
    BY <1>3 DEF OffClear, Goto, SetChip, LoopInv, OffInv
  <2>2. Handling' = Handling /\ Ahead' = Ahead
    BY <1>p, <1>t, <2>1 DEF Points, At, OffPcs, InHandler
  <2>3. Handling # "none"
    BY <1>n, <1>p, <1>t, <2>1 DEF Points, At, OffPcs, InHandler
  <2>4. Unhandled' \subseteq Unhandled
    BY <1>t, <2>1, <2>2 DEF Unhandled
  <2> QED BY <2>1, <2>2, <2>3, <2>4, LoopForgets DEF Loop!Next
<1>4. CASE OffRestore
  <2>1. pc = "off_restore" /\ caller' = caller /\ sysStatus' = sysStatus /\ radio' = radio
    BY <1>4 DEF OffRestore, SetChip
  <2>2. /\ AheadAfter("RECEIVE_TIMEOUT") = AllRxErr
        /\ AheadAfter("RECEIVE_FAILED") = {}
    BY DEF AheadAfter
  <2>3. /\ caller = "on_event" => pc' = "schedule" /\ event' = event
        /\ caller = "isr_to" => pc' = "on_event" /\ event' = "RECEIVE_TIMEOUT"
        /\ caller = "isr_err" => pc' = "on_event" /\ event' = "RECEIVE_FAILED"
    BY <1>4 DEF OffRestore
  <2>4. Handling' = Handling /\ Ahead' = Ahead /\ InForceTrxOff = {} /\ InForceTrxOff' = {}
    <3>1. CASE caller = "on_event"
      BY <1>p, <2>1, <2>3, <3>1 DEF Points, At, OffPcs, InHandler, AheadAfter
    <3>2. CASE caller \in {"isr_to", "isr_err"}
      BY <1>p, <2>1, <2>2, <2>3, <3>2 DEF Points, At, OffPcs, InHandler
    <3> QED BY <1>t, <3>1, <3>2
  <2> QED BY <1>t, <2>1, <2>4, LoopStutters DEF Unhandled
<1> QED BY <1>1, <1>2, <1>3, <1>4 DEF ForceTrxOff

\* on_event turns the radio on as its last step, or arms a transmission before it.
LEMMA OnEventIsLoop ==
  ASSUME LoopInv, OnEvent
  PROVE  [Loop!Next]_(Loop!vars)
<1>p. Points /\ Points'
  BY PointsHold, PTL
<1>t. status' = status /\ sysStatus' = sysStatus /\ event' = event /\ event \in Events
  BY DEF LoopInv, TypeOK, OnEvent, DummyOnEvent, OnPacketReceived, TagRestart, AnchorRestart,
         RxEnable, NotDue, StartTx, TxInTime, TxLate, SetChip, chip
<1>u. ASSUME Ahead' = Ahead, InForceTrxOff' = InForceTrxOff
      PROVE  Unhandled' = Unhandled /\ KindsOf(Unhandled)' = KindsOf(Unhandled)
  BY <1>t, <1>u DEF Unhandled, KindsOf
<1>h. InHandler => At(event, AheadAfter(event), {}) /\ Handling # "none"
  BY <1>p, <1>t DEF Points, At, Events
<1>a. AheadAfter(event)' = AheadAfter(event)
  BY <1>t DEF AheadAfter
<1>1. CASE OnPacketReceived \/ TagRestart \/ AnchorRestart \/ NotDue \/ StartTx
  <2>1. InHandler /\ InHandler'
    BY <1>1 DEF OnPacketReceived, TagRestart, AnchorRestart, NotDue, StartTx, Goto, InHandler,
       OffPcs
  <2>2. Handling' = Handling /\ Unhandled' = Unhandled
    BY <1>a, <1>h, <1>p, <1>t, <1>u, <2>1 DEF Points, At
  <2>3. CASE StartTx
    <3>1. radio = "idle" /\ radio' = "txwait"
      BY <2>3 DEF StartTx, Goto, SetChip, LoopInv, AnchorInv, TransmitInv
    <3> QED BY <1>h, <1>u, <2>1, <2>2, <3>1
            DEF Loop!Next, Loop!Transmit, Loop!InHand, RadioOf, KindsOf
  <2>4. CASE ~StartTx
    <3>1. radio' = radio
      BY <1>1, <2>4 DEF OnPacketReceived, TagRestart, AnchorRestart, NotDue, chip
    <3> QED BY <2>2, <3>1, LoopStutters
  <2> QED BY <2>3, <2>4
<1>2. CASE DummyOnEvent \/ RxEnable \/ TxInTime \/ TxLate
  <2>1. InHandler /\ pc' = ReturnsTo[event]
    BY <1>2 DEF DummyOnEvent, RxEnable, TxInTime, TxLate, Return, InHandler
  <2>2. Handling' = "none" /\ Ahead' = AheadAfter(event) /\ InForceTrxOff' = {}
    BY <1>p, <1>t, <2>1 DEF Points, At, ReturnsTo, Events, AheadAfter
  <2>3. KindsOf(Unhandled)' = KindsOf(Unhandled)
    BY <1>h, <1>u, <2>1, <2>2 DEF At
  <2>4. \/ radio' = radio
        \/ radio = "idle" /\ radio' = "rx"
        \/ radio = "txwait" /\ radio' = "idle"
    BY <1>2 DEF DummyOnEvent, RxEnable, TxInTime, TxLate, SetChip, chip
  <2>5. \/ RadioOf[radio'] = RadioOf[radio]
        \/ RadioOf[radio] = "off" /\ RadioOf[radio'] = "rx"
        \/ RadioOf[radio] = "tx" /\ RadioOf[radio'] = "off"
    BY <2>4 DEF RadioOf
  <2> QED BY <1>h, <2>1, <2>2, <2>3, <2>5 DEF Loop!Next, Loop!Finish
<1> QED BY <1>1, <1>2 DEF OnEvent

\* What the chip does while dwt_isr is at work happens for a later pass, unless the
\* timeout branch is about to clear it along with its own event.
LEMMA ChipIsLoop ==
  ASSUME LoopInv, Chip
  PROVE  [Loop!Next]_(Loop!vars)
<1>s. UNCHANGED <<pc, caller, event, status>>
  BY DEF Chip, ReceiverStops, TransmitterStarts, TransmitterStops, software
<1>h. Handling' = Handling /\ Ahead' = Ahead /\ InForceTrxOff' = InForceTrxOff
  BY <1>s DEF Handling, Ahead, InForceTrxOff
<1>1. CASE TransmitterStarts
  <2>1. sysStatus' = sysStatus /\ radio = "txwait" /\ radio' = "tx"
    BY <1>1 DEF TransmitterStarts, SetChip
  <2>2. RadioOf[radio'] = RadioOf[radio]
    BY <2>1 DEF RadioOf
  <2> QED BY <1>s, <1>h, <2>1, <2>2, LoopStutters DEF Unhandled
<1>2. CASE TransmitterStops
  <2>1. sysStatus' = sysStatus \cup {"TXFRS"} /\ radio = "tx" /\ radio' = "idle"
    BY <1>2 DEF TransmitterStops, SetChip
  <2>2. InForceTrxOff \in {{}, AllRxTo}
    BY DEF InForceTrxOff
  <2>3. Unhandled' = Unhandled \cup {"TXFRS"}
    BY <1>s, <1>h, <2>1, <2>2 DEF Unhandled, AllRxTo
  <2>4. KindsOf(Unhandled)' = KindsOf(Unhandled) \cup {"PACKET_SENT"}
    BY <2>3 DEF KindsOf, KindOf
  <2> QED BY <1>h, <2>1, <2>4 DEF Loop!Next, Loop!TransmissionEnds, RadioOf
<1>3. CASE ReceiverStops
  <2>1. PICK e \in ReceiverEvents, more \in {{}, {"LDEERR"}} :
          /\ sysStatus' = sysStatus \cup {e} \cup more
          /\ more # {} => e = "RXFCG"
    BY <1>3 DEF ReceiverStops, SetChip
  <2>2. radio = "rx" /\ radio' = "idle"
    BY <1>3 DEF ReceiverStops, SetChip
  <2>3. e \in {"RXFCG", "RXERR", "RXRFTO", "RXPTO"}
    BY ReceiverAssumption
  <2> DEFINE new == {e} \cup more
  <2>4. KindsOf(new) \in Loop!Endings
    BY <2>1, <2>3 DEF KindsOf, KindOf, Loop!Endings
  <2>5. \/ KindsOf(new \ InForceTrxOff) = KindsOf(new)
        \/ KindsOf(new \ InForceTrxOff) = KindsOf(new) \ {Handling}
    <3>1. CASE ~(caller = "isr_to" /\ pc \in {"off_mask", "off_trx", "off_clear"})
      <4>1. InForceTrxOff = {}
        BY ONLY <3>1 DEF InForceTrxOff
      <4> QED BY <4>1
    <3>2. CASE caller = "isr_to" /\ pc \in {"off_mask", "off_trx", "off_clear"}
      <4>1. Handling = "RECEIVE_TIMEOUT" /\ InForceTrxOff = AllRxTo
        BY <3>2, PointsHold DEF Points, At
      <4>2. CASE e \in AllRxTo
        <5>1. new \ AllRxTo = {} /\ new = {e}
          BY <2>1, <4>2 DEF AllRxTo
        <5>2. KindsOf({}) = {} /\ KindsOf({e}) = {"RECEIVE_TIMEOUT"}
          BY <4>2 DEF KindsOf, KindOf, AllRxTo
        <5> QED BY <4>1, <5>1, <5>2
      <4>3. CASE e \notin AllRxTo
        <5>1. new \ AllRxTo = new
          BY <4>3 DEF AllRxTo
        <5> QED BY <4>1, <5>1
      <4> QED BY <4>2, <4>3
    <3> QED BY <3>1, <3>2
  <2>6. KindsOf(Unhandled)' = KindsOf(Unhandled) \cup KindsOf(new \ InForceTrxOff)
    <3>1. Unhandled' = Unhandled \cup (new \ InForceTrxOff)
      BY <1>s, <1>h, <2>1 DEF Unhandled
    <3> QED BY <3>1 DEF KindsOf
  <2> HIDE DEF new
  <2> QED BY <1>h, <2>2, <2>4, <2>5, <2>6 DEF Loop!Next, Loop!ReceptionEnds, RadioOf
<1> QED BY <1>1, <1>2, <1>3 DEF Chip

\* Every step of the thread and the chip is a step of the loop or a stutter.
LEMMA LoopStep == LoopInv /\ [Next]_vars => [Loop!Next]_(Loop!vars)
<1> SUFFICES ASSUME LoopInv, [Next]_vars PROVE [Loop!Next]_(Loop!vars)
  OBVIOUS
<1>p. Points /\ Points'
  BY PointsHold, PTL
<1>1. CASE AlgorithmInit
  <2>1. /\ pc = "start" /\ pc' = "create" /\ status' = status /\ sysStatus' = sysStatus
        /\ radio = "idle" /\ radio' \in {"idle", "rx"}
    BY <1>1 DEF AlgorithmInit, Goto, SetChip, LoopInv, OffInv
  <2>2. At("START", {}, {}) /\ At("START", {}, {})'
    BY <1>p, <2>1 DEF Points
  <2>3. Unhandled' = Unhandled
    BY <2>1, <2>2 DEF At, Unhandled
  <2>4. CASE radio' = "idle"
    BY <2>1, <2>2, <2>3, <2>4, LoopStutters DEF At
  <2>5. CASE radio' = "rx"
    <3>1. KindsOf(Unhandled)' = KindsOf(Unhandled)
      BY <2>3 DEF KindsOf
    <3> QED BY <2>1, <2>2, <2>5, <3>1 DEF At, Loop!Next, Loop!Listen, Loop!InHand, RadioOf
  <2> QED BY <2>1, <2>4, <2>5
<1>2. CASE CreateThread
  <2>1. At("START", {}, {}) /\ At("none", {}, {})' /\ UNCHANGED <<radio, sysStatus, status>>
    BY <1>2, <1>p DEF CreateThread, Goto, Points, chip
  <2>2. KindsOf(Unhandled)' = KindsOf(Unhandled)
    BY <2>1 DEF At, Unhandled, KindsOf
  <2> QED BY <2>1, <2>2 DEF At, Loop!Next, Loop!Finish
<1>3. CASE SemTake
  <2>1. At("none", {}, {}) /\ At("none", {}, {})' /\ UNCHANGED <<radio, sysStatus, status>>
    BY <1>3, <1>p DEF SemTake, Goto, Points, chip
  <2> QED BY <2>1, LoopStutters DEF At, Unhandled
<1>4. CASE SemTimeout
  <2>1. AheadAfter("TIMEOUT") = {}
    BY DEF AheadAfter
  <2>2. At("none", {}, {}) /\ At("TIMEOUT", {}, {})' /\ UNCHANGED <<radio, sysStatus, status>>
    BY <1>4, <1>p, <2>1 DEF SemTimeout, Goto, Points, chip, InHandler, At
  <2>3. KindsOf(Unhandled)' = KindsOf(Unhandled)
    BY <2>2 DEF At, Unhandled, KindsOf
  <2> QED BY <2>2, <2>3 DEF At, Loop!Next, Loop!BeginTimeout
<1>5. CASE UwbIsr \/ UNCHANGED vars
  <2>1. UNCHANGED <<pc, caller, event, status, sysStatus, radio>>
    BY <1>5 DEF UwbIsr, vars, chip, software
  <2>2. Handling' = Handling /\ Unhandled' = Unhandled
    BY <2>1 DEF Handling, Unhandled, Ahead, InForceTrxOff
  <2> QED BY <2>1, <2>2, LoopStutters
<1> QED
  BY <1>1, <1>2, <1>3, <1>4, <1>5, IsrIsLoop, ForceTrxOffIsLoop, OnEventIsLoop, ChipIsLoop
  DEF Next, Thread, LoopInv

\* The uwb thread, the interrupt and the chip together keep what EventLoop promises: one event
\* at a time, each for something that has happened and has not been handled before.
THEOREM ThreadImplementsEventLoop == Spec => ImplementsEventLoop
<1>1. Spec => []LoopInv
  <2>1. Init => OffInv
    BY DEF Init, OffInv
  <2> QED BY <2>1, OffStep, Invariant, PTL DEF Spec, LoopInv
<1> QED BY <1>1, LoopInit, LoopStep, PTL DEF Spec, ImplementsEventLoop, Loop!Spec
=============================================================================
