------------------------------ MODULE Receiver ------------------------------
(***************************************************************************)
(* Reception with the features of the driver that the firmware leaves off: *)
(* two receive buffers, automatic acknowledgement, a receiver that follows *)
(* a transmission, low-power listening.                                    *)
(*                                                                         *)
(*   src/dw1000/src/deca_device.c   dwt_isr, dwt_lowpowerlistenisr,        *)
(*       dwt_starttx, dwt_rxenable, dwt_forcetrxoff, dwt_syncrxbufptrs,    *)
(*       dwt_setdblrxbuffmode, dwt_enableautoack, dwt_setlowpowerlistening *)
(*                                                                         *)
(* dwt_forcetrxoff is one step: UwbThread takes it apart.  The application *)
(* keeps to the API's documentation: it re-enables the receiver in cbRxOk  *)
(* only when cbData shows no acknowledgement under way, and in the double  *)
(* buffer mode does so with DWT_NO_SYNC_PTRS before it reads the frame.    *)
(***************************************************************************)
EXTENDS Naturals, Sequences

CONSTANTS
  Modes,      \* how the application receives: "single", "double", "lowpower"
  MaxFrames,  \* bound: good frames on the air
  MaxSends    \* bound: transmissions of the application

ASSUME ModesAssumption == Modes \subseteq {"single", "double", "lowpower"}
ASSUME BoundsAssumption == MaxFrames \in Nat /\ MaxSends \in Nat

VARIABLES
  mode, listens,  \* the application: its mode, whether it always listens
  asked,          \* what it has asked of the radio and has not been told of
  sends,          \* its transmissions so far
  \* the chip
  radio,          \* "off", "rx", "tx", "ack" (acknowledging), "again" (receiving
                  \* after the acknowledgement of a response) or "asleep"
  icrbp, hsrbp,   \* SYS_STATUS_ICRBP and HSRBP: the buffer of either side
  rxBuffer,       \* the frame in each of the two buffers
  rxfcg,          \* RXFCG, which is kept for each buffer
  sysStatus,      \* the other event bits
  waits,          \* SYS_CTRL_WAIT4RESP is latched
  hurt,           \* a frame has not been received properly since the last good one
  frames,         \* good frames so far
  arxslp,         \* PMSC_CTRL1: ARXSLP and SNOZE
  \* the driver
  wait4resp, pc, status, cbStatus,
  \* histories
  said,           \* the frame whose fctrl and length dwt_isr has read
  read,           \* the frame cbRxOk has read
  due             \* frames received as asked and not yet read or dropped, in order

application == <<mode, listens, sends>>
chip   == <<radio, icrbp, hsrbp, rxBuffer, rxfcg, sysStatus, waits, hurt, frames, arxslp>>
driver == <<wait4resp, pc, status, cbStatus>>
histories == <<said, read, due>>
vars == <<application, asked, chip, driver, histories>>

NoFrame == [n |-> 0, ack |-> FALSE, asked |-> FALSE]
Frames  == [n : 0 .. MaxFrames, ack : BOOLEAN, asked : BOOLEAN]
Bits    == {"RXFCG", "TXFRS", "AAT", "RXTO", "RXERR"}

TypeOK ==
  /\ mode \in Modes /\ listens \in BOOLEAN
  /\ asked \in {"off", "rx", "tx", "resp", "ack"}
  /\ radio \in {"off", "rx", "tx", "ack", "again", "asleep"}
  /\ {icrbp, hsrbp} \subseteq {0, 1}
  /\ rxBuffer \in [{0, 1} -> Frames] /\ rxfcg \in [{0, 1} -> BOOLEAN]
  /\ sysStatus \subseteq Bits \ {"RXFCG"}
  /\ {waits, hurt, arxslp, wait4resp} \subseteq BOOLEAN
  /\ frames \in 0 .. MaxFrames /\ sends \in 0 .. MaxSends
  /\ pc \in {"idle", "clear", "fetch", "ok", "read", "toggle", "tx", "txdone",
             "to", "stopped", "err", "failed", "deactivate"}
  /\ cbStatus \subseteq status /\ status \subseteq Bits
  /\ said \in Frames /\ read \in Frames /\ due \in Seq(Frames)

-----------------------------------------------------------------------------
(***************************************************************************)
(* The chip.                                                               *)
(***************************************************************************)
Double   == mode = "double"            \* dwt_setdblrxbuffmode, dblbuffon
AutoAck  == mode # "lowpower"          \* dwt_enableautoack
Mask     == IF mode = "lowpower" THEN {"RXFCG"} ELSE Bits \ {"AAT"}
SysStatus == sysStatus \cup IF rxfcg[hsrbp] THEN {"RXFCG"} ELSE {}
Irq      == SysStatus \cap Mask # {}
Toggled(pointer) == 1 - pointer

\* The frame the host has not read would be overwritten.
Occupied == rxfcg[icrbp] \/ (~Double /\ pc \in {"clear", "fetch", "ok"})

\* A good frame.  The acknowledgement of a frame that asks for one starts; a frame
\* that does not may set AAT too after one that was not received properly.  Two
\* things are assumed of the time on the air: a frame that asks comes only after the
\* transmission before it has been handled, as dwt_isr's comment says, and a frame
\* does not end before the one in its buffer has been read.
GoodFrame ==
  /\ radio \in {"rx", "again"} /\ frames < MaxFrames /\ ~Occupied
  /\ \E ack \in BOOLEAN :
       LET frame == [n |-> frames + 1, ack |-> ack, asked |-> radio = "rx"] IN
       /\ ack => AutoAck /\ "TXFRS" \notin sysStatus
       /\ rxBuffer' = [rxBuffer EXCEPT ![icrbp] = frame]
       /\ rxfcg' = [rxfcg EXCEPT ![icrbp] = TRUE]
       /\ due' = IF frame.asked THEN Append(due, frame) ELSE due
       /\ radio' = IF ack THEN "ack" ELSE "off"
       /\ \E spurious \in IF hurt /\ AutoAck THEN BOOLEAN ELSE {FALSE} :
            sysStatus' = sysStatus \cup IF ack \/ spurious THEN {"AAT"} ELSE {}
  /\ frames' = frames + 1
  /\ hurt' = FALSE
  /\ icrbp' = IF Double THEN Toggled(icrbp) ELSE icrbp
  /\ UNCHANGED <<application, asked, hsrbp, waits, arxslp, driver, said, read>>

\* Nothing, or no good frame: with ARXSLP set the chip sleeps on.
NoGoodFrame ==
  /\ radio \in {"rx", "again"}
  /\ \E bit \in {"RXTO", "RXERR"} :
       /\ sysStatus' = sysStatus \cup {bit}
       /\ hurt' = (hurt \/ bit = "RXERR")
  /\ radio' = IF arxslp THEN "asleep" ELSE "off"
  /\ UNCHANGED <<application, asked, icrbp, hsrbp, rxBuffer, rxfcg, waits, frames, arxslp,
                 driver, histories>>

\* The sleep counter wakes the chip, which has lost its status bits.
Wakes ==
  /\ radio = "asleep"
  /\ radio' = "rx"
  /\ sysStatus' = {}
  /\ UNCHANGED <<application, asked, icrbp, hsrbp, rxBuffer, rxfcg, waits, hurt, frames,
                 arxslp, driver, histories>>

\* A transmission ends.  With WAIT4RESP the receiver follows; wrongly so after the
\* acknowledgement of the response, too.
Sent ==
  /\ radio \in {"tx", "ack"}
  /\ sysStatus' = sysStatus \cup {"TXFRS"}
  /\ radio' = IF ~waits THEN "off" ELSE IF radio = "tx" THEN "rx" ELSE "again"
  /\ waits' = (waits /\ radio = "tx")
  /\ UNCHANGED <<application, asked, icrbp, hsrbp, rxBuffer, rxfcg, hurt, frames, arxslp,
                 driver, histories>>

-----------------------------------------------------------------------------
(***************************************************************************)
(* The driver's operations.  One that is used as a part of a step says     *)
(* what becomes of the pointers, the status and the radio.                 *)
(***************************************************************************)
\* dwt_syncrxbufptrs: toggle the host's pointer when it is not the chip's.
SyncRxBufPtrs == hsrbp' = IF hsrbp = icrbp THEN hsrbp ELSE Toggled(hsrbp)

\* dwt_forcetrxoff: ALL_RX_GOOD is cleared in the buffer the host is at.
ForceTrxOff ==
  /\ radio' = "off" /\ waits' = FALSE
  /\ sysStatus' = {}
  /\ rxfcg' = [rxfcg EXCEPT ![hsrbp] = FALSE]
  /\ SyncRxBufPtrs
  /\ wait4resp' = FALSE

\* Mutant: DWT_NO_SYNC_PTRS is not looked at.
RxEnableAlwaysSyncs(sync) ==
  /\ SyncRxBufPtrs
  /\ radio' = "rx" /\ waits' = FALSE /\ asked' = "rx"

\* dwt_rxenable(DWT_START_RX_IMMEDIATE), or with DWT_NO_SYNC_PTRS.
RxEnable(sync) ==
  /\ IF sync THEN SyncRxBufPtrs ELSE hsrbp' = hsrbp
  /\ radio' = "rx" /\ waits' = FALSE /\ asked' = "rx"

-----------------------------------------------------------------------------
(***************************************************************************)
(* The application, between interrupts.                                    *)
(***************************************************************************)
Quiet == pc = "idle" /\ ~Irq

Listen ==
  /\ Quiet /\ asked = "off" /\ mode # "lowpower"
  /\ RxEnable(TRUE)
  /\ UNCHANGED <<application, icrbp, rxBuffer, rxfcg, sysStatus, hurt, frames, arxslp, driver,
                 histories>>

\* dwt_setlowpowerlistening(1) and dwt_rxenable.
LowPowerListen ==
  /\ Quiet /\ asked = "off" /\ mode = "lowpower"
  /\ arxslp' = TRUE
  /\ RxEnable(TRUE)
  /\ UNCHANGED <<application, icrbp, rxBuffer, rxfcg, sysStatus, hurt, frames, driver,
                 histories>>

\* dwt_starttx(DWT_START_TX_IMMEDIATE), with or without DWT_RESPONSE_EXPECTED.
StartTx ==
  /\ Quiet /\ asked = "off" /\ radio = "off" /\ sends < MaxSends /\ mode # "lowpower"
  /\ \E response \in BOOLEAN :
       /\ asked' = IF response THEN "resp" ELSE "tx"
       /\ wait4resp' = (response \/ wait4resp)
       /\ waits' = response
  /\ radio' = "tx"
  /\ sends' = sends + 1
  /\ UNCHANGED <<mode, listens, icrbp, hsrbp, rxBuffer, rxfcg, sysStatus, hurt, frames,
                 arxslp, pc, status, cbStatus, histories>>

\* dwt_forcetrxoff: the application stops listening.
StopListening ==
  /\ Quiet /\ asked = "rx" /\ mode # "lowpower"
  /\ ForceTrxOff
  /\ asked' = "off"
  /\ UNCHANGED <<application, icrbp, rxBuffer, hurt, frames, arxslp, pc, status, cbStatus,
                 histories>>

-----------------------------------------------------------------------------
(***************************************************************************)
(* dwt_isr, for as long as the interrupt is raised.                        *)
(***************************************************************************)
\* status and the copy for the callbacks are read once.
ReadStatus(to) ==
  /\ pc = "idle" /\ Irq
  /\ status' = SysStatus /\ cbStatus' = SysStatus
  /\ pc' = to
  /\ UNCHANGED <<application, asked, chip, wait4resp, histories>>

IsrStart   == mode # "lowpower" /\ ReadStatus("clear")
LpIsrStart == mode = "lowpower" /\ ReadStatus("deactivate")

\* Mutant: low-power listening stays active while the frame is read.
LpDeactivateNot ==
  /\ pc = "deactivate" /\ pc' = "clear"
  /\ UNCHANGED <<application, asked, chip, wait4resp, status, cbStatus, histories>>

\* dwt_lowpowerlistenisr: dwt_setlowpowerlistening(0) comes before the clearing.
LpDeactivate ==
  /\ pc = "deactivate" /\ pc' = "clear"
  /\ arxslp' = FALSE
  /\ UNCHANGED <<application, asked, radio, icrbp, hsrbp, rxBuffer, rxfcg, sysStatus, waits,
                 hurt, frames, wait4resp, status, cbStatus, histories>>

\* A good frame: ALL_RX_GOOD is cleared, and with ARXSLP set the chip sleeps.
IsrRxClear ==
  /\ pc = "clear" /\ "RXFCG" \in status /\ pc' = "fetch"
  /\ rxfcg' = [rxfcg EXCEPT ![hsrbp] = FALSE]
  /\ radio' = IF arxslp THEN "asleep" ELSE radio
  /\ UNCHANGED <<application, asked, icrbp, hsrbp, rxBuffer, sysStatus, waits, hurt, frames,
                 arxslp, wait4resp, status, cbStatus, histories>>

IsrNoFrame ==
  /\ pc = "clear" /\ "RXFCG" \notin status /\ pc' = "tx"
  /\ UNCHANGED <<application, asked, chip, wait4resp, status, cbStatus, histories>>

\* What the host reads of the receive buffer; a sleeping chip answers with nothing.
HostBuffer == IF radio = "asleep" THEN NoFrame ELSE rxBuffer[hsrbp]

\* Mutant: cbData.status keeps the AAT.
CopyKept(frame) == cbStatus

\* Mutant: the copy for the callbacks is read again.
CopyReread(frame) == SysStatus

\* The AAT of a frame that does not ask for an acknowledgement leaves the copy for
\* the callbacks, but not the local status.
WithoutAat(frame) ==
  IF "AAT" \in status /\ ~frame.ack THEN cbStatus \ {"AAT"} ELSE cbStatus

\* The frame information and the frame control are read, and that AAT is cleared.
IsrRxFetch ==
  /\ pc = "fetch" /\ pc' = "ok"
  /\ said' = HostBuffer
  /\ cbStatus' = WithoutAat(said')
  /\ IF "AAT" \in status /\ ~said'.ack
       THEN sysStatus' = sysStatus \ {"AAT"} /\ wait4resp' = FALSE
       ELSE UNCHANGED <<sysStatus, wait4resp>>
  /\ UNCHANGED <<application, asked, radio, icrbp, hsrbp, rxBuffer, rxfcg, waits, hurt,
                 frames, arxslp, status, read, due>>

\* cbRxOk turns the receiver on unless an acknowledgement is on its way.
Continue(sync) ==
  IF listens /\ "AAT" \notin cbStatus
    THEN RxEnable(sync)
    ELSE /\ asked' = IF "AAT" \in cbStatus THEN "ack" ELSE "off"
         /\ UNCHANGED <<radio, waits, hsrbp>>

\* cbRxOk with two buffers: first the receiver goes on ...
CbRxOk ==
  /\ pc = "ok" /\ Double /\ pc' = "read"
  /\ Continue(FALSE)
  /\ UNCHANGED <<application, icrbp, rxBuffer, rxfcg, sysStatus, hurt, frames, arxslp,
                 wait4resp, status, cbStatus, histories>>

\* ... and then the frame is read; with one buffer it is the other way round.
CbRead ==
  /\ pc = IF Double THEN "read" ELSE "ok"
  /\ read' = HostBuffer
  /\ due' = IF due # <<>> /\ Head(due) = read' THEN Tail(due) ELSE due
  /\ IF Double THEN UNCHANGED <<asked, radio, waits, hsrbp>> ELSE Continue(TRUE)
  /\ pc' = IF mode = "lowpower" THEN "idle" ELSE "toggle"
  /\ UNCHANGED <<application, icrbp, rxBuffer, rxfcg, sysStatus, hurt, frames, arxslp,
                 wait4resp, status, cbStatus, said>>

\* Mutant: the host's pointer is never toggled.
IsrToggleNever ==
  /\ pc = "toggle" /\ pc' = "tx"
  /\ UNCHANGED <<application, asked, chip, wait4resp, status, cbStatus, histories>>

\* dblbuffon: the Host Side Receive Buffer Pointer is toggled after the callback.
IsrToggle ==
  /\ pc = "toggle" /\ pc' = "tx"
  /\ hsrbp' = IF Double THEN Toggled(hsrbp) ELSE hsrbp
  /\ UNCHANGED <<application, asked, radio, icrbp, rxBuffer, rxfcg, sysStatus, waits, hurt,
                 frames, arxslp, wait4resp, status, cbStatus, histories>>

\* Mutant: the receiver that the chip turns on after the acknowledgement stays on.
IsrTxDoneNoOff ==
  /\ pc = "tx" /\ "TXFRS" \in status /\ pc' = "txdone"
  /\ sysStatus' = sysStatus \ {"TXFRS", "AAT"}
  /\ UNCHANGED <<application, asked, radio, icrbp, hsrbp, rxBuffer, rxfcg, waits, hurt,
                 frames, arxslp, wait4resp, status, cbStatus, histories>>

\* Transmission confirmed: ALL_TX is cleared; when it was the acknowledgement of a
\* response the receiver is turned off again and reset.
IsrTxDone ==
  /\ pc = "tx" /\ "TXFRS" \in status /\ pc' = "txdone"
  /\ IF "AAT" \in status /\ wait4resp
       THEN ForceTrxOff
       ELSE /\ sysStatus' = sysStatus \ {"TXFRS", "AAT"}
            /\ UNCHANGED <<radio, waits, rxfcg, hsrbp, wait4resp>>
  /\ UNCHANGED <<application, asked, icrbp, rxBuffer, hurt, frames, arxslp, status, cbStatus,
                 histories>>

IsrNotSent ==
  /\ pc = "tx" /\ "TXFRS" \notin status /\ pc' = "to"
  /\ UNCHANGED <<application, asked, chip, wait4resp, status, cbStatus, histories>>

\* cbTxDone: the application listens again unless it does so already.
CbTxDone ==
  /\ pc = "txdone" /\ pc' = "to"
  /\ IF listens /\ asked \in {"tx", "ack"}
       THEN RxEnable(TRUE)
       ELSE /\ asked' = IF asked \in {"tx", "ack"} THEN "off" ELSE asked
            /\ UNCHANGED <<radio, waits, hsrbp>>
  /\ UNCHANGED <<application, icrbp, rxBuffer, rxfcg, sysStatus, hurt, frames, arxslp,
                 wait4resp, status, cbStatus, histories>>

\* A timeout, then an error: the bit is cleared, the receiver is off and reset.  The
\* status is that of the beginning, and a frame that has come since is dropped.
IsrStopped(bit, from, to, otherwise) ==
  /\ pc = from
  /\ IF bit \in status
       THEN pc' = to /\ ForceTrxOff /\ due' = <<>>
       ELSE /\ pc' = otherwise
            /\ UNCHANGED <<radio, waits, sysStatus, rxfcg, hsrbp, wait4resp, due>>
  /\ UNCHANGED <<application, asked, icrbp, rxBuffer, hurt, frames, arxslp, status, cbStatus,
                 said, read>>

IsrRxTimeout == IsrStopped("RXTO", "to", "stopped", "err")
IsrRxError   == IsrStopped("RXERR", "err", "failed", "idle")

\* cbRxTo and cbRxErr.
CbStopped ==
  /\ pc \in {"stopped", "failed"}
  /\ pc' = IF pc = "stopped" THEN "err" ELSE "idle"
  /\ IF listens THEN RxEnable(TRUE) ELSE asked' = "off" /\ UNCHANGED <<radio, waits, hsrbp>>
  /\ UNCHANGED <<application, icrbp, rxBuffer, rxfcg, sysStatus, hurt, frames, arxslp,
                 wait4resp, status, cbStatus, histories>>

-----------------------------------------------------------------------------
Init ==
  /\ mode \in Modes
  /\ listens \in IF mode = "lowpower" THEN {FALSE} ELSE BOOLEAN
  /\ asked = "off" /\ sends = 0 /\ frames = 0
  /\ radio = "off" /\ icrbp = 0 /\ hsrbp = 0
  /\ rxBuffer = [b \in {0, 1} |-> NoFrame] /\ rxfcg = [b \in {0, 1} |-> FALSE]
  /\ sysStatus = {} /\ waits = FALSE /\ hurt = FALSE /\ arxslp = FALSE
  /\ wait4resp = FALSE /\ pc = "idle" /\ status = {} /\ cbStatus = {}
  /\ said = NoFrame /\ read = NoFrame /\ due = <<>>

Chip == GoodFrame \/ NoGoodFrame \/ Wakes \/ Sent
Application == Listen \/ LowPowerListen \/ StartTx \/ StopListening
Isr ==
  \/ IsrStart \/ LpIsrStart \/ LpDeactivate
  \/ IsrRxClear \/ IsrNoFrame \/ IsrRxFetch \/ CbRxOk \/ CbRead \/ IsrToggle
  \/ IsrTxDone \/ IsrNotSent \/ CbTxDone \/ IsrRxTimeout \/ IsrRxError \/ CbStopped
Next == Chip \/ Application \/ Isr
Spec == Init /\ [][Next]_vars

-----------------------------------------------------------------------------
(***************************************************************************)
(* Properties.                                                             *)
(***************************************************************************)
\* Whenever cbRxOk reads, it reads the frame whose length and frame control dwt_isr
\* has reported to it, and of the frames received as asked it is the oldest that
\* has not been read: nothing is read twice, out of order or from a sleeping chip.
\* dwt_isr drops a frame only with the timeout or the error of a receiver that the
\* chip had turned on after an acknowledgement: a callback of the same dwt_isr has
\* started a reception, which the branch of the stale bit then aborts.
FrameReported ==
  [][(/\ CbRead =>
           /\ read' = said /\ read' # NoFrame
           /\ read'.asked => due # <<>> /\ Head(due) = read'
      /\ (IsrRxTimeout \/ IsrRxError) /\ due' # due => {"TXFRS", "AAT"} \subseteq status)]_vars

\* When the interrupt is low and dwt_isr is not running every frame that was
\* received as asked has been read: the two buffer pointers have not parted.
NothingForgotten == Quiet => due = <<>>

\* Then, too, the radio does what the application has asked for and not been told
\* the end of, and nothing else: nobody waits for a callback that cannot come, and
\* the receiver that the chip turns on after an acknowledgement is off again.
RadioAsAsked ==
  Quiet =>
    CASE asked = "off"  -> radio = "off"
      [] asked = "rx"   -> radio \in {"rx", "asleep"}
      [] asked = "resp" -> radio \in {"rx", "tx"}
      [] asked = "tx"   -> radio = "tx"
      [] asked = "ack"  -> radio = "ack"
=============================================================================
