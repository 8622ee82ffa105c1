--------------------------- MODULE ReceiverProofs ---------------------------
(***************************************************************************)
(* Reception in any of the three modes, with any number of frames and of   *)
(* transmissions.                                                          *)
(***************************************************************************)
EXTENDS Receiver, SequenceTheorems, TLAPS

-----------------------------------------------------------------------------
(***************************************************************************)
(* The invariant, in terms of the buffer the host is at and the other one. *)
(***************************************************************************)
Here   == rxBuffer[hsrbp]
There  == rxBuffer[1 - hsrbp]
Full   == rxfcg[hsrbp]
Behind == rxfcg[1 - hsrbp]

\* The frame here has not been read; dwt_isr has not toggled away from it.
Unread == Full \/ pc \in {"fetch", "ok", "read"}
First  == Unread \/ (Double /\ pc = "toggle")

\* There is a frame that cbRxOk has not been called for; the last one of these.
Pending == Full \/ Behind \/ pc \in {"fetch", "ok"}
Newest  == IF Behind THEN There ELSE Here

\* dwt_isr handles the frame here; it has still to confirm a transmission.
Handling   == pc \in {"fetch", "ok"} \/ (pc = "clear" /\ "RXFCG" \in status)
Confirming == "TXFRS" \in status /\ pc \in {"clear", "fetch", "ok", "read", "toggle", "tx"}

Txfrs    == "TXFRS" \in sysStatus
Aat      == "AAT" \in sysStatus
Stopping == "RXTO" \in sysStatus \/ "RXERR" \in sysStatus
NoEvent  == ~Txfrs /\ ~Aat /\ ~Stopping

BufferInv ==
  /\ ~Double => hsrbp = icrbp /\ ~Behind /\ pc # "read"
  /\ Double => (hsrbp = icrbp <=> (First <=> Behind))
  /\ Behind => First /\ (pc \in {"read", "toggle"} \/ asked = "resp")
  /\ pc \in {"fetch", "ok", "read"} \/ (Double /\ pc = "toggle") => ~Full
  /\ pc \in {"ok", "read"} => said = Here
  /\ (Unread => Here.n # 0) /\ (Behind => There.n # 0)

DueInv ==
  due = IF Unread /\ Here.asked
          THEN IF Behind /\ There.asked THEN <<Here, There>> ELSE <<Here>>
          ELSE IF Behind /\ There.asked THEN <<There>> ELSE <<>>

\* What the radio does for an application that has asked for nothing, ...
OffInv ==
  /\ radio = "off" /\ ~Pending /\ pc # "clear"
  /\ ~Aat /\ ~Stopping /\ (Txfrs => Confirming)

\* ... for a transmission, ...
TxInv ==
  /\ ~Pending /\ ~Aat /\ ~Stopping /\ ~waits
  /\ \/ radio = "tx" /\ ~Txfrs /\ pc = "idle"
     \/ /\ radio = "off" /\ Txfrs
        /\ \/ pc = "idle"
           \/ /\ pc \in {"clear", "tx"}
              /\ "TXFRS" \in status /\ "AAT" \notin status /\ "RXFCG" \notin status

\* ... for the receiver, ...
RxInv ==
  /\ ~waits /\ (Aat => Pending)
  /\ \/ radio = "rx" /\ ~Pending /\ ~Stopping
     \/ /\ radio \in {"off", "ack"} /\ Pending /\ Newest.asked /\ ~Stopping
        /\ Newest.ack => Aat /\ (Txfrs <=> radio = "off")
        /\ radio = "ack" => Newest.ack
     \/ radio = "off" /\ ~Pending /\ Stopping

\* ... after a frame whose acknowledgement the chip sends, ...
AckInv ==
  /\ radio \in {"off", "ack", "again"}
  /\ Aat \/ (pc = "ok" /\ ~wait4resp /\ Pending /\ ~Newest.ack /\ "AAT" \notin cbStatus)
  /\ Txfrs <=> radio # "ack"
  /\ radio # "off" => ~Pending /\ ~Stopping
  /\ radio = "again" => wait4resp /\ ~waits
  /\ radio = "off" =>
       /\ ~waits
       /\ Stopping => ~Pending /\ wait4resp
       /\ Pending => ~Newest.ack /\ ~Newest.asked /\ (wait4resp \/ pc = "ok")
  /\ Confirming => "AAT" \in status

\* ... and for a transmission with a response.
RespInv ==
  /\ pc \notin {"read", "toggle"}
  /\ pc \in {"idle", "clear", "fetch", "ok"} \/ ("RXFCG" \notin status /\ "AAT" \notin status)
  /\ wait4resp \/ (pc = "ok" /\ ~Here.ack)
  /\ \/ radio = "tx" /\ waits /\ NoEvent /\ pc = "idle" /\ ~Pending
     \/ radio = "rx" /\ waits /\ ~Stopping /\ ~Aat /\ ~Pending
     \/ /\ radio = "off" /\ waits /\ ~Behind
        /\ IF Pending THEN Here.asked /\ ~Here.ack /\ ~Stopping ELSE Stopping /\ ~Aat
     \/ /\ radio \in {"ack", "again", "off"} /\ Pending /\ Here.ack /\ Here.asked /\ Aat
        /\ (waits <=> radio = "ack") /\ (Txfrs <=> radio # "ack")
        /\ radio # "off" => ~Behind /\ ~Stopping
        /\ Behind => ~There.ack /\ ~There.asked /\ ~Stopping

\* Between an abort or the confirmation of a transmission and the callback for it the
\* radio is off and nothing is left; what was asked is over.
Over == pc \in {"stopped", "failed"} \/ (pc = "txdone" /\ asked \in {"tx", "ack"})
OverInv ==
  /\ radio = "off" /\ NoEvent /\ ~Pending
  /\ pc \in {"stopped", "failed"} => ~waits /\ ~wait4resp

RadioInv ==
  /\ ~arxslp /\ radio # "asleep" /\ pc # "deactivate"
  /\ waits => wait4resp \/ asked = "off" \/ pc = "ok"
  /\ Over => OverInv
  /\ ~Over /\ asked = "off"  => OffInv
  /\ ~Over /\ asked = "tx"   => TxInv
  /\ ~Over /\ asked = "rx"   => RxInv
  /\ ~Over /\ asked = "ack"  => AckInv
  /\ ~Over /\ asked = "resp" => RespInv

\* dwt_isr has still to abort a reception for a timeout or an error it has read.
Aborting ==
  /\ pc \notin {"idle", "stopped", "failed"}
  /\ "RXERR" \in status \/ ("RXTO" \in status /\ pc # "err")

\* The status that dwt_isr has read once, against what has happened since.
StatusInv ==
  /\ Confirming => Txfrs
  /\ pc \in {"clear", "fetch"} => ("AAT" \in cbStatus <=> "AAT" \in status)
  /\ pc = "ok" => ("AAT" \in cbStatus <=> "AAT" \in status /\ Here.ack)
  /\ pc = "clear" /\ "RXFCG" \in status => Full
  /\ Handling /\ Here.ack => "AAT" \in status
  /\ Handling /\ ~Here.ack /\ Txfrs => "TXFRS" \in status
  /\ Handling /\ Aat => IF pc = "ok" THEN Here.ack ELSE "AAT" \in status
  /\ "AAT" \in status /\ pc = "clear" /\ "RXFCG" \notin status => asked = "ack"
  /\ "AAT" \in status /\ wait4resp /\ pc = "ok" => Here.ack
  /\ "AAT" \in status /\ wait4resp /\ pc \in {"read", "toggle", "tx"} => asked = "ack"
  /\ asked \in {"rx", "resp"} /\ Confirming /\ ~Handling =>
       ~(Full /\ Here.ack) /\ ~(Behind /\ There.ack)

StopInv ==
  /\ ~("RXTO" \in sysStatus /\ "RXERR" \in sysStatus)
  /\ ~("RXTO" \in status /\ "RXERR" \in status)
  /\ pc = "stopped" => "RXTO" \in status
  /\ Aborting /\ ~("TXFRS" \in status /\ "AAT" \in status) =>
       asked \in {"rx", "resp"} /\ radio = "off" /\ ~Pending /\ "RXFCG" \notin status

\* Low-power listening: one frame, and a chip that must not sleep while it is read.
LowPowerInv ==
  /\ ~listens /\ ~waits /\ ~wait4resp
  /\ pc \in {"idle", "deactivate", "clear", "fetch", "ok"}
  /\ ~Txfrs /\ ~Aat
  /\ pc # "idle" => "RXFCG" \in status /\ "AAT" \notin status /\ "AAT" \notin cbStatus
  /\ pc \in {"deactivate", "clear"} => Full
  /\ pc \in {"clear", "fetch", "ok"} => ~arxslp
  /\ \/ asked = "off" /\ radio = "off" /\ pc = "idle" /\ ~Pending
     \/ asked = "rx" /\ radio \in {"rx", "asleep"} /\ arxslp /\ pc = "idle" /\ ~Pending
     \/ asked = "rx" /\ radio = "off" /\ Pending /\ Here.asked /\ ~Here.ack

ModeInv ==
  IF mode = "lowpower" THEN LowPowerInv ELSE RadioInv /\ StatusInv /\ StopInv

RInv == TypeOK /\ BufferInv /\ DueInv /\ ModeInv


-----------------------------------------------------------------------------
(***************************************************************************)
(* What a step does to the buffers and to the status bits.                 *)
(***************************************************************************)
LEMMA HostTypes ==
  ASSUME TypeOK
  PROVE  /\ Here \in Frames /\ There \in Frames
         /\ Here.asked \in BOOLEAN /\ Here.ack \in BOOLEAN /\ Here.n \in Nat
         /\ There.asked \in BOOLEAN /\ There.ack \in BOOLEAN /\ There.n \in Nat
         /\ Full \in BOOLEAN /\ Behind \in BOOLEAN
         /\ hsrbp \in {0, 1} /\ icrbp \in {0, 1} /\ 1 - hsrbp \in {0, 1} /\ 1 - hsrbp # hsrbp
<1>1. hsrbp \in {0, 1} /\ icrbp \in {0, 1} /\ 1 - hsrbp \in {0, 1} /\ 1 - hsrbp # hsrbp
  BY DEF TypeOK
<1>2. Here \in Frames /\ There \in Frames /\ Full \in BOOLEAN /\ Behind \in BOOLEAN
  BY <1>1 DEF TypeOK, Here, There, Full, Behind
<1>3. \A f \in Frames : f.asked \in BOOLEAN /\ f.ack \in BOOLEAN /\ f.n \in Nat
  BY BoundsAssumption DEF Frames
<1> QED BY <1>1, <1>2, <1>3

LEMMA OneAndTwo ==
  ASSUME NEW S, NEW a \in S, NEW b \in S
  PROVE  /\ Append(<<>>, a) = <<a>> /\ Append(<<a>>, b) = <<a, b>>
         /\ Head(<<a>>) = a /\ Tail(<<a>>) = <<>> /\ <<a>> # <<>>
         /\ Head(<<a, b>>) = a /\ Tail(<<a, b>>) = <<b>> /\ <<a, b>> # <<>>
<1> DEFINE s == Append(<<a>>, b)
           t == <<a, b>>
<1>1. s \in Seq(S) /\ Len(s) = 2 /\ s[1] = a /\ s[2] = b
  OBVIOUS
<1>2. t \in Seq(S) /\ Len(t) = 2 /\ t[1] = a /\ t[2] = b
  OBVIOUS
<1> HIDE DEF s, t
<1>3. \A i \in 1 .. Len(s) : s[i] = t[i]
  BY <1>1, <1>2
<1>4. s = t
  BY <1>1, <1>2, <1>3, SeqEqual
<1>5. Append(<<a>>, b) = <<a, b>>
  BY <1>4 DEF s, t
<1> QED BY <1>5

LEMMA SameBuffers ==
  ASSUME UNCHANGED <<hsrbp, rxBuffer, rxfcg>>
  PROVE  Here' = Here /\ There' = There /\ (Full' <=> Full) /\ (Behind' <=> Behind)
BY DEF Here, There, Full, Behind

LEMMA SameBits ==
  ASSUME UNCHANGED sysStatus
  PROVE  (Txfrs' <=> Txfrs) /\ (Aat' <=> Aat) /\ (Stopping' <=> Stopping)
BY DEF Txfrs, Aat, Stopping


LEMMA TypeStep == TypeOK /\ [Next]_vars => TypeOK'
<1> SUFFICES ASSUME TypeOK, [Next]_vars PROVE TypeOK'
  OBVIOUS
<1> USE DEF TypeOK, application, chip, driver, histories
<1>1. CASE GoodFrame
  <2>1. PICK ack \in BOOLEAN, spurious \in BOOLEAN :
          LET frame == [n |-> frames + 1, ack |-> ack, asked |-> radio = "rx"] IN
          /\ rxBuffer' = [rxBuffer EXCEPT ![icrbp] = frame]
          /\ rxfcg' = [rxfcg EXCEPT ![icrbp] = TRUE]
          /\ due' = IF frame.asked THEN Append(due, frame) ELSE due
          /\ radio' = IF ack THEN "ack" ELSE "off"
          /\ sysStatus' = sysStatus \cup IF ack \/ spurious THEN {"AAT"} ELSE {}
    BY <1>1 DEF GoodFrame
  <2> DEFINE frame == [n |-> frames + 1, ack |-> ack, asked |-> radio = "rx"]
  <2>2. frame \in Frames /\ frames' \in 0 .. MaxFrames
    BY <1>1, BoundsAssumption DEF GoodFrame, Frames
  <2> HIDE DEF frame
  <2>3. rxBuffer' \in [{0, 1} -> Frames] /\ rxfcg' \in [{0, 1} -> BOOLEAN] /\ due' \in Seq(Frames)
    BY <2>1, <2>2 DEF frame
  <2>4. sysStatus' \subseteq Bits \ {"RXFCG"} /\ radio' \in {"ack", "off"}
    BY <2>1 DEF Bits
  <2>5. /\ icrbp' \in {0, 1} /\ hurt' = FALSE
        /\ UNCHANGED <<application, asked, hsrbp, waits, arxslp, driver, said, read>>
    BY <1>1 DEF GoodFrame, Toggled
  <2> QED BY ONLY TypeOK, <2>2, <2>3, <2>4, <2>5 DEF TypeOK, application, driver
<1>2. CASE NoGoodFrame \/ Wakes \/ Sent
  <2>1. CASE NoGoodFrame
    BY <2>1 DEF NoGoodFrame, Bits
  <2>2. CASE Wakes
    BY <2>2 DEF Wakes
  <2>3. CASE Sent
    BY <2>3 DEF Sent, Bits
  <2> QED BY <1>2, <2>1, <2>2, <2>3
<1>f. ASSUME ForceTrxOff
      PROVE  /\ radio' = "off" /\ waits' = FALSE /\ sysStatus' = {} /\ wait4resp' = FALSE
             /\ rxfcg' \in [{0, 1} -> BOOLEAN] /\ hsrbp' \in {0, 1}
  BY <1>f DEF ForceTrxOff, SyncRxBufPtrs, Toggled
<1>r. ASSUME NEW sync \in BOOLEAN, RxEnable(sync)
      PROVE  radio' = "rx" /\ waits' = FALSE /\ asked' = "rx" /\ hsrbp' \in {0, 1}
  BY <1>r DEF RxEnable, SyncRxBufPtrs, Toggled
<1>c. ASSUME NEW sync \in BOOLEAN, Continue(sync)
      PROVE  /\ radio' \in {"rx", radio} /\ waits' \in {FALSE, waits} /\ hsrbp' \in {0, 1}
             /\ asked' \in {"rx", "ack", "off"}
  BY <1>c, <1>r DEF Continue
<1>3. CASE Application
  <2>1. CASE Listen \/ LowPowerListen
    BY <1>r, <2>1 DEF Listen, LowPowerListen
  <2>2. CASE StartTx
    BY <2>2, BoundsAssumption DEF StartTx
  <2>3. CASE StopListening
    BY <1>f, <2>3 DEF StopListening
  <2> QED BY <1>3, <2>1, <2>2, <2>3 DEF Application
<1>4. CASE IsrStart \/ LpIsrStart \/ LpDeactivate \/ IsrRxClear \/ IsrNoFrame
  <2>1. CASE IsrStart \/ LpIsrStart
    <3>1. SysStatus \subseteq Bits
      BY DEF SysStatus, Bits
    <3> QED BY <2>1, <3>1 DEF IsrStart, LpIsrStart, ReadStatus
  <2>2. CASE LpDeactivate
    BY <2>2 DEF LpDeactivate
  <2>3. CASE IsrRxClear
    BY <2>3 DEF IsrRxClear
  <2>4. CASE IsrNoFrame
    BY <2>4 DEF IsrNoFrame
  <2> QED BY <1>4, <2>1, <2>2, <2>3, <2>4
<1>h. HostBuffer \in Frames
  BY BoundsAssumption DEF HostBuffer, NoFrame, Frames
<1>5. CASE IsrRxFetch
  <2>1. /\ sysStatus' \subseteq sysStatus /\ wait4resp' \in BOOLEAN /\ cbStatus' \subseteq cbStatus
        /\ said' \in Frames
    BY <1>5, <1>h DEF IsrRxFetch, WithoutAat
  <2> QED BY <1>5, <2>1 DEF IsrRxFetch
<1>6. CASE CbRxOk
  BY <1>6, <1>c DEF CbRxOk
<1>7. CASE CbRead
  <2>1. due' \in Seq(Frames)
    BY <1>7 DEF CbRead
  <2>2. /\ radio' \in {"rx", radio} /\ waits' \in {FALSE, waits} /\ hsrbp' \in {0, 1}
        /\ asked' \in {"rx", "ack", "off", asked}
    BY <1>7, <1>c DEF CbRead
  <2>3. read' \in Frames /\ pc' \in {"idle", "toggle"}
    BY <1>7, <1>h DEF CbRead
  <2>4. /\ UNCHANGED <<application, icrbp, rxBuffer, rxfcg, sysStatus, hurt, frames, arxslp>>
        /\ UNCHANGED <<wait4resp, status, cbStatus, said>>
    BY <1>7 DEF CbRead
  <2> QED BY ONLY TypeOK, <2>1, <2>2, <2>3, <2>4 DEF TypeOK, application
<1>8. CASE IsrToggle \/ IsrNotSent
  BY <1>8 DEF IsrToggle, IsrNotSent, Toggled
<1>9. CASE IsrTxDone
  <2>1. CASE ForceTrxOff
    BY <1>9, <1>f, <2>1 DEF IsrTxDone
  <2>2. CASE sysStatus' = sysStatus \ {"TXFRS", "AAT"} /\ UNCHANGED <<radio, waits, rxfcg, hsrbp, wait4resp>>
    BY <1>9, <2>2 DEF IsrTxDone
  <2> QED BY <1>9, <2>1, <2>2 DEF IsrTxDone
<1>10. CASE CbTxDone
  <2>1. CASE RxEnable(TRUE)
    BY <1>10, <1>r, <2>1 DEF CbTxDone
  <2>2. CASE asked' \in {"off", asked} /\ UNCHANGED <<radio, waits, hsrbp>>
    BY <1>10, <2>2 DEF CbTxDone
  <2> QED BY <1>10, <2>1, <2>2 DEF CbTxDone
<1>11. CASE CbStopped
  <2>1. CASE RxEnable(TRUE)
    BY <1>11, <1>r, <2>1 DEF CbStopped
  <2>2. CASE asked' = "off" /\ UNCHANGED <<radio, waits, hsrbp>>
    BY <1>11, <2>2 DEF CbStopped
  <2> QED BY <1>11, <2>1, <2>2 DEF CbStopped
<1>12. ASSUME NEW bit \in {"RXTO", "RXERR"}, NEW from \in {"to", "err"},
              NEW to \in {"stopped", "failed"}, NEW otherwise \in {"err", "idle"},
              IsrStopped(bit, from, to, otherwise)
       PROVE  TypeOK'
  <2>1. CASE ForceTrxOff /\ due' = <<>> /\ pc' = to
    BY <1>12, <1>f, <2>1 DEF IsrStopped
  <2>2. CASE UNCHANGED <<radio, waits, sysStatus, rxfcg, hsrbp, wait4resp, due>> /\ pc' = otherwise
    BY <1>12, <2>2 DEF IsrStopped
  <2> QED BY <1>12, <2>1, <2>2 DEF IsrStopped
<1>13. CASE IsrRxTimeout \/ IsrRxError
  BY <1>12, <1>13 DEF IsrRxTimeout, IsrRxError
<1>14. CASE UNCHANGED vars
  BY <1>14 DEF vars
<1> QED BY <1>1, <1>2, <1>3, <1>4, <1>5, <1>6, <1>7, <1>8, <1>9, <1>10, <1>11, <1>13, <1>14
        DEF Next, Chip, Isr


\* dwt_forcetrxoff with nothing behind: no frame is left, and the pointers meet.
LEMMA ForceEffect ==
  ASSUME TypeOK, BufferInv, ~Behind, ForceTrxOff, UNCHANGED <<icrbp, rxBuffer>>
  PROVE  /\ radio' = "off" /\ ~waits' /\ ~wait4resp' /\ NoEvent'
         /\ ~Full' /\ ~Behind' /\ hsrbp' = icrbp'
<1>1. radio' = "off" /\ ~waits' /\ ~wait4resp' /\ NoEvent'
  BY DEF ForceTrxOff, NoEvent, Txfrs, Aat, Stopping
<1>2. /\ hsrbp \in {0, 1} /\ icrbp \in {0, 1} /\ rxfcg \in [{0, 1} -> BOOLEAN]
      /\ rxfcg' = [rxfcg EXCEPT ![hsrbp] = FALSE] /\ ~rxfcg[1 - hsrbp]
      /\ hsrbp' = IF hsrbp = icrbp THEN hsrbp ELSE 1 - hsrbp
      /\ icrbp' = icrbp
  BY DEF TypeOK, Behind, ForceTrxOff, SyncRxBufPtrs, Toggled
<1>3. ~rxfcg'[0] /\ ~rxfcg'[1]
  BY <1>2
<1>4. hsrbp' = icrbp' /\ hsrbp' \in {0, 1}
  BY <1>2
<1> QED BY <1>1, <1>3, <1>4 DEF Full, Behind

LEMMA ToggleEffect ==
  ASSUME TypeOK, hsrbp' = 1 - hsrbp, UNCHANGED <<rxBuffer, rxfcg>>
  PROVE  Here' = There /\ There' = Here /\ (Full' <=> Behind) /\ (Behind' <=> Full)
<1>1. 1 - (1 - hsrbp) = hsrbp
  BY DEF TypeOK
<1> QED BY <1>1 DEF Here, There, Full, Behind

\* dwt_isr begins.
LEMMA StartStep == ASSUME RInv, TypeOK', IsrStart PROVE RInv'
<1> USE DEF RInv
<1>1. UNCHANGED <<application, asked, chip, wait4resp, histories>>
  BY DEF IsrStart, ReadStatus
<1>u. /\ asked' = asked /\ radio' = radio /\ waits' = waits /\ wait4resp' = wait4resp
      /\ arxslp' = arxslp /\ mode' = mode /\ sysStatus' = sysStatus
  BY ONLY <1>1 DEF application, chip
<1>2. /\ Here' = Here /\ There' = There /\ (Full' <=> Full) /\ (Behind' <=> Behind)
      /\ (Txfrs' <=> Txfrs) /\ (Aat' <=> Aat) /\ (Stopping' <=> Stopping)
  BY <1>1, SameBuffers, SameBits DEF chip
<1>3. pc = "idle" /\ pc' = "clear" /\ mode # "lowpower"
  BY DEF IsrStart, ReadStatus
<1>s. RadioInv /\ StatusInv /\ StopInv
  BY <1>3 DEF ModeInv
<1>4. /\ "TXFRS" \in status' <=> Txfrs
      /\ "AAT" \in status' <=> Aat
      /\ "AAT" \in cbStatus' <=> Aat
      /\ "RXFCG" \in status' <=> Full
      /\ "RXTO" \in status' <=> "RXTO" \in sysStatus
      /\ "RXERR" \in status' <=> "RXERR" \in sysStatus
  <2>1. status' = sysStatus \cup (IF Full THEN {"RXFCG"} ELSE {}) /\ cbStatus' = status'
    BY DEF IsrStart, ReadStatus, SysStatus, Full
  <2>2. "RXFCG" \notin sysStatus
    BY DEF TypeOK, Bits
  <2> QED BY <2>1, <2>2 DEF Txfrs, Aat
<1>5. Txfrs \/ Stopping \/ Full
  <2>1. PICK bit \in SysStatus : bit \in Bits /\ bit # "AAT"
    BY <1>3 DEF IsrStart, ReadStatus, Irq, Mask
  <2>2. sysStatus \subseteq Bits \ {"RXFCG"}
    BY DEF TypeOK
  <2> QED BY ONLY <2>1, <2>2 DEF SysStatus, Bits, Full, Txfrs, Stopping
<1>o. ~Over /\ ~Over'
  BY <1>3 DEF Over
<1>6. BufferInv'
  BY <1>1, <1>2, <1>3 DEF BufferInv, First, Unread, Double, application, chip, histories
<1>7. DueInv'
  BY <1>1, <1>2, <1>3 DEF DueInv, Unread, histories
<1>b. Behind => Full
  BY <1>3 DEF BufferInv, First, Unread
<1>p. (Pending' <=> Pending) /\ Newest' = Newest /\ (Pending <=> Full)
  BY <1>2, <1>3, <1>b DEF Pending, Newest
<1>8. RadioInv'
  <2> USE <1>u, <1>2, <1>3, <1>s, <1>4, <1>5, <1>o, <1>p
  <2>1. asked = "off" => FALSE
    BY DEF RadioInv, OffInv, Confirming
  <2>2. asked = "tx" => TxInv'
    BY DEF RadioInv, TxInv
  <2>3. asked = "rx" => RxInv'
    BY DEF RadioInv, RxInv
  <2>4. asked = "ack" => AckInv'
    BY DEF RadioInv, AckInv, Confirming
  <2>5. asked = "resp" => RespInv'
    BY DEF RadioInv, RespInv, NoEvent
  <2> QED BY <2>1, <2>2, <2>3, <2>4, <2>5 DEF RadioInv
<1>9. /\ Full /\ Here.ack => Aat
      /\ Aat => Full \/ asked = "ack"
      /\ Stopping /\ ~(Txfrs /\ Aat) => asked \in {"rx", "resp"} /\ radio = "off" /\ ~Full
  <2> USE <1>3, <1>s, <1>o, <1>p, <1>b
  <2>1. asked \in {"off", "tx"} => ~Full /\ ~Aat /\ ~Stopping
    BY DEF RadioInv, OffInv, TxInv
  <2>2. asked = "rx" => /\ Full /\ Here.ack => Aat
                        /\ Aat => Full
                        /\ Stopping => radio = "off" /\ ~Full
    BY DEF RadioInv, RxInv, BufferInv, Newest
  <2>3. asked = "ack" => /\ ~(Full /\ Here.ack)
                         /\ Stopping => Txfrs /\ Aat
    BY DEF RadioInv, AckInv, BufferInv, Newest
  <2>4. asked = "resp" => /\ Full /\ Here.ack => Aat
                          /\ Aat => Full
                          /\ Stopping /\ ~(Txfrs /\ Aat) => radio = "off" /\ ~Full
    BY DEF RadioInv, RespInv, NoEvent
  <2>5. asked \in {"off", "tx", "rx", "ack", "resp"}
    BY DEF TypeOK
  <2> QED BY <2>1, <2>2, <2>3, <2>4, <2>5
<1>10. StatusInv'
  BY <1>2, <1>3, <1>4, <1>9, <1>u, <1>b DEF StatusInv, Handling, Confirming
<1>11. StopInv'
  BY <1>s, <1>2, <1>3, <1>4, <1>9, <1>u, <1>p DEF StopInv, Aborting, Stopping
<1> QED BY <1>u, <1>3, <1>6, <1>7, <1>8, <1>10, <1>11 DEF ModeInv


\* No frame in the status.
LEMMA NoFrameStep == ASSUME RInv, IsrNoFrame, TypeOK' PROVE RInv'
<1> USE DEF RInv
<1>1. /\ pc = "clear" /\ "RXFCG" \notin status /\ pc' = "tx"
      /\ UNCHANGED <<application, asked, chip, wait4resp, status, cbStatus, histories>>
  BY DEF IsrNoFrame
<1>u. /\ UNCHANGED <<mode, asked, radio, waits, wait4resp, arxslp, sysStatus, status, cbStatus>>
      /\ UNCHANGED <<icrbp, hsrbp, rxBuffer, rxfcg, said, due>>
  BY ONLY <1>1 DEF application, chip, histories
<1>2. /\ Here' = Here /\ There' = There /\ (Full' <=> Full) /\ (Behind' <=> Behind)
      /\ (Txfrs' <=> Txfrs) /\ (Aat' <=> Aat) /\ (Stopping' <=> Stopping)
  BY <1>u, SameBuffers, SameBits
<1>m. mode # "lowpower"
  BY <1>1 DEF ModeInv, LowPowerInv
<1>s. RadioInv /\ StatusInv /\ StopInv
  BY <1>m DEF ModeInv
<1>o. ~Over /\ ~Over'
  BY <1>1 DEF Over
<1>p. (Pending' <=> Pending) /\ Newest' = Newest /\ (Confirming' <=> Confirming)
  BY <1>1, <1>u, <1>2 DEF Pending, Newest, Confirming
<1>b. BufferInv' /\ DueInv'
  BY <1>1, <1>u, <1>2 DEF BufferInv, DueInv, First, Unread, Double
<1>r. RadioInv'
  <2> USE <1>1, <1>u, <1>2, <1>s, <1>o, <1>p
  <2>1. asked = "off" => OffInv'
    BY DEF RadioInv, OffInv
  <2>2. asked = "tx" => TxInv'
    BY DEF RadioInv, TxInv
  <2>3. asked = "rx" => RxInv'
    BY DEF RadioInv, RxInv
  <2>4. asked = "ack" => AckInv'
    BY DEF RadioInv, AckInv
  <2>5. asked = "resp" => RespInv'
    BY DEF RadioInv, RespInv, NoEvent, StatusInv
  <2> QED BY <2>1, <2>2, <2>3, <2>4, <2>5 DEF RadioInv
<1>t. StatusInv'
  BY <1>1, <1>u, <1>2, <1>s, <1>p DEF StatusInv, Handling
<1>e. StopInv'
  BY <1>1, <1>u, <1>s, <1>p DEF StopInv, Aborting
<1> QED BY <1>u, <1>m, <1>b, <1>r, <1>t, <1>e DEF ModeInv

\* No transmission to confirm.
LEMMA NotSentStep == ASSUME RInv, IsrNotSent, TypeOK' PROVE RInv'
<1> USE DEF RInv
<1>1. /\ pc = "tx" /\ "TXFRS" \notin status /\ pc' = "to"
      /\ UNCHANGED <<application, asked, chip, wait4resp, status, cbStatus, histories>>
  BY DEF IsrNotSent
<1>u. /\ UNCHANGED <<mode, asked, radio, waits, wait4resp, arxslp, sysStatus, status, cbStatus>>
      /\ UNCHANGED <<icrbp, hsrbp, rxBuffer, rxfcg, said, due>>
  BY ONLY <1>1 DEF application, chip, histories
<1>2. /\ Here' = Here /\ There' = There /\ (Full' <=> Full) /\ (Behind' <=> Behind)
      /\ (Txfrs' <=> Txfrs) /\ (Aat' <=> Aat) /\ (Stopping' <=> Stopping)
  BY <1>u, SameBuffers, SameBits
<1>m. mode # "lowpower"
  BY <1>1 DEF ModeInv, LowPowerInv
<1>s. RadioInv /\ StatusInv /\ StopInv
  BY <1>m DEF ModeInv
<1>o. ~Over /\ ~Over'
  BY <1>1 DEF Over
<1>p. (Pending' <=> Pending) /\ Newest' = Newest /\ ~Confirming' /\ ~Confirming
  BY <1>1, <1>u, <1>2 DEF Pending, Newest, Confirming
<1>b. BufferInv' /\ DueInv'
  BY <1>1, <1>u, <1>2 DEF BufferInv, DueInv, First, Unread, Double
<1>r. RadioInv'
  <2> USE <1>1, <1>u, <1>2, <1>s, <1>o, <1>p
  <2>1. asked = "off" => OffInv'
    BY DEF RadioInv, OffInv
  <2>2. asked # "tx"
    BY DEF RadioInv, TxInv
  <2>3. asked = "rx" => RxInv'
    BY DEF RadioInv, RxInv
  <2>4. asked = "ack" => AckInv'
    BY DEF RadioInv, AckInv
  <2>5. asked = "resp" => RespInv'
    BY DEF RadioInv, RespInv, NoEvent
  <2> QED BY <2>1, <2>2, <2>3, <2>4, <2>5 DEF RadioInv
<1>t. StatusInv'
  BY <1>1, <1>u, <1>2, <1>s, <1>p DEF StatusInv, Handling
<1>e. StopInv'
  BY <1>1, <1>u, <1>s, <1>p DEF StopInv, Aborting
<1> QED BY <1>u, <1>m, <1>b, <1>r, <1>t, <1>e DEF ModeInv


\* A transmission ends.
LEMMA SentStep == ASSUME RInv, Sent, TypeOK', mode # "lowpower" PROVE RInv'
<1> USE DEF RInv
<1>1. /\ radio \in {"tx", "ack"}
      /\ radio' = IF ~waits THEN "off" ELSE IF radio = "tx" THEN "rx" ELSE "again"
      /\ waits' = (waits /\ radio = "tx")
      /\ UNCHANGED <<application, asked, arxslp, driver, histories>>
      /\ UNCHANGED <<icrbp, hsrbp, rxBuffer, rxfcg>>
      /\ sysStatus' = sysStatus \cup {"TXFRS"}
  BY DEF Sent
<1>u. UNCHANGED <<mode, asked, pc, wait4resp, arxslp, status, cbStatus, said, due>>
  BY ONLY <1>1 DEF application, driver, histories
<1>2. /\ Here' = Here /\ There' = There /\ (Full' <=> Full) /\ (Behind' <=> Behind)
      /\ Txfrs' /\ (Aat' <=> Aat) /\ (Stopping' <=> Stopping)
  BY <1>1, SameBuffers DEF Txfrs, Aat, Stopping
<1>s. RadioInv /\ StatusInv /\ StopInv
  BY DEF ModeInv
<1>o. ~Over /\ ~Over'
  BY <1>1, <1>u, <1>s DEF Over, RadioInv, OverInv
<1>p. (Pending' <=> Pending) /\ Newest' = Newest /\ (Confirming' <=> Confirming)
  BY <1>u, <1>2 DEF Pending, Newest, Confirming
<1>b. BufferInv' /\ DueInv'
  BY <1>1, <1>u, <1>2 DEF BufferInv, DueInv, First, Unread, Double
<1>r. RadioInv'
  <2> USE <1>1, <1>u, <1>2, <1>s, <1>o, <1>p
  <2>w. waits => wait4resp \/ pc = "ok"
    BY DEF RadioInv, OffInv
  <2>x. waits' => waits
    BY DEF TypeOK
  <2>1. asked # "off"
    BY DEF RadioInv, OffInv
  <2>2. asked = "tx" => TxInv'
    BY DEF RadioInv, TxInv
  <2>3. asked = "rx" => RxInv'
    BY DEF RadioInv, RxInv
  <2>4. asked = "ack" => AckInv'
    <3> SUFFICES ASSUME asked = "ack" PROVE AckInv'
      OBVIOUS
    <3>1. AckInv /\ radio = "ack" /\ ~Pending /\ ~Stopping
      BY DEF RadioInv, AckInv
    <3>2. Aat /\ wait4resp \in BOOLEAN
      BY <3>1 DEF AckInv, TypeOK
    <3>3. (waits => wait4resp) /\ ~waits'
      BY <3>1, <2>w DEF Pending
    <3> QED BY <3>1, <3>2, <3>3 DEF AckInv
  <2>5. asked = "resp" => RespInv'
    BY DEF RadioInv, RespInv, NoEvent
  <2> QED BY <2>1, <2>2, <2>3, <2>4, <2>5, <2>w, <2>x DEF RadioInv
<1>h. Handling => Here.ack
  <2> SUFFICES ASSUME Handling PROVE Here.ack
    OBVIOUS
  <2>1. Pending /\ pc \in {"clear", "fetch", "ok"}
    BY <1>s DEF Handling, Pending, StatusInv
  <2>2. asked = "rx" => Here.ack
    BY <2>1, <1>1, <1>s, <1>o DEF RadioInv, RxInv, BufferInv, Newest
  <2>3. asked = "resp" => Here.ack
    BY <2>1, <1>1, <1>s, <1>o DEF RadioInv, RespInv
  <2>4. asked \notin {"off", "tx", "ack"}
    BY <2>1, <1>1, <1>s, <1>o DEF RadioInv, OffInv, TxInv, AckInv
  <2> QED BY <2>2, <2>3, <2>4 DEF TypeOK
<1>t. StatusInv'
  BY <1>1, <1>u, <1>2, <1>s, <1>p, <1>h DEF StatusInv, Handling
<1>e. StopInv'
  <2>1. radio = "off" => FALSE
    BY <1>1
  <2> QED BY <1>1, <1>u, <1>s, <1>p, <2>1 DEF StopInv, Aborting
<1> QED BY <1>u, <1>b, <1>r, <1>t, <1>e DEF ModeInv

\* A reception ends without a good frame.
LEMMA NoGoodFrameStep == ASSUME RInv, NoGoodFrame, TypeOK', mode # "lowpower" PROVE RInv'
<1> USE DEF RInv
<1>s. RadioInv /\ StatusInv /\ StopInv
  BY DEF ModeInv
<1>1. PICK bit \in {"RXTO", "RXERR"} : sysStatus' = sysStatus \cup {bit}
  BY DEF NoGoodFrame
<1>3. /\ radio \in {"rx", "again"} /\ radio' = "off"
      /\ UNCHANGED <<application, asked, arxslp, waits, driver, histories>>
      /\ UNCHANGED <<icrbp, hsrbp, rxBuffer, rxfcg>>
  BY <1>s DEF NoGoodFrame, RadioInv
<1>u. UNCHANGED <<mode, asked, pc, wait4resp, arxslp, waits, status, cbStatus, said, due>>
  BY ONLY <1>3 DEF application, driver, histories
<1>2. /\ Here' = Here /\ There' = There /\ (Full' <=> Full) /\ (Behind' <=> Behind)
      /\ (Txfrs' <=> Txfrs) /\ (Aat' <=> Aat) /\ Stopping'
  BY <1>1, <1>3, SameBuffers DEF Txfrs, Aat, Stopping
<1>o. ~Over /\ ~Over'
  BY <1>3, <1>u, <1>s DEF Over, RadioInv, OverInv
<1>p. (Pending' <=> Pending) /\ Newest' = Newest /\ (Confirming' <=> Confirming)
  BY <1>u, <1>2 DEF Pending, Newest, Confirming
<1>b. BufferInv' /\ DueInv'
  BY <1>3, <1>u, <1>2 DEF BufferInv, DueInv, First, Unread, Double
<1>a. asked \in {"rx", "ack", "resp"} /\ ~Stopping
  <2> USE <1>3, <1>s, <1>o
  <2>1. asked # "off"
    BY DEF RadioInv, OffInv
  <2>2. asked # "tx"
    BY DEF RadioInv, TxInv
  <2>3. asked = "rx" => ~Stopping
    BY DEF RadioInv, RxInv
  <2>4. asked = "ack" => ~Stopping
    BY DEF RadioInv, AckInv
  <2>5. asked = "resp" => ~Stopping
    BY DEF RadioInv, RespInv
  <2> QED BY <2>1, <2>2, <2>3, <2>4, <2>5 DEF TypeOK
<1>r. RadioInv'
  <2> USE <1>3, <1>u, <1>2, <1>s, <1>o, <1>p
  <2>3. asked = "rx" => RxInv'
    BY DEF RadioInv, RxInv
  <2>4. asked = "ack" => AckInv'
    BY DEF RadioInv, AckInv
  <2>5. asked = "resp" => RespInv'
    <3>1. CASE radio = "rx"
      BY <3>1 DEF RadioInv, RespInv, Pending
    <3>2. CASE radio = "again"
      BY <3>2 DEF RadioInv, RespInv
    <3> QED BY <3>1, <3>2
  <2> QED BY <1>a, <2>3, <2>4, <2>5 DEF RadioInv
<1>t. StatusInv'
  BY <1>3, <1>u, <1>2, <1>s, <1>p DEF StatusInv, Handling
<1>e. StopInv'
  BY <1>1, <1>3, <1>u, <1>s, <1>p, <1>a DEF StopInv, Aborting, Stopping
<1> QED BY <1>u, <1>b, <1>r, <1>t, <1>e DEF ModeInv


\* A good frame.
LEMMA GoodFrameStep == ASSUME RInv, GoodFrame, TypeOK', mode # "lowpower" PROVE RInv'
<1> USE DEF RInv
<1>s. RadioInv /\ StatusInv /\ StopInv
  BY DEF ModeInv
<1>1. /\ radio \in {"rx", "again"} /\ ~rxfcg[icrbp]
      /\ Double \/ pc \notin {"clear", "fetch", "ok"}
      /\ UNCHANGED <<application, asked, hsrbp, waits, arxslp, driver, said>>
      /\ icrbp' = IF Double THEN 1 - icrbp ELSE icrbp
  BY DEF GoodFrame, Occupied, Toggled
<1>2. PICK ack \in BOOLEAN, spurious \in BOOLEAN :
        LET frame == [n |-> frames + 1, ack |-> ack, asked |-> radio = "rx"] IN
        /\ ack => ~Txfrs
        /\ rxBuffer' = [rxBuffer EXCEPT ![icrbp] = frame]
        /\ rxfcg' = [rxfcg EXCEPT ![icrbp] = TRUE]
        /\ due' = IF frame.asked THEN Append(due, frame) ELSE due
        /\ radio' = IF ack THEN "ack" ELSE "off"
        /\ sysStatus' = sysStatus \cup IF ack \/ spurious THEN {"AAT"} ELSE {}
  BY DEF GoodFrame, Txfrs
<1> DEFINE f == [n |-> frames + 1, ack |-> ack, asked |-> radio = "rx"]
<1>f. f.n # 0 /\ (f.ack <=> ack) /\ (f.asked <=> radio = "rx") /\ f \in Frames
  <2>1. frames \in Nat /\ MaxFrames \in Nat /\ frames < MaxFrames
    BY BoundsAssumption DEF TypeOK, GoodFrame
  <2>2. f \in Frames
    BY <2>1 DEF Frames
  <2>3. f.n # 0 /\ f.ack = ack /\ f.asked = (radio = "rx")
    BY <2>1
  <2> HIDE DEF f
  <2> QED BY <2>2, <2>3
<1>3. /\ ack => ~Txfrs
      /\ rxBuffer' = [rxBuffer EXCEPT ![icrbp] = f] /\ rxfcg' = [rxfcg EXCEPT ![icrbp] = TRUE]
      /\ due' = IF f.asked THEN Append(due, f) ELSE due
      /\ radio' = IF ack THEN "ack" ELSE "off"
      /\ sysStatus' = sysStatus \cup IF ack \/ spurious THEN {"AAT"} ELSE {}
  BY <1>2
<1> HIDE DEF f
<1>u. UNCHANGED <<mode, asked, pc, wait4resp, arxslp, waits, status, cbStatus, said, hsrbp>>
  BY ONLY <1>1 DEF application, driver
<1>b1. /\ (Txfrs' <=> Txfrs) /\ (Aat' <=> Aat \/ ack \/ spurious) /\ (Stopping' <=> Stopping)
       /\ ("RXTO" \in sysStatus' <=> "RXTO" \in sysStatus)
       /\ ("RXERR" \in sysStatus' <=> "RXERR" \in sysStatus)
  BY <1>3 DEF Txfrs, Aat, Stopping
<1>o. ~Over /\ ~Over' /\ asked \in {"rx", "ack", "resp"} /\ ~Stopping
  <2> USE <1>1, <1>s
  <2>1. ~Over
    BY DEF RadioInv, OverInv
  <2>2. asked \notin {"off", "tx"}
    BY <2>1 DEF RadioInv, OffInv, TxInv
  <2>3. asked = "rx" => ~Stopping
    BY <2>1 DEF RadioInv, RxInv
  <2>4. asked = "ack" => ~Stopping
    BY <2>1 DEF RadioInv, AckInv
  <2>5. asked = "resp" => ~Stopping
    BY <2>1 DEF RadioInv, RespInv
  <2> QED BY <2>1, <2>2, <2>3, <2>4, <2>5, <1>u DEF TypeOK, Over
\* What the radio receives for says what may be pending.
<1>w. /\ asked = "rx" => radio = "rx" /\ ~Pending /\ ~Aat /\ ~waits
      /\ asked = "ack" => radio = "again" /\ ~Pending /\ ~waits /\ wait4resp /\ Aat /\ Txfrs
      /\ asked = "resp" =>
           /\ ~Behind /\ wait4resp /\ pc \notin {"read", "toggle"}
           /\ radio = "rx" => ~Pending /\ waits /\ ~Aat
           /\ radio = "again" => Pending /\ ~waits /\ Here.ack /\ Here.asked /\ Aat /\ Txfrs
  <2> USE <1>1, <1>s, <1>o
  <2>1. asked = "rx" => radio = "rx" /\ ~Pending /\ ~Aat /\ ~waits
    BY DEF RadioInv, RxInv
  <2>2. asked = "ack" => radio = "again" /\ ~Pending /\ ~waits /\ wait4resp /\ Aat /\ Txfrs
    BY DEF RadioInv, AckInv, Pending
  <2>3. asked = "resp" /\ radio = "rx" =>
          ~Pending /\ waits /\ ~Aat /\ wait4resp /\ pc \notin {"read", "toggle"} /\ ~Behind
    BY DEF RadioInv, RespInv, Pending
  <2>4. asked = "resp" /\ radio = "again" =>
          /\ Pending /\ ~waits /\ Here.ack /\ Here.asked /\ Aat /\ Txfrs /\ wait4resp
          /\ pc \notin {"read", "toggle"} /\ ~Behind
    BY DEF RadioInv, RespInv, Pending
  <2> QED BY <2>1, <2>2, <2>3, <2>4
<1>x. hsrbp \in {0, 1} /\ icrbp \in {0, 1} /\ rxfcg \in [{0, 1} -> BOOLEAN] /\ DOMAIN rxBuffer = {0, 1}
  BY DEF TypeOK
\* The frame comes to the buffer the host is at, which is free, ...
<1>A. CASE icrbp = hsrbp
  <2>1. Here' = f /\ There' = There /\ Full' /\ (Behind' <=> Behind)
    BY <1>A, <1>3, <1>u, <1>x DEF Here, There, Full, Behind
  <2>2. ~First /\ ~Behind /\ ~Pending /\ ~Full
    <3>1. ~Full
      BY <1>A, <1>1 DEF Full
    <3>2. ~Behind
      BY <1>w, <1>o DEF Pending
    <3>3. Double => ~First
      BY <1>A, <3>2 DEF BufferInv
    <3>4. ~Double => ~First
      BY <1>1, <3>1 DEF BufferInv, First, Unread
    <3> QED BY <3>1, <3>2, <3>3, <3>4 DEF First, Unread, Pending
  <2>3. radio = "again" => asked = "ack"
    BY <1>w, <2>2, <1>o
  <2>p. Pending' /\ Newest' = f /\ ~Behind'
    BY <2>1, <2>2 DEF Pending, Newest
  <2>c. pc \notin {"fetch", "ok", "read"} /\ ~(Double /\ pc = "toggle")
    BY <2>2 DEF First, Unread
  <2>h. ~Handling /\ ~Handling' /\ (Confirming' <=> Confirming)
    BY <2>2, <2>c, <1>u, <1>s DEF Handling, StatusInv, Confirming
  <2>b. BufferInv' /\ DueInv'
    <3>1. due = <<>>
      BY <2>2 DEF DueInv, First
    <3>2. Append(<<>>, f) = <<f>>
      BY <1>f, OneAndTwo
    <3>3. DueInv'
      BY <3>1, <3>2, <1>3, <2>1, <2>2, <2>p DEF DueInv, Unread
    <3>4. BufferInv'
      BY <1>A, <1>1, <1>u, <1>x, <1>f, <2>1, <2>2, <2>p, <2>c DEF BufferInv, First, Unread, Double
    <3> QED BY <3>3, <3>4
  <2>r. RadioInv'
    <3> USE <1>1, <1>3, <1>f, <1>u, <1>b1, <1>o, <1>w, <1>s, <2>1, <2>2, <2>3, <2>p, <2>h
    <3>1. asked = "rx" => RxInv'
      BY DEF RxInv
    <3>2. asked = "ack" => AckInv'
      BY DEF AckInv, RadioInv
    <3>3. asked = "resp" => RespInv'
      BY DEF RespInv, RadioInv
    <3> QED BY <3>1, <3>2, <3>3 DEF RadioInv
  <2>t. StatusInv'
    BY <1>3, <1>f, <1>u, <1>b1, <1>s, <2>1, <2>p, <2>c, <2>h DEF StatusInv, Handling
  <2>e. StopInv'
    BY <1>1, <1>u, <1>b1, <1>s, <2>h DEF StopInv, Aborting
  <2> QED BY <1>u, <2>b, <2>r, <2>t, <2>e DEF ModeInv
\* ... or to the other one, while the host is at one that has not been dealt with.
<1>B. CASE icrbp # hsrbp
  <2>1. Here' = Here /\ There' = f /\ Behind' /\ (Full' <=> Full)
    <3>1. icrbp = 1 - hsrbp
      BY <1>B, <1>x
    <3> QED BY <1>B, <3>1, <1>3, <1>u, <1>x DEF Here, There, Full, Behind
  <2>2. Double /\ First /\ ~Behind /\ icrbp' = hsrbp
    BY <1>B, <1>1, <1>x DEF BufferInv
  <2>3. asked \in {"rx", "ack"} => pc \in {"read", "toggle"}
    BY <1>w, <2>2 DEF First, Unread, Pending
  <2>4. radio = "rx" => asked = "rx"
    BY <1>w, <1>o, <2>2 DEF First, Unread, Pending
  <2>p. Pending' /\ Newest' = f
    BY <2>1 DEF Pending, Newest
  <2>h. (Handling' <=> Handling) /\ (Confirming' <=> Confirming)
    BY <1>u DEF Handling, Confirming
  <2>b. BufferInv' /\ DueInv'
    <3>1. due = IF Unread /\ Here.asked THEN <<Here>> ELSE <<>>
      BY <2>2 DEF DueInv
    <3>2. Append(<<>>, f) = <<f>> /\ Append(<<Here>>, f) = <<Here, f>>
      <4>1. f \in Frames /\ Here \in Frames
        BY <1>f, HostTypes
      <4> QED BY ONLY <4>1, OneAndTwo
    <3>3. DueInv'
      BY <3>1, <3>2, <1>3, <1>u, <2>1 DEF DueInv, Unread
    <3>4. BufferInv'
      BY <1>1, <1>u, <1>x, <1>f, <1>o, <2>1, <2>2, <2>3 DEF BufferInv, First, Unread, Double
    <3> QED BY <3>3, <3>4
  <2>r. RadioInv'
    <3> USE <1>1, <1>3, <1>f, <1>u, <1>b1, <1>o, <1>w, <1>s, <2>1, <2>2, <2>3, <2>4, <2>p, <2>h
    <3>1. asked = "rx" => RxInv'
      BY DEF RxInv
    <3>2. asked = "ack" => AckInv'
      BY DEF AckInv, RadioInv
    <3>3. asked = "resp" => RespInv'
      BY DEF RespInv, RadioInv
    <3> QED BY <3>1, <3>2, <3>3 DEF RadioInv
  <2>5. Handling => asked = "resp" /\ Aat /\ Here.ack
    BY <1>o, <1>w, <1>1, <2>3, <2>4 DEF Handling
  <2>t. StatusInv'
    BY <1>3, <1>f, <1>u, <1>b1, <1>s, <2>1, <2>p, <2>h, <2>5 DEF StatusInv
  <2>e. StopInv'
    BY <1>1, <1>u, <1>b1, <1>s, <2>h DEF StopInv, Aborting
  <2> QED BY <1>u, <2>b, <2>r, <2>t, <2>e DEF ModeInv
<1> QED BY <1>A, <1>B


\* A frame in the status: ALL_RX_GOOD is cleared.
LEMMA RxClearStep == ASSUME RInv, IsrRxClear, TypeOK', mode # "lowpower" PROVE RInv'
<1> USE DEF RInv
<1>s. RadioInv /\ StatusInv /\ StopInv
  BY DEF ModeInv
<1>1. /\ pc = "clear" /\ "RXFCG" \in status /\ pc' = "fetch"
      /\ rxfcg' = [rxfcg EXCEPT ![hsrbp] = FALSE] /\ radio' = radio
      /\ UNCHANGED <<mode, asked, waits, wait4resp, arxslp, sysStatus, status, cbStatus>>
      /\ UNCHANGED <<icrbp, hsrbp, rxBuffer, said, due>>
  BY <1>s DEF IsrRxClear, RadioInv, application, histories
<1>2. /\ Here' = Here /\ There' = There /\ Full /\ ~Full' /\ (Behind' <=> Behind)
      /\ (Txfrs' <=> Txfrs) /\ (Aat' <=> Aat) /\ (Stopping' <=> Stopping)
  <2>1. Full
    BY <1>1, <1>s DEF StatusInv
  <2>2. Here' = Here /\ There' = There
    BY <1>1 DEF Here, There
  <2>3. ~Full' /\ (Behind' <=> Behind)
    BY <1>1 DEF Full, Behind, TypeOK
  <2> QED BY <1>1, <2>1, <2>2, <2>3, SameBits
<1>o. ~Over /\ ~Over'
  BY <1>1 DEF Over
<1>p. /\ Pending /\ Pending' /\ Newest' = Newest /\ (Confirming' <=> Confirming)
      /\ Handling /\ Handling' /\ Unread /\ Unread' /\ First /\ First'
  BY <1>1, <1>2 DEF Pending, Newest, Confirming, Handling, Unread, First
<1>b. BufferInv' /\ DueInv'
  BY <1>1, <1>2, <1>p DEF BufferInv, DueInv, Double
<1>r. RadioInv'
  <2> USE <1>1, <1>2, <1>s, <1>o, <1>p
  <2>1. asked # "off"
    BY DEF RadioInv, OffInv
  <2>2. asked # "tx"
    BY DEF RadioInv, TxInv
  <2>3. asked = "rx" => RxInv'
    BY DEF RadioInv, RxInv
  <2>4. asked = "ack" => AckInv'
    BY DEF RadioInv, AckInv
  <2>5. asked = "resp" => RespInv'
    BY DEF RadioInv, RespInv
  <2> QED BY <2>1, <2>2, <2>3, <2>4, <2>5 DEF RadioInv
<1>t. StatusInv'
  BY <1>1, <1>2, <1>s, <1>p DEF StatusInv
<1>e. StopInv'
  BY <1>1, <1>s, <1>p DEF StopInv, Aborting
<1> QED BY <1>1, <1>b, <1>r, <1>t, <1>e DEF ModeInv

\* Its frame control is read, and the AAT of one that asks for no acknowledgement goes.
LEMMA RxFetchStep == ASSUME RInv, IsrRxFetch, TypeOK', mode # "lowpower" PROVE RInv'
<1> USE DEF RInv
<1>s. RadioInv /\ StatusInv /\ StopInv
  BY DEF ModeInv
<1>1. /\ pc = "fetch" /\ pc' = "ok" /\ said' = Here
      /\ UNCHANGED <<mode, asked, radio, waits, arxslp, status>>
      /\ UNCHANGED <<icrbp, hsrbp, rxBuffer, rxfcg, due>>
  BY <1>s DEF IsrRxFetch, HostBuffer, Here, RadioInv, application
<1> DEFINE Stray == "AAT" \in status /\ ~Here.ack
<1>3. IF Stray
        THEN sysStatus' = sysStatus \ {"AAT"} /\ wait4resp' = FALSE /\ cbStatus' = cbStatus \ {"AAT"}
        ELSE sysStatus' = sysStatus /\ wait4resp' = wait4resp /\ cbStatus' = cbStatus
  BY <1>1 DEF IsrRxFetch, WithoutAat
<1>2. /\ Here' = Here /\ There' = There /\ (Full' <=> Full) /\ (Behind' <=> Behind)
      /\ (Txfrs' <=> Txfrs) /\ (Aat' <=> Aat /\ ~Stray) /\ (Stopping' <=> Stopping)
      /\ ("AAT" \in cbStatus' <=> "AAT" \in cbStatus /\ ~Stray)
  BY <1>1, <1>3, SameBuffers DEF Txfrs, Aat, Stopping
<1>4. /\ ("RXTO" \in sysStatus' <=> "RXTO" \in sysStatus)
      /\ ("RXERR" \in sysStatus' <=> "RXERR" \in sysStatus)
      /\ (wait4resp' <=> wait4resp /\ ~Stray)
  BY <1>3 DEF TypeOK
<1>o. ~Over /\ ~Over'
  BY <1>1 DEF Over
<1>p. /\ Pending /\ Pending' /\ Newest' = Newest /\ (Confirming' <=> Confirming)
      /\ Handling /\ Handling' /\ Unread /\ Unread' /\ First /\ First' /\ ~Full
  BY <1>1, <1>2 DEF Pending, Newest, Confirming, Handling, Unread, First, BufferInv
<1>b. BufferInv' /\ DueInv'
  BY <1>1, <1>2, <1>p DEF BufferInv, DueInv, Double
<1>a. asked \in {"rx", "ack"} => ~Behind /\ Newest = Here
  BY <1>1 DEF BufferInv, Newest
<1>i. /\ "AAT" \in cbStatus <=> "AAT" \in status
      /\ Aat => "AAT" \in status
  BY <1>1, <1>s, <1>p DEF StatusInv
<1> HIDE DEF Stray
<1>g. Stray <=> "AAT" \in status /\ ~Here.ack
  BY DEF Stray
<1>r. RadioInv'
  <2> USE <1>1, <1>2, <1>4, <1>s, <1>o, <1>p, <1>a, <1>g, <1>i
  <2>1. asked # "off"
    BY DEF RadioInv, OffInv
  <2>2. asked # "tx"
    BY DEF RadioInv, TxInv
  <2>3. asked = "rx" => RxInv'
    BY DEF RadioInv, RxInv
  <2>4. asked = "ack" => AckInv'
    BY DEF RadioInv, AckInv
  <2>5. asked = "resp" => RespInv'
    BY DEF RadioInv, RespInv
  <2> QED BY <2>1, <2>2, <2>3, <2>4, <2>5 DEF RadioInv
<1>t. StatusInv'
  BY <1>1, <1>2, <1>4, <1>g, <1>i, <1>s, <1>p DEF StatusInv
<1>e. StopInv'
  <2>1. ~Aborting' \/ ("TXFRS" \in status' /\ "AAT" \in status')
    BY <1>1, <1>s, <1>p DEF StopInv, Aborting
  <2> QED BY <1>1, <1>4, <1>s, <2>1 DEF StopInv
<1> QED BY <1>1, <1>b, <1>r, <1>t, <1>e DEF ModeInv


\* cbRxOk goes on with the reception or leaves the radio to the acknowledgement.
LEMMA ContinueStep ==
  ASSUME RInv, mode # "lowpower", pc = "ok", NEW sync, Continue(sync), sync => ~Double,
         pc' \in {"read", "toggle"},
         UNCHANGED <<mode, icrbp, rxBuffer, rxfcg, sysStatus, arxslp, wait4resp, status, cbStatus>>
  PROVE  hsrbp' = hsrbp /\ RadioInv' /\ StatusInv' /\ StopInv'
<1> USE DEF RInv
<1>s. RadioInv /\ StatusInv /\ StopInv
  BY DEF ModeInv
<1>1. hsrbp' = hsrbp
  BY DEF Continue, RxEnable, SyncRxBufPtrs, BufferInv
<1>2. /\ Here' = Here /\ There' = There /\ (Full' <=> Full) /\ (Behind' <=> Behind)
      /\ (Txfrs' <=> Txfrs) /\ (Aat' <=> Aat) /\ (Stopping' <=> Stopping)
  BY <1>1, SameBuffers, SameBits
<1>o. ~Over /\ ~Over'
  BY DEF Over
<1>p. /\ Pending /\ Handling /\ ~Handling' /\ ~Full /\ (Pending' <=> Behind)
      /\ (Confirming' <=> Confirming)
  BY <1>2 DEF Pending, Confirming, Handling, BufferInv
<1>a. /\ asked \in {"rx", "ack"} => ~Behind
      /\ Newest = IF Behind THEN There ELSE Here
      /\ Newest' = IF Behind THEN There ELSE Here
  BY <1>2 DEF BufferInv, Newest
<1>k. asked \in {"rx", "ack", "resp"}
  BY <1>s, <1>o, <1>p DEF RadioInv, OffInv, TxInv, TypeOK
<1>e. StopInv'
  BY <1>s, <1>p DEF StopInv, Aborting
<1>w. /\ waits => wait4resp \/ pc = "ok"
      /\ ~arxslp /\ radio # "asleep"
  BY <1>s DEF RadioInv
\* The acknowledgement is on its way, or has been sent.
<1>A. CASE "AAT" \in cbStatus
  <2>1. asked' = "ack" /\ radio' = radio /\ waits' = waits
    BY <1>A DEF Continue
  <2>2. "AAT" \in status /\ Here.ack
    BY <1>A, <1>s DEF StatusInv
  <2>3. asked = "rx" => /\ Aat /\ ~Behind /\ ~waits /\ ~Stopping /\ radio \in {"off", "ack"}
                        /\ (Txfrs <=> radio = "off")
    BY <2>2, <1>s, <1>o, <1>p, <1>a DEF RadioInv, RxInv
  <2>4. asked # "ack"
    BY <2>2, <1>s, <1>o, <1>p, <1>a DEF RadioInv, AckInv
  <2>5. asked = "resp" =>
          /\ Aat /\ wait4resp /\ radio \in {"ack", "again", "off"}
          /\ (waits <=> radio = "ack") /\ (Txfrs <=> radio # "ack")
          /\ radio # "off" => ~Behind /\ ~Stopping
          /\ Behind => ~There.ack /\ ~There.asked /\ ~Stopping
    BY <2>2, <1>s, <1>o, <1>p DEF RadioInv, RespInv
  <2>6. AckInv'
    <3>1. CASE asked = "rx"
      BY <3>1, <1>2, <1>p, <1>a, <2>1, <2>2, <2>3 DEF AckInv
    <3>2. CASE asked = "resp"
      BY <3>2, <1>2, <1>p, <1>a, <2>1, <2>2, <2>5 DEF AckInv
    <3> QED BY <3>1, <3>2, <1>k, <2>4
  <2>7. waits' => wait4resp'
    BY <1>k, <2>1, <2>3, <2>4, <2>5
  <2>r. RadioInv'
    BY <1>w, <1>o, <2>1, <2>6, <2>7 DEF RadioInv
  <2>t. StatusInv'
    BY <1>2, <1>s, <1>p, <2>1 DEF StatusInv
  <2> QED BY <1>1, <2>r, <2>t, <1>e
\* There is none.
<1>B. CASE "AAT" \notin cbStatus
  <2>1. IF listens
          THEN asked' = "rx" /\ radio' = "rx" /\ waits' = FALSE
          ELSE asked' = "off" /\ radio' = radio /\ waits' = waits
    BY <1>B DEF Continue, RxEnable
  <2>2. /\ ~Here.ack /\ ~Aat /\ (Txfrs => "TXFRS" \in status)
        /\ ~("AAT" \in status /\ wait4resp)
    BY <1>B, <1>s, <1>p DEF StatusInv
  <2>3. radio = "off" /\ ~Behind /\ ~Stopping
    <3>1. CASE asked = "rx"
      BY <3>1, <2>2, <1>s, <1>o, <1>p, <1>a DEF RadioInv, RxInv
    <3>2. CASE asked = "ack"
      BY <3>2, <2>2, <1>s, <1>o, <1>p, <1>a DEF RadioInv, AckInv
    <3>3. CASE asked = "resp"
      BY <3>3, <2>2, <1>s, <1>o, <1>p DEF RadioInv, RespInv
    <3> QED BY <3>1, <3>2, <3>3, <1>k
  <2>r. RadioInv'
    <3>1. CASE listens
      BY <3>1, <1>2, <1>p, <1>o, <1>w, <2>1, <2>2, <2>3 DEF RadioInv, RxInv
    <3>2. CASE ~listens
      <4>1. Txfrs => Confirming'
        BY <2>2 DEF Confirming
      <4> QED BY <3>2, <4>1, <1>2, <1>p, <1>o, <1>w, <2>1, <2>2, <2>3 DEF RadioInv, OffInv
    <3> QED BY <3>1, <3>2
  <2>t. StatusInv'
    BY <1>2, <1>s, <1>p, <2>1, <2>2, <2>3 DEF StatusInv
  <2> QED BY <1>1, <2>r, <2>t, <1>e
<1> QED BY <1>A, <1>B

LEMMA RxOkStep == ASSUME RInv, CbRxOk, TypeOK', mode # "lowpower" PROVE RInv'
<1> USE DEF RInv
<1>1. /\ pc = "ok" /\ Double /\ pc' = "read" /\ Continue(FALSE)
      /\ UNCHANGED <<mode, icrbp, rxBuffer, rxfcg, sysStatus, arxslp, wait4resp, status, cbStatus>>
      /\ UNCHANGED <<said, due>>
  BY DEF CbRxOk, application, histories
<1>2. hsrbp' = hsrbp /\ RadioInv' /\ StatusInv' /\ StopInv'
  BY <1>1, ContinueStep
<1>3. Here' = Here /\ There' = There /\ (Full' <=> Full) /\ (Behind' <=> Behind)
  BY <1>1, <1>2, SameBuffers
<1>4. Double' /\ Unread /\ Unread' /\ First /\ First'
  BY <1>1 DEF Double, Unread, First
<1>b. BufferInv' /\ DueInv'
  BY <1>1, <1>2, <1>3, <1>4 DEF BufferInv, DueInv
<1> QED BY <1>1, <1>2, <1>b DEF ModeInv

\* cbRxOk reads the frame.
LEMMA ReadStep == ASSUME RInv, CbRead, TypeOK', mode # "lowpower" PROVE RInv'
<1> USE DEF RInv
<1>s. RadioInv /\ StatusInv /\ StopInv
  BY DEF ModeInv
<1>1. /\ pc = (IF Double THEN "read" ELSE "ok") /\ pc' = "toggle"
      /\ due' = IF due # <<>> /\ Head(due) = Here THEN Tail(due) ELSE due
      /\ UNCHANGED <<mode, icrbp, rxBuffer, rxfcg, sysStatus, arxslp, wait4resp, status, cbStatus>>
  BY <1>s DEF CbRead, HostBuffer, Here, RadioInv, application
<1>2. hsrbp' = hsrbp
  <2>1. CASE Double
    BY <2>1 DEF CbRead
  <2>2. CASE ~Double
    BY <2>2, <1>1, ContinueStep DEF CbRead
  <2> QED BY <2>1, <2>2
<1>3. /\ Here' = Here /\ There' = There /\ (Full' <=> Full) /\ (Behind' <=> Behind)
      /\ (Txfrs' <=> Txfrs) /\ (Aat' <=> Aat) /\ (Stopping' <=> Stopping)
  BY <1>1, <1>2, SameBuffers, SameBits
<1>4. Unread /\ ~Unread' /\ ~Full /\ (First' <=> Double) /\ (Double' <=> Double) /\ First
  BY <1>1, <1>3 DEF Unread, First, Double, BufferInv
<1>b. BufferInv'
  BY <1>1, <1>2, <1>3, <1>4 DEF BufferInv
<1>d. DueInv'
  <2>1. due = IF Here.asked THEN IF Behind /\ There.asked THEN <<Here, There>> ELSE <<Here>>
                            ELSE IF Behind /\ There.asked THEN <<There>> ELSE <<>>
    BY <1>4 DEF DueInv
  <2>2. due' = IF Behind /\ There.asked THEN <<There>> ELSE <<>>
    <3>1. CASE Here.asked /\ Behind /\ There.asked
      BY <3>1, <2>1, <1>1, HostTypes, OneAndTwo
    <3>2. CASE Here.asked /\ ~(Behind /\ There.asked)
      BY <3>2, <2>1, <1>1, HostTypes, OneAndTwo
    <3>3. CASE ~Here.asked /\ Behind /\ There.asked
      BY <3>3, <2>1, <1>1, HostTypes, OneAndTwo
    <3>4. CASE ~Here.asked /\ ~(Behind /\ There.asked)
      BY <3>4, <2>1, <1>1
    <3> QED BY <3>1, <3>2, <3>3, <3>4
  <2> QED BY <2>2, <1>3, <1>4 DEF DueInv
<1>r. RadioInv' /\ StatusInv' /\ StopInv'
  <2>1. CASE ~Double
    BY <2>1, <1>1, ContinueStep DEF CbRead
  <2>2. CASE Double
    <3>1. pc = "read" /\ UNCHANGED <<asked, radio, waits>>
      BY <2>2, <1>1 DEF CbRead
    <3>o. ~Over /\ ~Over'
      BY <3>1, <1>1 DEF Over
    <3>p. /\ (Pending' <=> Pending) /\ Newest' = Newest /\ (Confirming' <=> Confirming)
          /\ ~Handling /\ ~Handling'
      BY <3>1, <1>1, <1>3 DEF Pending, Newest, Confirming, Handling
    <3>r. RadioInv'
      <4> USE <3>1, <3>o, <3>p, <1>1, <1>3, <1>s
      <4>1. asked = "off" => OffInv'
        BY DEF RadioInv, OffInv
      <4>2. asked # "tx"
        BY DEF RadioInv, TxInv
      <4>3. asked = "rx" => RxInv'
        BY DEF RadioInv, RxInv
      <4>4. asked = "ack" => AckInv'
        BY DEF RadioInv, AckInv
      <4>5. asked # "resp"
        BY DEF RadioInv, RespInv
      <4> QED BY <4>1, <4>2, <4>3, <4>4, <4>5 DEF RadioInv
    <3>t. StatusInv'
      BY <3>1, <3>p, <1>1, <1>3, <1>s DEF StatusInv
    <3>e. StopInv'
      BY <3>1, <3>p, <1>1, <1>s DEF StopInv, Aborting
    <3> QED BY <3>r, <3>t, <3>e
  <2> QED BY <2>1, <2>2
<1> QED BY <1>1, <1>b, <1>d, <1>r DEF ModeInv


\* The host turns to the other buffer.
LEMMA ToggleStep == ASSUME RInv, IsrToggle, TypeOK', mode # "lowpower" PROVE RInv'
<1> USE DEF RInv
<1>s. RadioInv /\ StatusInv /\ StopInv
  BY DEF ModeInv
<1>1. /\ pc = "toggle" /\ pc' = "tx"
      /\ hsrbp' = IF Double THEN 1 - hsrbp ELSE hsrbp
      /\ UNCHANGED <<mode, asked, radio, waits, arxslp, wait4resp, sysStatus, status, cbStatus>>
      /\ UNCHANGED <<icrbp, rxBuffer, rxfcg, said, due>>
  BY DEF IsrToggle, Toggled, application, histories
<1>2. /\ (Txfrs' <=> Txfrs) /\ (Aat' <=> Aat) /\ (Stopping' <=> Stopping)
      /\ (Double' <=> Double)
  BY <1>1, SameBits DEF Double
<1>3. /\ BufferInv' /\ DueInv'
      /\ (Pending' <=> Pending) /\ (Pending => Newest' = Newest) /\ ~Behind'
      /\ (Full' /\ Here'.ack => (Full /\ Here.ack) \/ (Behind /\ There.ack))
  <2>1. CASE Double
    <3>1. Here' = There /\ There' = Here /\ (Full' <=> Behind) /\ (Behind' <=> Full)
      BY <1>1, <2>1, ToggleEffect
    <3>2. ~Full /\ ~Unread /\ First
      BY <1>1, <2>1 DEF BufferInv, Unread, First
    <3>3. (Unread' <=> Behind) /\ (First' <=> Behind)
      BY <1>1, <3>1 DEF Unread, First
    <3>4. /\ hsrbp \in {0, 1} /\ icrbp \in {0, 1} /\ hsrbp' = 1 - hsrbp
          /\ (hsrbp = icrbp <=> Behind)
      BY <1>1, <2>1, <3>2 DEF TypeOK, BufferInv
    <3>5. hsrbp' = icrbp <=> ~Behind
      BY <3>4
    <3>6. BufferInv'
      BY <1>1, <1>2, <2>1, <3>1, <3>2, <3>3, <3>5 DEF BufferInv
    <3>7. DueInv'
      BY <1>1, <3>1, <3>2, <3>3 DEF DueInv
    <3>8. (Pending' <=> Pending) /\ (Pending => Newest' = Newest)
      BY <1>1, <3>1, <3>2 DEF Pending, Newest
    <3> QED BY <3>1, <3>2, <3>6, <3>7, <3>8
  <2>2. CASE ~Double
    <3>1. Here' = Here /\ There' = There /\ (Full' <=> Full) /\ (Behind' <=> Behind)
      BY <1>1, <2>2, SameBuffers
    <3> QED BY <1>1, <1>2, <2>2, <3>1 DEF BufferInv, DueInv, Pending, Newest, Unread, First
  <2> QED BY <2>1, <2>2
<1>o. ~Over /\ ~Over' /\ (Confirming' <=> Confirming) /\ ~Handling /\ ~Handling'
  BY <1>1 DEF Over, Confirming, Handling
<1>r. RadioInv'
  <2> USE <1>1, <1>2, <1>3, <1>s, <1>o
  <2>1. asked = "off" => OffInv'
    BY DEF RadioInv, OffInv
  <2>2. asked # "tx"
    BY DEF RadioInv, TxInv
  <2>3. asked = "rx" => RxInv'
    BY DEF RadioInv, RxInv
  <2>4. asked = "ack" => AckInv'
    BY DEF RadioInv, AckInv
  <2>5. asked # "resp"
    BY DEF RadioInv, RespInv
  <2> QED BY <2>1, <2>2, <2>3, <2>4, <2>5 DEF RadioInv
<1>t. StatusInv'
  BY <1>1, <1>2, <1>3, <1>o, <1>s DEF StatusInv
<1>e. StopInv'
  BY <1>1, <1>3, <1>o, <1>s DEF StopInv, Aborting
<1> QED BY <1>1, <1>3, <1>r, <1>t, <1>e DEF ModeInv


\* A transmission is confirmed.
LEMMA TxDoneStep == ASSUME RInv, IsrTxDone, TypeOK', mode # "lowpower" PROVE RInv'
<1> USE DEF RInv
<1>s. RadioInv /\ StatusInv /\ StopInv
  BY DEF ModeInv
<1>1. /\ pc = "tx" /\ "TXFRS" \in status /\ pc' = "txdone"
      /\ UNCHANGED <<mode, asked, arxslp, status, cbStatus, icrbp, rxBuffer, said, due>>
  BY DEF IsrTxDone, application, histories
<1>o. ~Over /\ (Over' <=> asked \in {"tx", "ack"})
  BY <1>1 DEF Over
<1>p. /\ Confirming /\ ~Confirming' /\ ~Handling /\ ~Handling' /\ (Aborting' <=> Aborting)
      /\ Txfrs
  BY <1>1, <1>s DEF Confirming, Handling, Aborting, StatusInv
<1>q. /\ (Pending <=> Full \/ Behind) /\ (Unread <=> Full) /\ (First <=> Full)
      /\ Behind => Full /\ asked = "resp"
  BY <1>1 DEF Pending, Unread, First, BufferInv
<1>w. waits => wait4resp \/ asked = "off"
  BY <1>1, <1>s DEF RadioInv
<1>A. CASE "AAT" \in status /\ wait4resp
  <2>1. ForceTrxOff
    BY <1>A DEF IsrTxDone
  <2>2. asked = "ack" /\ ~Behind
    BY <1>1, <1>A, <1>s, <1>q DEF StatusInv
  <2>3. due = <<>>
    <3>1. Full => ~Here.asked
      BY <2>2, <1>s, <1>o, <1>p, <1>q, <1>1 DEF RadioInv, AckInv, Newest
    <3> QED BY <3>1, <2>2, <1>q DEF DueInv
  <2>4. /\ radio' = "off" /\ ~waits' /\ ~wait4resp' /\ NoEvent'
        /\ ~Full' /\ ~Behind' /\ hsrbp' = icrbp'
    BY <1>1, <2>1, <2>2, ForceEffect
  <2>5. ~Pending' /\ ~Unread' /\ ~First'
    BY <1>1, <2>4 DEF Pending, Unread, First
  <2>b. BufferInv' /\ DueInv'
    BY <1>1, <2>3, <2>4, <2>5 DEF BufferInv, DueInv
  <2>r. RadioInv'
    BY <1>1, <1>o, <1>s, <2>2, <2>4, <2>5 DEF RadioInv, OverInv
  <2>t. StatusInv'
    BY <1>1, <1>p DEF StatusInv
  <2>e. StopInv'
    BY <1>1, <1>A, <1>s, <2>4 DEF StopInv, NoEvent, Stopping
  <2> QED BY <1>1, <2>b, <2>r, <2>t, <2>e DEF ModeInv
<1>B. CASE ~("AAT" \in status /\ wait4resp)
  <2>1. /\ sysStatus' = sysStatus \ {"TXFRS", "AAT"}
        /\ UNCHANGED <<radio, waits, rxfcg, hsrbp, wait4resp>>
    BY <1>B DEF IsrTxDone
  <2>2. /\ Here' = Here /\ There' = There /\ (Full' <=> Full) /\ (Behind' <=> Behind)
        /\ ~Txfrs' /\ ~Aat' /\ (Stopping' <=> Stopping)
    BY <1>1, <2>1, SameBuffers DEF Txfrs, Aat, Stopping
  <2>3. /\ ("RXTO" \in sysStatus' <=> "RXTO" \in sysStatus)
        /\ ("RXERR" \in sysStatus' <=> "RXERR" \in sysStatus)
    BY <2>1
  <2>p. (Pending' <=> Pending) /\ Newest' = Newest /\ (Unread' <=> Full) /\ (First' <=> Full)
    BY <1>1, <1>q, <2>2 DEF Pending, Newest, Unread, First
  <2>b. BufferInv' /\ DueInv'
    BY <1>1, <1>q, <2>1, <2>2, <2>p DEF BufferInv, DueInv, Double
  <2>k. asked \in {"rx", "resp"} => ~(Full /\ Here.ack) /\ ~(Behind /\ There.ack)
    BY <1>1, <1>p, <1>s DEF StatusInv
  <2>r. RadioInv'
    <3> USE <1>1, <1>o, <1>p, <1>q, <1>s, <2>1, <2>2, <2>p, <2>k
    <3>1. asked = "off" => OffInv'
      BY DEF RadioInv, OffInv
    <3>2. asked = "tx" => OverInv'
      BY DEF RadioInv, TxInv, OverInv, NoEvent
    <3>3. asked = "rx" => RxInv'
      BY DEF RadioInv, RxInv, Newest
    <3>4. asked = "ack" => OverInv'
      BY <1>B DEF RadioInv, AckInv, OverInv, NoEvent
    <3>5. asked = "resp" => RespInv'
      BY DEF RadioInv, RespInv, NoEvent
    <3> QED BY <1>w, <3>1, <3>2, <3>3, <3>4, <3>5 DEF RadioInv
  <2>t. StatusInv'
    BY <1>1, <1>p DEF StatusInv
  <2>e. StopInv'
    BY <1>1, <1>p, <1>s, <2>1, <2>3, <2>p DEF StopInv
  <2> QED BY <1>1, <2>b, <2>r, <2>t, <2>e DEF ModeInv
<1> QED BY <1>A, <1>B

\* cbTxDone.
LEMMA ConfirmedStep == ASSUME RInv, CbTxDone, TypeOK', mode # "lowpower" PROVE RInv'
<1> USE DEF RInv
<1>s. RadioInv /\ StatusInv /\ StopInv
  BY DEF ModeInv
<1>1. /\ pc = "txdone" /\ pc' = "to"
      /\ UNCHANGED <<mode, arxslp, sysStatus, wait4resp, status, cbStatus, icrbp, rxBuffer, rxfcg>>
      /\ UNCHANGED <<said, due>>
  BY DEF CbTxDone, application, histories
<1>o. (Over <=> asked \in {"tx", "ack"}) /\ ~Over'
  BY <1>1 DEF Over
<1>v. Over => OverInv
  BY <1>s DEF RadioInv
<1>q. (Pending <=> Full \/ Behind) /\ (Unread <=> Full) /\ (First <=> Full)
  BY <1>1 DEF Pending, Unread, First
<1>2. IF listens /\ Over
        THEN radio' = "rx" /\ waits' = FALSE /\ asked' = "rx"
        ELSE radio' = radio /\ waits' = waits /\ asked' = IF Over THEN "off" ELSE asked
  BY <1>o DEF CbTxDone, RxEnable
<1>3. hsrbp' = hsrbp
  <2>1. Over => hsrbp = icrbp
    BY <1>v, <1>q DEF OverInv, BufferInv
  <2> QED BY <2>1, <1>o DEF CbTxDone, RxEnable, SyncRxBufPtrs
<1>4. /\ Here' = Here /\ There' = There /\ (Full' <=> Full) /\ (Behind' <=> Behind)
      /\ (Txfrs' <=> Txfrs) /\ (Aat' <=> Aat) /\ (Stopping' <=> Stopping)
  BY <1>1, <1>3, SameBuffers, SameBits
<1>p. /\ ~Confirming' /\ ~Confirming /\ ~Handling /\ ~Handling' /\ (Aborting' <=> Aborting)
      /\ (Pending' <=> Pending) /\ Newest' = Newest /\ (Unread' <=> Full) /\ (First' <=> Full)
  BY <1>1, <1>q, <1>4 DEF Confirming, Handling, Aborting, Pending, Newest, Unread, First
<1>b. BufferInv' /\ DueInv'
  <2>1. Behind => asked = "resp" /\ ~Over
    BY <1>1, <1>o DEF BufferInv
  <2> QED BY <2>1, <1>1, <1>2, <1>3, <1>4, <1>q, <1>p DEF BufferInv, DueInv, Double
<1>r. RadioInv'
  <2>1. CASE Over
    BY <2>1, <1>1, <1>2, <1>4, <1>o, <1>p, <1>s, <1>v DEF OverInv, NoEvent, RadioInv, OffInv, RxInv
  <2>2. CASE ~Over
    <3> USE <2>2, <1>1, <1>2, <1>4, <1>o, <1>p, <1>s
    <3>1. asked = "off" => OffInv'
      BY DEF RadioInv, OffInv
    <3>2. asked = "rx" => RxInv'
      BY DEF RadioInv, RxInv
    <3>3. asked = "resp" => RespInv'
      BY DEF RadioInv, RespInv, NoEvent
    <3> QED BY <3>1, <3>2, <3>3 DEF RadioInv
  <2> QED BY <2>1, <2>2
<1>t. StatusInv'
  BY <1>1, <1>p DEF StatusInv
<1>e. StopInv'
  BY <1>1, <1>2, <1>o, <1>p, <1>s DEF StopInv
<1> QED BY <1>1, <1>b, <1>r, <1>t, <1>e DEF ModeInv


\* A timeout or an error aborts the reception.
LEMMA StoppedStep ==
  ASSUME RInv, TypeOK', mode # "lowpower",
         NEW bit, NEW from, NEW to, NEW otherwise, IsrStopped(bit, from, to, otherwise),
         \/ bit = "RXTO" /\ from = "to" /\ to = "stopped" /\ otherwise = "err"
         \/ bit = "RXERR" /\ from = "err" /\ to = "failed" /\ otherwise = "idle"
  PROVE  RInv'
<1> USE DEF RInv
<1>s. RadioInv /\ StatusInv /\ StopInv
  BY DEF ModeInv
<1>1. /\ pc = from
      /\ UNCHANGED <<mode, asked, arxslp, status, cbStatus, icrbp, rxBuffer, said>>
  BY DEF IsrStopped, application
<1>o. ~Over
  BY <1>1 DEF Over
<1>q. /\ (Pending <=> Full \/ Behind) /\ (Unread <=> Full) /\ (First <=> Full)
      /\ Behind => asked = "resp"
  BY <1>1 DEF Pending, Unread, First, BufferInv
<1>A. CASE bit \in status
  <2>1. pc' = to /\ ForceTrxOff /\ due' = <<>>
    BY <1>A DEF IsrStopped
  <2>2. Aborting
    BY <1>1, <1>A DEF Aborting
  <2>3. ~Behind
    <3>1. asked = "resp" => "AAT" \notin status
      BY <1>1, <1>s, <1>o DEF RadioInv, RespInv
    <3>2. "AAT" \notin status => ~Pending
      BY <1>s, <2>2 DEF StopInv
    <3> QED BY <3>1, <3>2, <1>q
  <2>4. /\ radio' = "off" /\ ~waits' /\ ~wait4resp' /\ NoEvent'
        /\ ~Full' /\ ~Behind' /\ hsrbp' = icrbp'
    BY <1>1, <2>1, <2>3, ForceEffect
  <2>5. ~Pending' /\ ~Unread' /\ ~First' /\ Over' /\ ~Confirming' /\ ~Handling' /\ ~Aborting'
    BY <2>1, <2>4 DEF Pending, Unread, First, Over, Confirming, Handling, Aborting
  <2>b. BufferInv' /\ DueInv'
    BY <2>1, <2>4, <2>5 DEF BufferInv, DueInv
  <2>r. RadioInv'
    BY <1>1, <1>s, <2>1, <2>4, <2>5 DEF RadioInv, OverInv
  <2>t. StatusInv'
    BY <2>1, <2>5 DEF StatusInv
  <2>e. StopInv'
    <3>1. "RXTO" \notin sysStatus'
      BY <2>4 DEF NoEvent, Stopping
    <3>2. pc' = "stopped" => "RXTO" \in status'
      BY <1>1, <1>A, <2>1
    <3> QED BY <3>1, <3>2, <1>1, <1>s, <2>5 DEF StopInv
  <2> QED BY <1>1, <2>b, <2>r, <2>t, <2>e DEF ModeInv
<1>B. CASE bit \notin status
  <2>1. /\ pc' = otherwise /\ UNCHANGED <<radio, waits, sysStatus, rxfcg, hsrbp, wait4resp, due>>
    BY <1>B DEF IsrStopped
  <2>2. /\ Here' = Here /\ There' = There /\ (Full' <=> Full) /\ (Behind' <=> Behind)
        /\ (Txfrs' <=> Txfrs) /\ (Aat' <=> Aat) /\ (Stopping' <=> Stopping)
    BY <1>1, <2>1, SameBuffers, SameBits
  <2>p. /\ ~Confirming' /\ ~Confirming /\ ~Handling' /\ (Aborting' => Aborting)
        /\ (Pending' <=> Pending) /\ Newest' = Newest /\ (Unread' <=> Full) /\ (First' <=> Full)
        /\ ~Over'
    BY <1>1, <1>B, <1>q, <2>1, <2>2
       DEF Confirming, Handling, Aborting, Pending, Newest, Unread, First, Over
  <2>b. BufferInv' /\ DueInv'
    BY <1>1, <1>q, <2>1, <2>2, <2>p DEF BufferInv, DueInv, Double
  <2>r. RadioInv'
    <3> USE <1>1, <1>o, <1>s, <2>1, <2>2, <2>p
    <3>1. asked = "off" => OffInv'
      BY DEF RadioInv, OffInv
    <3>2. asked # "tx"
      BY DEF RadioInv, TxInv
    <3>3. asked = "rx" => RxInv'
      BY DEF RadioInv, RxInv
    <3>4. asked = "ack" => AckInv'
      BY DEF RadioInv, AckInv
    <3>5. asked = "resp" => RespInv'
      BY DEF RadioInv, RespInv, NoEvent
    <3> QED BY <3>1, <3>2, <3>3, <3>4, <3>5 DEF RadioInv
  <2>t. StatusInv'
    BY <1>1, <2>1, <2>p DEF StatusInv
  <2>e. StopInv'
    BY <1>1, <1>s, <2>1, <2>p DEF StopInv
  <2> QED BY <1>1, <2>b, <2>r, <2>t, <2>e DEF ModeInv
<1> QED BY <1>A, <1>B

\* cbRxTo and cbRxErr.
LEMMA RestartStep == ASSUME RInv, CbStopped, TypeOK', mode # "lowpower" PROVE RInv'
<1> USE DEF RInv
<1>s. RadioInv /\ StatusInv /\ StopInv
  BY DEF ModeInv
<1>1. /\ pc \in {"stopped", "failed"} /\ pc' = IF pc = "stopped" THEN "err" ELSE "idle"
      /\ UNCHANGED <<mode, arxslp, sysStatus, wait4resp, status, cbStatus, icrbp, rxBuffer, rxfcg>>
      /\ UNCHANGED <<said, due>>
  BY DEF CbStopped, application, histories
<1>v. OverInv /\ ~waits /\ ~wait4resp
  BY <1>1, <1>s DEF RadioInv, Over, OverInv
<1>2. IF listens THEN radio' = "rx" /\ waits' = FALSE /\ asked' = "rx"
                 ELSE radio' = "off" /\ waits' = waits /\ asked' = "off"
  BY <1>v DEF CbStopped, RxEnable, OverInv
<1>q. ~Full /\ ~Behind /\ ~Unread /\ ~First /\ ~Pending
  BY <1>1, <1>v DEF Pending, Unread, First, OverInv
<1>3. hsrbp' = hsrbp
  <2>1. hsrbp = icrbp
    BY <1>q DEF BufferInv
  <2> QED BY <2>1 DEF CbStopped, RxEnable, SyncRxBufPtrs
<1>4. /\ Here' = Here /\ There' = There /\ (Full' <=> Full) /\ (Behind' <=> Behind)
      /\ (Txfrs' <=> Txfrs) /\ (Aat' <=> Aat) /\ (Stopping' <=> Stopping)
  BY <1>1, <1>3, SameBuffers, SameBits
<1>p. ~Over' /\ ~Confirming' /\ ~Handling' /\ ~Pending' /\ ~Unread' /\ ~First'
  BY <1>1, <1>q, <1>4 DEF Over, Confirming, Handling, Pending, Unread, First
<1>b. BufferInv' /\ DueInv'
  BY <1>1, <1>3, <1>4, <1>q, <1>p DEF BufferInv, DueInv, Double
<1>r. RadioInv'
  BY <1>1, <1>2, <1>4, <1>p, <1>s, <1>v DEF OverInv, NoEvent, RadioInv, OffInv, RxInv
<1>t. StatusInv'
  BY <1>1, <1>p DEF StatusInv
<1>e. StopInv'
  <2>1. ~Aborting'
    BY <1>1, <1>s DEF StopInv, Aborting
  <2> QED BY <2>1, <1>1, <1>s DEF StopInv
<1> QED BY <1>1, <1>b, <1>r, <1>t, <1>e DEF ModeInv

\* Between interrupts, for an application that has asked for nothing, the pointers meet.
LEMMA Idle ==
  ASSUME RInv, Quiet, asked = "off", mode # "lowpower"
  PROVE  /\ pc = "idle" /\ ~Over /\ radio = "off" /\ NoEvent /\ ~Full /\ ~Behind
         /\ ~Unread /\ ~First /\ ~Pending /\ hsrbp = icrbp
<1>1. pc = "idle" /\ RadioInv /\ BufferInv
  BY DEF RInv, ModeInv, Quiet
<1>2. ~Over /\ ~Confirming
  BY <1>1 DEF Over, Confirming
<1>3. OffInv
  BY <1>1, <1>2 DEF RadioInv
<1>4. ~Full /\ ~Behind /\ ~Unread /\ ~First /\ ~Pending
  BY <1>1, <1>3 DEF OffInv, Pending, Unread, First
<1>5. hsrbp = icrbp
  BY <1>1, <1>4 DEF BufferInv
<1> QED BY <1>1, <1>2, <1>3, <1>4, <1>5 DEF OffInv, NoEvent

LEMMA ListenStep == ASSUME RInv, Listen, TypeOK' PROVE RInv'
<1> USE DEF RInv
<1>1. /\ Quiet /\ asked = "off" /\ mode # "lowpower" /\ RxEnable(TRUE)
      /\ UNCHANGED <<mode, arxslp, sysStatus, pc, wait4resp, status, cbStatus>>
      /\ UNCHANGED <<icrbp, rxBuffer, rxfcg, said, due>>
  BY DEF Listen, application, driver, histories
<1>i. /\ pc = "idle" /\ ~Over /\ radio = "off" /\ NoEvent /\ ~Full /\ ~Behind
      /\ ~Unread /\ ~First /\ ~Pending /\ hsrbp = icrbp
  BY <1>1, Idle
<1>2. hsrbp' = hsrbp /\ radio' = "rx" /\ waits' = FALSE /\ asked' = "rx"
  BY <1>1, <1>i DEF RxEnable, SyncRxBufPtrs
<1>s. RadioInv /\ StatusInv /\ StopInv
  BY <1>1 DEF ModeInv
<1>4. /\ Here' = Here /\ There' = There /\ (Full' <=> Full) /\ (Behind' <=> Behind)
      /\ (Txfrs' <=> Txfrs) /\ (Aat' <=> Aat) /\ (Stopping' <=> Stopping)
  BY <1>1, <1>2, SameBuffers, SameBits
<1>p. /\ ~Over' /\ ~Confirming' /\ ~Handling' /\ ~Pending' /\ ~Unread' /\ ~First' /\ ~Aborting'
  BY <1>1, <1>i, <1>4 DEF Over, Confirming, Handling, Pending, Unread, First, Aborting
<1>b. BufferInv' /\ DueInv'
  BY <1>1, <1>2, <1>i, <1>4, <1>p DEF BufferInv, DueInv, Double
<1>r. RadioInv'
  BY <1>1, <1>2, <1>i, <1>4, <1>p, <1>s DEF NoEvent, RadioInv, RxInv
<1>t. StatusInv'
  BY <1>1, <1>i, <1>p DEF StatusInv
<1>e. StopInv'
  BY <1>1, <1>i, <1>p, <1>s DEF StopInv
<1> QED BY <1>1, <1>b, <1>r, <1>t, <1>e DEF ModeInv

LEMMA StartTxStep == ASSUME RInv, StartTx, TypeOK' PROVE RInv'
<1> USE DEF RInv
<1>1. /\ Quiet /\ asked = "off" /\ mode # "lowpower" /\ radio' = "tx"
      /\ UNCHANGED <<mode, arxslp, sysStatus, pc, status, cbStatus>>
      /\ UNCHANGED <<icrbp, hsrbp, rxBuffer, rxfcg, said, due>>
  BY DEF StartTx, histories
<1>2. \/ asked' = "resp" /\ wait4resp' /\ waits'
      \/ asked' = "tx" /\ (wait4resp' <=> wait4resp) /\ ~waits'
  BY DEF StartTx, TypeOK
<1>i. /\ pc = "idle" /\ ~Over /\ radio = "off" /\ NoEvent /\ ~Full /\ ~Behind
      /\ ~Unread /\ ~First /\ ~Pending /\ hsrbp = icrbp
  BY <1>1, Idle
<1>s. RadioInv /\ StatusInv /\ StopInv
  BY <1>1 DEF ModeInv
<1>4. /\ Here' = Here /\ There' = There /\ (Full' <=> Full) /\ (Behind' <=> Behind)
      /\ (Txfrs' <=> Txfrs) /\ (Aat' <=> Aat) /\ (Stopping' <=> Stopping)
  BY <1>1, SameBuffers, SameBits
<1>p. /\ ~Over' /\ ~Confirming' /\ ~Handling' /\ ~Pending' /\ ~Unread' /\ ~First' /\ ~Aborting'
  BY <1>1, <1>i, <1>4 DEF Over, Confirming, Handling, Pending, Unread, First, Aborting
<1>b. BufferInv' /\ DueInv'
  BY <1>1, <1>i, <1>4, <1>p DEF BufferInv, DueInv, Double
<1>r. RadioInv'
  BY <1>1, <1>2, <1>i, <1>4, <1>p, <1>s DEF NoEvent, RadioInv, TxInv, RespInv
<1>t. StatusInv'
  BY <1>1, <1>i, <1>p DEF StatusInv
<1>e. StopInv'
  BY <1>1, <1>i, <1>p, <1>s DEF StopInv
<1> QED BY <1>1, <1>b, <1>r, <1>t, <1>e DEF ModeInv

\* Between interrupts no frame is in the buffer the host is at.
LEMMA QuietEmpty == ASSUME Quiet PROVE pc = "idle" /\ ~Full
BY DEF Quiet, Irq, Mask, SysStatus, Full, Bits

LEMMA StopListeningStep == ASSUME RInv, StopListening, TypeOK' PROVE RInv'
<1> USE DEF RInv
<1>1. /\ Quiet /\ asked = "rx" /\ mode # "lowpower" /\ asked' = "off" /\ ForceTrxOff
      /\ UNCHANGED <<mode, arxslp, pc, status, cbStatus, icrbp, rxBuffer, said, due>>
  BY DEF StopListening, application, histories
<1>i. pc = "idle" /\ ~Full /\ ~Behind
  BY <1>1, QuietEmpty DEF BufferInv
<1>d. due = <<>>
  BY <1>i DEF DueInv, Unread
<1>s. RadioInv /\ StatusInv /\ StopInv
  BY <1>1 DEF ModeInv
<1>4. /\ radio' = "off" /\ ~waits' /\ ~wait4resp' /\ NoEvent'
      /\ ~Full' /\ ~Behind' /\ hsrbp' = icrbp'
  BY <1>1, <1>i, ForceEffect
<1>p. /\ ~Over' /\ ~Confirming' /\ ~Handling' /\ ~Pending' /\ ~Unread' /\ ~First' /\ ~Aborting'
  BY <1>1, <1>i, <1>4 DEF Over, Confirming, Handling, Pending, Unread, First, Aborting
<1>b. BufferInv' /\ DueInv'
  BY <1>1, <1>d, <1>i, <1>4, <1>p DEF BufferInv, DueInv
<1>r. RadioInv'
  BY <1>1, <1>i, <1>4, <1>p, <1>s DEF NoEvent, RadioInv, OffInv
<1>t. StatusInv'
  BY <1>1, <1>i, <1>p DEF StatusInv
<1>e. StopInv'
  BY <1>1, <1>i, <1>4, <1>p, <1>s DEF StopInv, NoEvent, Stopping
<1> QED BY <1>1, <1>b, <1>r, <1>t, <1>e DEF ModeInv


-----------------------------------------------------------------------------
(***************************************************************************)
(* Low-power listening: one buffer, and dwt_isr never past the callback.   *)
(***************************************************************************)
\* A step that leaves the buffers alone, and what the host knows of them.
LEMMA SameFrames ==
  ASSUME BufferInv, DueInv, ~Double, mode' = mode, pc \notin {"fetch", "ok"},
         pc' \notin {"fetch", "ok", "read"},
         UNCHANGED <<icrbp, hsrbp, rxBuffer, rxfcg, due>>
  PROVE  BufferInv' /\ DueInv' /\ Here' = Here /\ (Pending' <=> Pending) /\ (Full' <=> Full)
<1>1. Here' = Here /\ There' = There /\ (Full' <=> Full) /\ (Behind' <=> Behind)
  BY SameBuffers
<1>2. hsrbp = icrbp /\ ~Behind /\ pc # "read" /\ ~Double'
  BY DEF BufferInv, Double
<1>3. (Unread <=> Full) /\ (Unread' <=> Full) /\ (First <=> Full) /\ (First' <=> Full)
  BY <1>1, <1>2 DEF Unread, First
<1> QED BY <1>1, <1>2, <1>3 DEF BufferInv, DueInv, Pending

LEMMA LowPowerChip ==
  ASSUME RInv, mode = "lowpower", TypeOK', Chip
  PROVE  RInv'
<1> USE DEF RInv
<1>s. LowPowerInv /\ ~Double
  BY DEF ModeInv, Double
<1>n. hsrbp = icrbp /\ ~Behind
  BY <1>s DEF BufferInv
<1>1. CASE GoodFrame
  <2>1. asked = "rx" /\ radio = "rx" /\ arxslp /\ pc = "idle" /\ ~Pending
    BY <1>1, <1>s DEF GoodFrame, LowPowerInv
  <2>2. PICK f \in [n : {frames + 1}, ack : {FALSE}, asked : {TRUE}] :
          /\ rxBuffer' = [rxBuffer EXCEPT ![icrbp] = f]
          /\ due' = Append(due, f)
    <3> DEFINE g == [n |-> frames + 1, ack |-> FALSE, asked |-> TRUE]
    <3>1. ~AutoAck
      BY DEF AutoAck
    <3>2. rxBuffer' = [rxBuffer EXCEPT ![icrbp] = g] /\ due' = Append(due, g)
      BY <1>1, <2>1, <3>1 DEF GoodFrame
    <3>3. g \in [n : {frames + 1}, ack : {FALSE}, asked : {TRUE}]
      OBVIOUS
    <3> QED BY <3>2, <3>3
  <2>3. f.n # 0 /\ f.ack = FALSE /\ f.asked = TRUE
    <3>1. frames + 1 # 0
      BY BoundsAssumption DEF TypeOK
    <3>2. f.n = frames + 1 /\ f.ack = FALSE /\ f.asked = TRUE
      OBVIOUS
    <3> QED BY <3>1, <3>2
  <2>4. /\ rxfcg' = [rxfcg EXCEPT ![icrbp] = TRUE]
        /\ UNCHANGED <<application, asked, hsrbp, waits, arxslp, driver>>
        /\ icrbp' = icrbp
    BY <1>1, <1>s DEF GoodFrame
  <2>5. radio' = "off" /\ sysStatus' = sysStatus
    BY <1>1 DEF GoodFrame, AutoAck
  <2>u. UNCHANGED <<mode, listens, pc, wait4resp, status, cbStatus>>
    BY ONLY <2>4 DEF application, driver
  <2>6. Here' = f /\ Full' /\ ~Behind'
    BY <1>n, <2>2, <2>4 DEF TypeOK, Here, Full, Behind
  <2>7. ~Unread /\ Unread' /\ First' /\ Pending' /\ ~Double'
    BY <1>s, <2>1, <2>6, <2>u DEF Unread, First, Pending, Double
  <2>8. due = <<>> /\ Append(<<>>, f) = <<f>>
    BY <1>n, <2>7, OneAndTwo DEF DueInv
  <2>9. BufferInv' /\ DueInv'
    BY <1>n, <2>1, <2>2, <2>3, <2>4, <2>6, <2>7, <2>8, <2>u DEF BufferInv, DueInv
  <2>10. LowPowerInv'
    <3>1. ~Txfrs' /\ ~Aat'
      BY <1>s, <2>5 DEF LowPowerInv, Txfrs, Aat
    <3> QED BY <1>s, <2>1, <2>3, <2>4, <2>5, <2>6, <2>7, <2>u, <3>1 DEF LowPowerInv
  <2> QED BY <2>9, <2>10, <2>u DEF ModeInv
<1>2. CASE NoGoodFrame \/ Wakes
  <2>1. /\ asked = "rx" /\ radio \in {"rx", "asleep"} /\ arxslp /\ pc = "idle" /\ ~Pending
    BY <1>2, <1>s DEF NoGoodFrame, Wakes, LowPowerInv
  <2>2. /\ radio' \in {"rx", "asleep"} /\ "TXFRS" \notin sysStatus' /\ "AAT" \notin sysStatus'
    BY <1>2, <1>s, <2>1 DEF NoGoodFrame, Wakes, LowPowerInv, Txfrs, Aat
  <2>3. UNCHANGED <<application, asked, icrbp, hsrbp, rxBuffer, rxfcg, waits, arxslp, driver, histories>>
    BY <1>2 DEF NoGoodFrame, Wakes
  <2>u. UNCHANGED <<mode, listens, pc, wait4resp, status, cbStatus, due>>
    BY ONLY <2>3 DEF application, driver, histories
  <2>4. BufferInv' /\ DueInv' /\ ~Pending'
    BY <1>s, <2>1, <2>3, <2>u, SameFrames
  <2>5. LowPowerInv'
    BY <1>s, <2>1, <2>2, <2>3, <2>4, <2>u DEF LowPowerInv, Txfrs, Aat
  <2> QED BY <2>4, <2>5, <2>u DEF ModeInv
<1>3. ~Sent
  BY <1>s DEF Sent, LowPowerInv
<1> QED BY <1>1, <1>2, <1>3 DEF Chip

LEMMA LowPowerHost ==
  ASSUME RInv, mode = "lowpower", TypeOK', Application \/ Isr
  PROVE  RInv'
<1> USE DEF RInv
<1>s. LowPowerInv /\ ~Double
  BY DEF ModeInv, Double
<1>n. hsrbp = icrbp /\ ~Behind /\ pc # "read"
  BY <1>s DEF BufferInv
<1>f. pc # "idle" => asked = "rx" /\ radio = "off" /\ Pending /\ Here.asked /\ ~Here.ack
  BY <1>s DEF LowPowerInv
<1>1. CASE LowPowerListen
  <2>1. /\ asked = "off" /\ asked' = "rx" /\ radio' = "rx" /\ arxslp' /\ ~waits' /\ pc = "idle"
        /\ UNCHANGED <<application, icrbp, rxBuffer, rxfcg, sysStatus, driver, histories>>
    BY <1>1 DEF LowPowerListen, RxEnable, Quiet
  <2>2. hsrbp' = hsrbp
    BY <1>1, <1>n DEF LowPowerListen, RxEnable, SyncRxBufPtrs
  <2>u. UNCHANGED <<mode, listens, pc, wait4resp, status, cbStatus, due>>
    BY ONLY <2>1 DEF application, driver, histories
  <2>3. ~Pending
    BY <1>s, <2>1 DEF LowPowerInv
  <2>4. BufferInv' /\ DueInv' /\ ~Pending'
    BY <1>s, <2>1, <2>2, <2>3, <2>u, SameFrames
  <2>5. LowPowerInv'
    BY <1>s, <2>1, <2>4, <2>u DEF LowPowerInv, Txfrs, Aat
  <2> QED BY <2>4, <2>5, <2>u DEF ModeInv
<1>2. CASE LpIsrStart
  <2>1. /\ pc = "idle" /\ pc' = "deactivate" /\ status' = SysStatus /\ cbStatus' = SysStatus /\ Irq
        /\ UNCHANGED <<application, asked, chip, wait4resp, histories>>
    BY <1>2 DEF LpIsrStart, ReadStatus
  <2>u. /\ UNCHANGED <<mode, listens, radio, waits, arxslp, sysStatus, due>>
        /\ UNCHANGED <<icrbp, hsrbp, rxBuffer, rxfcg>>
    BY ONLY <2>1 DEF application, chip, histories
  <2>2. Full
    <3>1. "RXFCG" \in SysStatus
      BY <2>1 DEF Irq, Mask
    <3>2. "RXFCG" \notin sysStatus
      BY DEF TypeOK
    <3> QED BY <3>1, <3>2 DEF SysStatus, Full
  <2>3. /\ "RXFCG" \in status' /\ "AAT" \notin status' /\ "AAT" \notin cbStatus'
    BY <1>s, <2>1, <2>2 DEF SysStatus, Full, LowPowerInv, Aat
  <2>4. BufferInv' /\ DueInv' /\ Here' = Here /\ (Pending' <=> Pending) /\ (Full' <=> Full)
    BY <1>s, <2>1, <2>u, SameFrames
  <2>5. asked = "rx" /\ radio = "off" /\ Pending /\ Here.asked /\ ~Here.ack
    BY <1>s, <2>2 DEF LowPowerInv, Pending
  <2>6. LowPowerInv'
    BY <1>s, <2>1, <2>2, <2>3, <2>4, <2>5, <2>u DEF LowPowerInv, Txfrs, Aat
  <2> QED BY <2>4, <2>6, <2>u DEF ModeInv
<1>3. CASE LpDeactivate
  <2>1. /\ pc = "deactivate" /\ pc' = "clear" /\ arxslp' = FALSE
        /\ UNCHANGED <<application, asked, radio, icrbp, hsrbp, rxBuffer, rxfcg, sysStatus, waits>>
        /\ UNCHANGED <<wait4resp, status, cbStatus, histories>>
    BY <1>3 DEF LpDeactivate
  <2>u. UNCHANGED <<mode, listens, due>>
    BY ONLY <2>1 DEF application, histories
  <2>4. BufferInv' /\ DueInv' /\ Here' = Here /\ (Pending' <=> Pending) /\ (Full' <=> Full)
    BY <1>s, <2>1, <2>u, SameFrames
  <2>6. LowPowerInv'
    BY <1>s, <1>f, <2>1, <2>4, <2>u DEF LowPowerInv, Txfrs, Aat
  <2> QED BY <2>4, <2>6, <2>u DEF ModeInv
<1>4. CASE IsrRxClear
  <2>1. /\ pc = "clear" /\ pc' = "fetch" /\ rxfcg' = [rxfcg EXCEPT ![hsrbp] = FALSE]
        /\ UNCHANGED <<application, asked, icrbp, hsrbp, rxBuffer, sysStatus, waits, arxslp>>
        /\ UNCHANGED <<wait4resp, status, cbStatus, histories>>
    BY <1>4 DEF IsrRxClear
  <2>2. radio' = "off" /\ ~arxslp /\ Full
    BY <1>4, <1>s, <1>f, <2>1 DEF IsrRxClear, LowPowerInv
  <2>u. UNCHANGED <<mode, listens, due, said>>
    BY ONLY <2>1 DEF application, histories
  <2>3. Here' = Here /\ There' = There /\ ~Full' /\ ~Behind'
    BY <1>n, <2>1 DEF Here, There, Full, Behind, TypeOK
  <2>4. Unread /\ Unread' /\ First' /\ Pending' /\ ~Double'
    BY <1>s, <2>1, <2>2, <2>u DEF Unread, First, Pending, Double
  <2>5. BufferInv' /\ DueInv'
    BY <1>n, <2>1, <2>3, <2>4, <2>u DEF BufferInv, DueInv
  <2>6. LowPowerInv'
    BY <1>s, <1>f, <2>1, <2>2, <2>3, <2>4, <2>u DEF LowPowerInv, Txfrs, Aat
  <2> QED BY <2>5, <2>6, <2>u DEF ModeInv
<1>5. CASE IsrRxFetch
  <2>1. "AAT" \notin status
    BY <1>5, <1>s DEF IsrRxFetch, LowPowerInv
  <2>2. /\ pc = "fetch" /\ pc' = "ok" /\ said' = HostBuffer /\ cbStatus' = cbStatus
        /\ UNCHANGED <<sysStatus, wait4resp, application, asked, radio, icrbp, hsrbp, rxBuffer>>
        /\ UNCHANGED <<rxfcg, waits, arxslp, status, due>>
    BY <1>5, <2>1 DEF IsrRxFetch, WithoutAat
  <2>3. said' = Here
    BY <1>f, <2>2 DEF HostBuffer, Here
  <2>u. UNCHANGED <<mode, listens>>
    BY ONLY <2>2 DEF application
  <2>4. Here' = Here /\ There' = There /\ (Full' <=> Full) /\ (Behind' <=> Behind)
    BY <2>2, SameBuffers
  <2>5. Unread /\ Unread' /\ First' /\ Pending' /\ ~Double' /\ ~Full
    BY <1>s, <2>2, <2>u DEF Unread, First, Pending, Double, BufferInv
  <2>6. BufferInv' /\ DueInv'
    BY <1>n, <2>2, <2>3, <2>4, <2>5 DEF BufferInv, DueInv
  <2>7. LowPowerInv'
    BY <1>s, <1>f, <2>2, <2>4, <2>5, <2>u DEF LowPowerInv, Txfrs, Aat
  <2> QED BY <2>6, <2>7, <2>u DEF ModeInv
<1>6. CASE CbRead
  <2>1. /\ pc = "ok" /\ pc' = "idle"
        /\ UNCHANGED <<application, icrbp, rxBuffer, rxfcg, sysStatus, arxslp, wait4resp>>
        /\ UNCHANGED <<status, cbStatus>>
        /\ Continue(TRUE)
    BY <1>6, <1>s DEF CbRead
  <2>2. asked' = "off" /\ UNCHANGED <<radio, waits, hsrbp>>
    BY <1>s, <2>1 DEF Continue, LowPowerInv
  <2>3. due' = IF due # <<>> /\ Head(due) = Here THEN Tail(due) ELSE due
    BY <1>6, <1>f, <2>1 DEF CbRead, HostBuffer, Here
  <2>4. Unread /\ Here.asked /\ ~Behind /\ ~Full
    BY <1>n, <1>f, <2>1 DEF Unread, BufferInv
  <2>5. due' = <<>>
    <3>1. due = <<Here>>
      BY <2>4 DEF DueInv
    <3> QED BY <2>3, <3>1, HostTypes, OneAndTwo
  <2>u. UNCHANGED <<mode, listens>>
    BY ONLY <2>1 DEF application
  <2>6. Here' = Here /\ There' = There /\ ~Full' /\ ~Behind'
    BY <2>1, <2>2, <2>4, SameBuffers
  <2>7. ~Unread' /\ ~First' /\ ~Pending' /\ ~Double'
    BY <1>s, <2>1, <2>6, <2>u DEF Unread, First, Pending, Double
  <2>8. BufferInv' /\ DueInv'
    BY <1>n, <2>1, <2>2, <2>5, <2>6, <2>7 DEF BufferInv, DueInv
  <2>9. LowPowerInv'
    BY <1>s, <1>f, <2>1, <2>2, <2>6, <2>7, <2>u DEF LowPowerInv, Txfrs, Aat
  <2> QED BY <2>8, <2>9, <2>u DEF ModeInv
<1>7. ~(Listen \/ StartTx \/ StopListening \/ IsrStart \/ CbRxOk)
  BY <1>s DEF Listen, StartTx, StopListening, IsrStart, CbRxOk
<1>8. ~(IsrNoFrame \/ IsrToggle \/ IsrTxDone \/ IsrNotSent \/ CbTxDone)
  BY <1>s DEF LowPowerInv, IsrNoFrame, IsrToggle, IsrTxDone, IsrNotSent, CbTxDone
<1>9. ~(IsrRxTimeout \/ IsrRxError \/ CbStopped)
  BY <1>s DEF LowPowerInv, IsrRxTimeout, IsrRxError, IsrStopped, CbStopped
<1> QED BY <1>1, <1>2, <1>3, <1>4, <1>5, <1>6, <1>7, <1>8, <1>9 DEF Application, Isr


-----------------------------------------------------------------------------
(***************************************************************************)
(* The theorems.                                                           *)
(***************************************************************************)
LEMMA TypeInit == Init => TypeOK
<1> SUFFICES ASSUME Init PROVE TypeOK
  OBVIOUS
<1>1. NoFrame \in Frames
  BY BoundsAssumption DEF NoFrame, Frames
<1>2. frames \in 0 .. MaxFrames /\ sends \in 0 .. MaxSends
  BY BoundsAssumption DEF Init
<1> QED BY <1>1, <1>2 DEF Init, TypeOK

LEMMA InvInit == Init => RInv
<1> SUFFICES ASSUME Init PROVE RInv
  OBVIOUS
<1>1. TypeOK
  BY TypeInit
<1>2. ~Full /\ ~Behind /\ Here.n = 0 /\ There.n = 0 /\ pc = "idle" /\ hsrbp = icrbp
  BY DEF Init, Full, Behind, Here, There, NoFrame
<1>3. /\ ~Unread /\ ~First /\ ~Pending /\ ~Handling /\ ~Confirming /\ ~Over /\ ~Aborting
      /\ ~Txfrs /\ ~Aat /\ ~Stopping
  BY <1>2 DEF Init, Unread, First, Pending, Handling, Confirming, Over, Aborting, Txfrs, Aat, Stopping
<1>4. BufferInv /\ DueInv
  BY <1>2, <1>3 DEF Init, BufferInv, DueInv
<1>5. mode # "lowpower" => RadioInv /\ StatusInv /\ StopInv
  BY <1>2, <1>3 DEF Init, RadioInv, OffInv, StatusInv, StopInv
<1>6. mode = "lowpower" => LowPowerInv
  BY <1>2, <1>3 DEF Init, LowPowerInv
<1> QED BY <1>1, <1>4, <1>5, <1>6 DEF RInv, ModeInv

LEMMA InvStep == RInv /\ [Next]_vars => RInv'
<1> SUFFICES ASSUME RInv, [Next]_vars PROVE RInv'
  OBVIOUS
<1>0. TypeOK'
  BY TypeStep DEF RInv
<1>1. CASE UNCHANGED vars
  <2>1. /\ UNCHANGED <<mode, listens, asked, sends, radio, icrbp, hsrbp, rxBuffer, rxfcg, sysStatus>>
        /\ UNCHANGED <<waits, hurt, frames, arxslp, wait4resp, pc, status, cbStatus, said, read, due>>
    BY <1>1 DEF vars, application, chip, driver, histories
  <2>2. /\ Here' = Here /\ There' = There /\ (Full' <=> Full) /\ (Behind' <=> Behind)
        /\ (Txfrs' <=> Txfrs) /\ (Aat' <=> Aat) /\ (Stopping' <=> Stopping)
    BY <2>1, SameBuffers, SameBits
  <2>3. /\ (Unread' <=> Unread) /\ (First' <=> First) /\ (Pending' <=> Pending) /\ Newest' = Newest
        /\ (Handling' <=> Handling) /\ (Confirming' <=> Confirming) /\ (Over' <=> Over)
        /\ (Aborting' <=> Aborting) /\ (NoEvent' <=> NoEvent) /\ (Double' <=> Double)
    BY <2>1, <2>2 DEF Unread, First, Pending, Newest, Handling, Confirming, Over, Aborting, NoEvent,
       Double
  <2>4. BufferInv' /\ DueInv'
    BY <2>1, <2>2, <2>3 DEF RInv, BufferInv, DueInv
  <2>5. LowPowerInv => LowPowerInv'
    BY <2>1, <2>2, <2>3 DEF LowPowerInv
  <2>6. StatusInv /\ StopInv => StatusInv' /\ StopInv'
    BY <2>1, <2>2, <2>3 DEF StatusInv, StopInv
  <2>7. RadioInv => RadioInv'
    <3>1. (OffInv => OffInv') /\ (TxInv => TxInv') /\ (RxInv => RxInv') /\ (OverInv => OverInv')
      BY <2>1, <2>2, <2>3 DEF OffInv, TxInv, RxInv, OverInv
    <3>2. (AckInv => AckInv') /\ (RespInv => RespInv')
      BY <2>1, <2>2, <2>3 DEF AckInv, RespInv
    <3> QED BY <2>1, <2>3, <3>1, <3>2 DEF RadioInv
  <2> QED BY <1>0, <2>1, <2>4, <2>5, <2>6, <2>7 DEF RInv, ModeInv
<1>2. CASE Next /\ mode = "lowpower"
  BY <1>0, <1>2, LowPowerChip, LowPowerHost DEF Next
<1>3. CASE Next /\ mode # "lowpower"
  <2>1. CASE Chip
    <3>1. ~Wakes
      BY <1>3 DEF RInv, ModeInv, RadioInv, Wakes
    <3> QED BY <1>0, <1>3, <2>1, <3>1, GoodFrameStep, NoGoodFrameStep, SentStep DEF Chip
  <2>2. CASE Application
    <3>1. ~LowPowerListen
      BY <1>3 DEF LowPowerListen
    <3> QED BY <1>0, <2>2, <3>1, ListenStep, StartTxStep, StopListeningStep DEF Application
  <2>3. CASE Isr
    <3>1. ~LpIsrStart /\ ~LpDeactivate
      BY <1>3 DEF RInv, ModeInv, RadioInv, LpIsrStart, LpDeactivate
    <3>2. CASE IsrStart \/ IsrRxClear \/ IsrNoFrame \/ IsrRxFetch
      BY <1>0, <1>3, <3>2, StartStep, RxClearStep, NoFrameStep, RxFetchStep
    <3>3. CASE CbRxOk \/ CbRead \/ IsrToggle
      BY <1>0, <1>3, <3>3, RxOkStep, ReadStep, ToggleStep
    <3>4. CASE IsrTxDone \/ IsrNotSent \/ CbTxDone
      BY <1>0, <1>3, <3>4, TxDoneStep, NotSentStep, ConfirmedStep
    <3>5. CASE IsrRxTimeout \/ IsrRxError
      BY <1>0, <1>3, <3>5, StoppedStep DEF IsrRxTimeout, IsrRxError
    <3>6. CASE CbStopped
      BY <1>0, <1>3, <3>6, RestartStep
    <3> QED BY <2>3, <3>1, <3>2, <3>3, <3>4, <3>5, <3>6 DEF Isr
  <2> QED BY <1>3, <2>1, <2>2, <2>3 DEF Next
<1> QED BY <1>1, <1>2, <1>3

\* The buffer pointers, the radio and the status word agree in every reachable state.
THEOREM Invariant == Spec => []RInv
BY InvInit, InvStep, PTL DEF Spec

\* Every variable stays within its type: no queue of frames, pointer or status bit
\* is ever anything else, in any of the three modes.
THEOREM TypeCorrect == Spec => []TypeOK
<1>1. RInv => TypeOK
  BY DEF RInv
<1> QED BY <1>1, Invariant, PTL

\* With the interrupt low and dwt_isr at rest no frame waits in a buffer: a frame in the
\* other buffer would need one here that has not been dealt with.
THEOREM NoneForgotten == Spec => []NothingForgotten
<1>1. RInv => NothingForgotten
  <2> SUFFICES ASSUME RInv, Quiet PROVE due = <<>>
    BY DEF NothingForgotten
  <2>1. pc = "idle"
    BY DEF Quiet
  <2>2. ~Full
    BY DEF Quiet, Irq, Mask, SysStatus, Full, Bits
  <2>3. ~Unread /\ ~First
    BY <2>1, <2>2 DEF Unread, First
  <2> QED BY <2>3 DEF RInv, BufferInv, DueInv
<1> QED BY <1>1, Invariant, PTL

\* ... and the radio does what the application waits for.
THEOREM RadioKeepsToTheRequest == Spec => []RadioAsAsked
<1>1. RInv => RadioAsAsked
  <2> SUFFICES ASSUME RInv, Quiet PROVE RadioAsAsked
    BY DEF RadioAsAsked
  <2>1. pc = "idle" /\ ~Over /\ ~Confirming
    BY DEF Quiet, Over, Confirming
  <2>2. ~Full /\ ~Behind /\ ~Pending
    <3>1. ~Full
      BY DEF Quiet, Irq, Mask, SysStatus, Full, Bits
    <3> QED BY <2>1, <3>1 DEF RInv, BufferInv, Unread, First, Pending
  <2>3. CASE mode = "lowpower"
    <3>1. (asked = "off" => radio = "off") /\ (asked = "rx" => radio \in {"rx", "asleep"})
          /\ asked \in {"off", "rx"}
      BY <2>2, <2>3 DEF RInv, ModeInv, LowPowerInv
    <3> QED BY <3>1 DEF RadioAsAsked
  <2>4. CASE mode # "lowpower"
    <3>1. ~Txfrs /\ ~Stopping
      BY <2>4 DEF Quiet, Irq, Mask, SysStatus, Bits, Txfrs, Stopping
    <3>2. RadioInv
      BY <2>4 DEF RInv, ModeInv
    <3>3. asked = "off" => radio = "off"
      BY <3>2, <2>1 DEF RadioInv, OffInv
    <3>4. asked = "tx" => radio = "tx"
      BY <3>1, <3>2, <2>1 DEF RadioInv, TxInv
    <3>5. asked = "rx" => radio = "rx"
      BY <3>1, <3>2, <2>1, <2>2 DEF RadioInv, RxInv
    <3>6. asked = "ack" => radio = "ack"
      BY <3>1, <3>2, <2>1, <2>2 DEF RadioInv, AckInv
    <3>7. asked = "resp" => radio \in {"rx", "tx"}
      BY <3>1, <3>2, <2>1, <2>2 DEF RadioInv, RespInv
    <3>8. asked \in {"off", "tx", "rx", "ack", "resp"}
      BY DEF RInv, TypeOK
    <3> QED BY <3>3, <3>4, <3>5, <3>6, <3>7, <3>8 DEF RadioAsAsked
  <2> QED BY <2>3, <2>4
<1> QED BY <1>1, Invariant, PTL

\* cbRxOk reads the frame that dwt_isr has reported, the oldest unread one; and only an
\* abort after an acknowledgement can drop one.
THEOREM ReadsTheReportedFrame == Spec => FrameReported
<1>1. ASSUME RInv, CbRead
      PROVE  /\ read' = said /\ read' # NoFrame
             /\ read'.asked => due # <<>> /\ Head(due) = read'
  <2>1. pc \in {"ok", "read"} /\ Unread
    BY <1>1 DEF CbRead, Unread
  <2>2. radio # "asleep"
    BY <1>1, <2>1 DEF RInv, ModeInv, RadioInv, LowPowerInv
  <2>3. read' = Here
    BY <1>1, <2>2 DEF CbRead, HostBuffer, Here
  <2>4. said = Here /\ Here.n # 0
    BY <1>1, <2>1 DEF RInv, BufferInv
  <2>5. Here # NoFrame
    BY <2>4 DEF NoFrame
  <2>6. Here.asked => due \in {<<Here, There>>, <<Here>>}
    BY <1>1, <2>1 DEF RInv, DueInv
  <2>7. Here.asked => due # <<>> /\ Head(due) = Here
    BY <1>1, <2>6, HostTypes, OneAndTwo DEF RInv
  <2> QED BY <2>3, <2>4, <2>5, <2>7
<1>2. ASSUME RInv, IsrRxTimeout \/ IsrRxError, due' # due
      PROVE  {"TXFRS", "AAT"} \subseteq status
  <2>1. /\ pc \in {"to", "err"} /\ due # <<>>
        /\ \/ pc = "to" /\ "RXTO" \in status
           \/ pc = "err" /\ "RXERR" \in status
    BY <1>2 DEF IsrRxTimeout, IsrRxError, IsrStopped
  <2>2. Aborting /\ mode # "lowpower"
    BY <1>2, <2>1 DEF Aborting, RInv, ModeInv, LowPowerInv
  <2>3. Pending
    BY <1>2, <2>1 DEF RInv, DueInv, Unread, Pending
  <2> QED BY <1>2, <2>2, <2>3 DEF RInv, ModeInv, StopInv
<1>3. RInv =>
        [(/\ CbRead =>
               /\ read' = said /\ read' # NoFrame
               /\ read'.asked => due # <<>> /\ Head(due) = read'
          /\ (IsrRxTimeout \/ IsrRxError) /\ due' # due => {"TXFRS", "AAT"} \subseteq status)]_vars
  BY <1>1, <1>2
<1> QED BY <1>3, Invariant, PTL DEF FrameReported
=============================================================================
