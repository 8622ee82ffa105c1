------------------------------- MODULE Frames -------------------------------
(***************************************************************************)
(* A frame on its way from the anchor's tx_packet to the receivers'        *)
(* rx_packet: which bytes arrive, and whose bytes a receiver reads.        *)
(*                                                                         *)
(*   src/include/mac.h       mac_packet_t and its sizes                    *)
(*   src/src/uwb_anchor.c    send_tx_packet, handle_rx_packet              *)
(*   src/src/uwb_tag.c       tag_on_event                                  *)
(*   src/dw1000/src/deca_device.c   dwt_writetxdata, dwt_writetxfctrl,     *)
(*                                  dwt_readrxdata                         *)
(*   src/dw1000/src/deca_spi.c      through module Spi: the transactions   *)
(*                                                                         *)
(* A byte of memory is abstracted to the sender whose frame it came from,  *)
(* or "none" when no frame has written it.  The sizes are the real ones.   *)
(* A frame has one receiver here: with several each takes the same step.   *)
(***************************************************************************)
EXTENDS Naturals, FiniteSets, FiniteSetsExt, Spi

CONSTANTS
  Anchors,         \* nodes that send mac_packet_t frames
  Strangers,       \* other devices on the channel
  StrangerLengths  \* the lengths of their frames

ASSUME SendersAssumption == Anchors \cap Strangers = {} /\ "none" \notin Anchors \cup Strangers
ASSUME LengthsAssumption == StrangerLengths \subseteq 0 .. 1023

\* mac.h: the header of 21 bytes, the payload, the checksum.
HEADER_SIZE == 21
PAYLOAD_SIZE == 128
TAIL_SIZE == 2
PACKET_SIZE == HEADER_SIZE + PAYLOAD_SIZE + TAIL_SIZE    \* sizeof(mac_packet_t)
Packet  == 0 .. PACKET_SIZE - 1
Payload == HEADER_SIZE .. HEADER_SIZE + PAYLOAD_SIZE - 1
SrcAddress == 13 .. 20

\* The payload as handle_rx_packet reads it begins with sys_time.
SysTime == HEADER_SIZE .. HEADER_SIZE + 7

VARIABLES
  txBuffer,   \* for each anchor, the bytes of the chip's TX buffer it has written
  air,        \* the frame on the air: [from, length, bytes], or NoFrame
  rx_packet,  \* uwb_tag.c: the tag's static rx_packet
  readSize,   \* the read_size of the last reception
  received,   \* history: the frame the tag received last, or NoFrame
  prev_sys_time, \* uwb_anchor.c: whose bytes it was made of
  transactions   \* history: the SPI transactions of the last step

vars == <<txBuffer, air, rx_packet, readSize, received, prev_sys_time, transactions>>

NoFrame == [from |-> "none", length |-> 0, bytes |-> {}]

Frame == [from   : Anchors \cup Strangers \cup {"none"},
          length : 0 .. 1023,
          bytes  : SUBSET (0 .. 1023)]

TypeOK ==
  /\ txBuffer \in [Anchors -> SUBSET (0 .. 1023)]
  /\ air \in Frame /\ received \in Frame
  /\ rx_packet \in [Packet -> Anchors \cup Strangers \cup {"none"}]
  /\ readSize \in 0 .. PACKET_SIZE
  /\ prev_sys_time \subseteq Anchors \cup Strangers \cup {"none"}
  /\ transactions \subseteq [op : {"read", "write"}, header : 1 .. 3, body : Nat]

-----------------------------------------------------------------------------
\* dwt_writetxfctrl(sizeof(tx_packet)): TFLEN and TFLE together are ten bits.
FrameLength == PACKET_SIZE % 1024

\* dwt_writetxdata writes all but the checksum, which the chip appends.
TxData == 0 .. PACKET_SIZE - 2 - 1

\* send_tx_packet, and the frame is on the air.
SendTxPacket(a) ==
  /\ air = NoFrame
  /\ txBuffer' = [txBuffer EXCEPT ![a] = TxData]
  /\ air' = [from |-> a, length |-> FrameLength,
             bytes |-> (txBuffer'[a] \cap 0 .. FrameLength - 3)
                         \cup {FrameLength - 2, FrameLength - 1}]
  /\ transactions' = {ReadFromDevice(0, 5),                       \* SYS_TIME
                      Write32(1),                                 \* DX_TIME
                      WriteToDevice(0, Cardinality(TxData)),      \* TX_BUFFER
                      Write32(0),                                 \* TX_FCTRL
                      Write8(0), Read16(3)}                       \* dwt_starttx
  /\ UNCHANGED <<rx_packet, readSize, received, prev_sys_time>>

\* Any other device sends a frame of any length.
StrangerSends(s) ==
  /\ air = NoFrame
  /\ \E n \in StrangerLengths :
       air' = [from |-> s, length |-> n, bytes |-> 0 .. n - 1]
  /\ transactions' = {}
  /\ UNCHANGED <<txBuffer, rx_packet, readSize, received, prev_sys_time>>

\* The frame is lost.
Lost ==
  /\ air # NoFrame
  /\ air' = NoFrame
  /\ transactions' = {}
  /\ UNCHANGED <<txBuffer, rx_packet, readSize, received, prev_sys_time>>

\* Mutant: RX_FINFO is neither masked nor limited.
ReadSizeRaw(length) == length

\* Mutant: the length is masked to a nibble.
ReadSizeNibble(length) == Min({length % 16, PACKET_SIZE})

\* RX_FINFO & RX_FINFO_RXFLEN_MASK keeps seven bits of the ten; then the limit.
ReadSize(length) == Min({length % 128, PACKET_SIZE})

\* The length is read from RX_FINFO, the bytes from RX_BUFFER.
ReadFrame(size) == {Read32(0), ReadFromDevice(0, size)}

\* tag_on_event: dwt_readrxdata overwrites the front of rx_packet.
TagReceives ==
  /\ air # NoFrame
  /\ readSize' = ReadSize(air.length)
  /\ rx_packet' = [i \in Packet |-> IF i < readSize' THEN air.from ELSE rx_packet[i]]
  /\ received' = air
  /\ air' = NoFrame
  /\ transactions' = ReadFrame(readSize') \cup {Write16(0)}      \* dwt_rxenable
  /\ UNCHANGED <<txBuffer, prev_sys_time>>

\* handle_rx_packet: the packet is on the stack, and sys_time is taken from it
\* whether or not the frame brought it.
AnchorReceives ==
  /\ air # NoFrame
  /\ LET size == ReadSize(air.length) IN
       /\ transactions' = ReadFrame(size) \cup {ReadFromDevice(0, 5)}   \* the two timestamps
       /\ prev_sys_time' = {IF i < size THEN air.from ELSE "none" : i \in SysTime}
  /\ air' = NoFrame
  /\ UNCHANGED <<txBuffer, rx_packet, readSize, received>>

Init ==
  /\ txBuffer = [a \in Anchors |-> {}]
  /\ air = NoFrame
  /\ rx_packet = [i \in Packet |-> "none"]
  /\ readSize = 0
  /\ received = NoFrame
  /\ prev_sys_time = {"none"}
  /\ transactions = {}

Next ==
  \/ \E a \in Anchors : SendTxPacket(a)
  \/ \E s \in Strangers : StrangerSends(s)
  \/ Lost \/ TagReceives \/ AnchorReceives
Spec == Init /\ [][Next]_vars

-----------------------------------------------------------------------------
(***************************************************************************)
(* Properties.                                                             *)
(***************************************************************************)
\* The bytes of rx_packet that came with the frame received last.
Fresh == {i \in Packet : i < readSize /\ i \in received.bytes}

\* However long a frame is, dwt_readrxdata stays within rx_packet and within the
\* frame's own bytes: nothing of an earlier frame in the chip's buffer is read.
ReadsWithinFrame ==
  readSize <= PACKET_SIZE /\ Cardinality(Fresh) = readSize

\* tx_buf and rx_buf have 255 bytes, the driver's frames up to 1023 and a length
\* on the air is whatever its sender says: no transaction of a node, in either
\* role, goes past them.
SpiWithinBuffers == \A t \in transactions : Touched(t) \subseteq 0 .. BUF_SIZE - 1

\* After an anchor's frame every address byte the tag logs is of that anchor,
\* whatever frames came before.
ReportsSender ==
  received.from \in Anchors => \A i \in SrcAddress : rx_packet[i] = received.from

\* "Maximum 128 bytes payload" (mac.h:47): the payload of an anchor's frame
\* arrives in full.
PayloadArrives == received.from \in Anchors => Payload \subseteq Fresh
=============================================================================
