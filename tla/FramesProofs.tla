---------------------------- MODULE FramesProofs ----------------------------
(***************************************************************************)
(* The frames of any number of anchors and of strangers that send frames   *)
(* of every length a chip can send, where TLC has chosen lengths.          *)
(***************************************************************************)
EXTENDS Frames, FiniteSetTheorems, TLAPS

-----------------------------------------------------------------------------
(***************************************************************************)
(* Sizes.                                                                  *)
(***************************************************************************)
\* Seven bits of a length are always below sizeof(rx_packet): the limit never bites.
Lengths == 0 .. 1023
SizeRead(length, size) == size = length % 128 /\ size \in 0 .. 127 /\ size <= length

LEMMA ReadSizes == ASSUME NEW length \in Lengths PROVE SizeRead(length, ReadSize(length))
<1> DEFINE m == length % 128
<1>1. m \in 0 .. 127 /\ m <= length
  BY DEF Lengths
<1>2. m \in {m, PACKET_SIZE} /\ \A y \in {m, PACKET_SIZE} : m <= y
  BY <1>1 DEF PACKET_SIZE, HEADER_SIZE, PAYLOAD_SIZE, TAIL_SIZE
<1>3. \A x \in {m, PACKET_SIZE} : (\A y \in {m, PACKET_SIZE} : x <= y) => x = m
  BY <1>1 DEF PACKET_SIZE, HEADER_SIZE, PAYLOAD_SIZE, TAIL_SIZE
<1>4. Min({m, PACKET_SIZE}) = m
  BY <1>2, <1>3 DEF Min
<1>5. ReadSize(length) = m
  BY <1>4 DEF ReadSize
<1> QED
  BY ONLY <1>1, <1>5 DEF SizeRead

\* What an anchor hands to the chip is all of the packet but its checksum.
LEMMA TxDataSize == Cardinality(TxData) = 149
<1> DEFINE last == 148
<1>1. last \in Int /\ 0 \in Int /\ ~(0 > last)
  OBVIOUS
<1> HIDE DEF last
<1>2. Cardinality(0 .. last) = last - 0 + 1
  BY ONLY <1>1, FS_Interval
<1>3. Cardinality(0 .. 148) = 149
  BY <1>2 DEF last
<1> QED
  BY <1>3 DEF TxData, PACKET_SIZE, HEADER_SIZE, PAYLOAD_SIZE, TAIL_SIZE

-----------------------------------------------------------------------------
(***************************************************************************)
(* The invariant.                                                          *)
(***************************************************************************)
\* A frame consists of the bytes its length announces, and an anchor's is a whole packet.
Whole(f) ==
  /\ f \in Frame
  /\ f.bytes = 0 .. f.length - 1
  /\ f.from \in Anchors => f.length = PACKET_SIZE

FramesInv == Whole(air) /\ Whole(received)

LEMMA WholeFrame ==
  ASSUME NEW f, Whole(f)
  PROVE  /\ f \in Frame
         /\ f.from \in Anchors \cup Strangers \cup {"none"}
         /\ f.length \in 0 .. 1023
         /\ f.bytes = 0 .. f.length - 1
         /\ f.from \in Anchors => f.length = PACKET_SIZE
<1>1. f.from \in Anchors \cup Strangers \cup {"none"} /\ f.length \in 0 .. 1023
  BY DEF Whole, Frame
<1> QED
  BY <1>1 DEF Whole

\* No frame has no bytes.
LEMMA WholeNoFrame == Whole(NoFrame)
<1>1. 0 .. 0 - 1 = {}
  OBVIOUS
<1>2. NoFrame \in Frame
  BY DEF NoFrame, Frame
<1> QED
  BY <1>1, <1>2, SendersAssumption DEF Whole, NoFrame

\* The front of rx_packet is the frame received last, as far as it was read.
ReadInv ==
  /\ readSize = ReadSize(received.length)
  /\ \A i \in Packet : i < readSize => rx_packet[i] = received.from

TransactionsInv ==
  \A t \in transactions :
    /\ t \in [op : {"read", "write"}, header : 1 .. 3, body : Nat]
    /\ t.body <= BUF_SIZE - t.header

FInv == TypeOK /\ FramesInv /\ ReadInv /\ TransactionsInv


LEMMA Initially == Init => FInv
<1> SUFFICES ASSUME Init PROVE FInv
  OBVIOUS
<1> USE DEF Init
<1>1. Whole(NoFrame)
  BY WholeNoFrame
<1>2. ReadSize(0) = 0
  <2>1. 0 \in Lengths
    BY DEF Lengths
  <2>2. SizeRead(0, ReadSize(0))
    BY ONLY <2>1, ReadSizes
  <2> QED BY ONLY <2>2 DEF SizeRead
<1>3. TypeOK
  BY <1>1, WholeFrame DEF TypeOK, PACKET_SIZE, HEADER_SIZE, PAYLOAD_SIZE, TAIL_SIZE
<1>4. FramesInv
  BY <1>1 DEF FramesInv
<1>5. ReadInv
  BY <1>2 DEF ReadInv, NoFrame
<1> QED
  BY <1>3, <1>4, <1>5 DEF FInv, TransactionsInv

\* The six transactions of send_tx_packet; the longest is the frame with its header.
LEMMA SendStep ==
  ASSUME FInv, NEW a \in Anchors, SendTxPacket(a) PROVE FInv'
<1> USE DEF FInv
<1>1. txBuffer' = [txBuffer EXCEPT ![a] = 0 .. 148] /\ txBuffer'[a] = 0 .. 148
  BY DEF SendTxPacket, TypeOK, TxData, PACKET_SIZE, HEADER_SIZE, PAYLOAD_SIZE, TAIL_SIZE
<1>2. FrameLength = 151 /\ PACKET_SIZE = 151
  BY DEF FrameLength, PACKET_SIZE, HEADER_SIZE, PAYLOAD_SIZE, TAIL_SIZE
<1>3. air' = [from |-> a, length |-> 151, bytes |-> 0 .. 150]
  <2>1. ((0 .. 148) \cap 0 .. 151 - 3) \cup {151 - 2, 151 - 1} = 0 .. 150
    OBVIOUS
  <2> QED BY <1>1, <1>2, <2>1 DEF SendTxPacket
<1>4. FramesInv'
  <2> DEFINE frame == [from |-> a, length |-> 151, bytes |-> 0 .. 150]
  <2>1. frame \in Frame
    BY DEF Frame
  <2>2. Whole(frame)
    BY <1>2, <2>1 DEF Whole
  <2> HIDE DEF frame
  <2>3. air' = frame
    BY <1>3 DEF frame
  <2> QED BY <2>2, <2>3 DEF FramesInv, SendTxPacket
<1>5. ReadInv'
  BY DEF ReadInv, SendTxPacket
<1>6. TransactionsInv'
  BY TxDataSize DEF TransactionsInv, SendTxPacket, ReadFromDevice, WriteToDevice, Write32,
                    Write8, Read16, HeaderLength, BUF_SIZE
<1>7. TypeOK'
  <2>1. txBuffer' \in [Anchors -> SUBSET (0 .. 1023)]
    BY <1>1 DEF TypeOK
  <2>2. transactions' \subseteq [op : {"read", "write"}, header : 1 .. 3, body : Nat]
    BY <1>6 DEF TransactionsInv
  <2>3. air' \in Frame /\ received' \in Frame
    BY ONLY <1>4 DEF FramesInv, Whole
  <2> QED BY <2>1, <2>2, <2>3 DEF TypeOK, SendTxPacket
<1> QED
  BY <1>4, <1>5, <1>6, <1>7

\* A read of a frame: its length, then no more than 127 bytes.
LEMMA FrameReads ==
  ASSUME NEW size \in 0 .. 127, NEW t \in ReadFrame(size) \cup {Write16(0), ReadFromDevice(0, 5)}
  PROVE  /\ t \in [op : {"read", "write"}, header : 1 .. 3, body : Nat]
         /\ t.body <= BUF_SIZE - t.header
<1>1. PICK op \in {"read", "write"}, header \in 1 .. 3, body \in 0 .. 127 :
        t = [op |-> op, header |-> header, body |-> body]
  BY DEF ReadFrame, Write16, Read32, ReadFromDevice, WriteToDevice, HeaderLength
<1>2. t \in [op : {"read", "write"}, header : 1 .. 3, body : Nat]
  BY ONLY <1>1, body \in Nat
<1>3. t.body = body /\ t.header = header
  BY ONLY <1>1
<1>4. body <= BUF_SIZE - header
  BY ONLY header \in 1 .. 3, body \in 0 .. 127 DEF BUF_SIZE
<1> QED BY ONLY <1>2, <1>3, <1>4

LEMMA TagStep == ASSUME FInv, TagReceives PROVE FInv'
<1> USE DEF FInv
<1>1. air.length \in 0 .. 1023 /\ air.from \in Anchors \cup Strangers \cup {"none"}
  <2>1. Whole(air)
    BY DEF FramesInv
  <2> QED BY ONLY <2>1, WholeFrame
<1>2. readSize' = ReadSize(air.length) /\ readSize' \in 0 .. 127
  <2>1. readSize' = ReadSize(air.length)
    BY DEF TagReceives
  <2>2. air.length \in Lengths
    BY ONLY <1>1 DEF Lengths
  <2>3. SizeRead(air.length, ReadSize(air.length))
    BY ONLY <2>2, ReadSizes
  <2> QED BY ONLY <2>1, <2>3 DEF SizeRead
<1>3. \A i \in Packet : rx_packet'[i] = IF i < readSize' THEN air.from ELSE rx_packet[i]
  BY DEF TagReceives
<1>4. FramesInv'
  BY WholeNoFrame DEF FramesInv, TagReceives
<1>5. ReadInv'
  BY <1>2, <1>3 DEF ReadInv, TagReceives
<1>6. TransactionsInv'
  BY <1>2, FrameReads DEF TransactionsInv, TagReceives
<1>7. TypeOK'
  <2>1. rx_packet' \in [Packet -> Anchors \cup Strangers \cup {"none"}]
    BY <1>1, <1>2 DEF TypeOK, TagReceives
  <2>2. transactions' \subseteq [op : {"read", "write"}, header : 1 .. 3, body : Nat]
    BY <1>6 DEF TransactionsInv
  <2>3. readSize' \in 0 .. PACKET_SIZE
    BY <1>2 DEF PACKET_SIZE, HEADER_SIZE, PAYLOAD_SIZE, TAIL_SIZE
  <2>4. air' \in Frame /\ received' \in Frame
    BY ONLY <1>4 DEF FramesInv, Whole
  <2> QED BY <2>1, <2>2, <2>3, <2>4 DEF TypeOK, TagReceives
<1> QED
  BY <1>4, <1>5, <1>6, <1>7

LEMMA AnchorStep == ASSUME FInv, AnchorReceives PROVE FInv'
<1> USE DEF FInv
<1>1. air.length \in 0 .. 1023 /\ air.from \in Anchors \cup Strangers \cup {"none"}
  <2>1. Whole(air)
    BY DEF FramesInv
  <2> QED BY ONLY <2>1, WholeFrame
<1> DEFINE size == ReadSize(air.length)
<1>2. size \in 0 .. 127
  <2>1. air.length \in Lengths
    BY ONLY <1>1 DEF Lengths
  <2>2. SizeRead(air.length, size)
    BY ONLY <2>1, ReadSizes
  <2> QED BY ONLY <2>2 DEF SizeRead
<1>3. /\ transactions' = ReadFrame(size) \cup {ReadFromDevice(0, 5)}
      /\ prev_sys_time' \subseteq Anchors \cup Strangers \cup {"none"}
  BY <1>1 DEF AnchorReceives
<1> HIDE DEF size
<1>4. FramesInv'
  BY WholeNoFrame DEF FramesInv, AnchorReceives
<1>5. ReadInv'
  BY DEF ReadInv, AnchorReceives
<1>6. TransactionsInv'
  BY <1>2, <1>3, FrameReads DEF TransactionsInv
<1>7. TypeOK'
  <2>1. transactions' \subseteq [op : {"read", "write"}, header : 1 .. 3, body : Nat]
    BY <1>6 DEF TransactionsInv
  <2>2. air' \in Frame /\ received' \in Frame
    BY ONLY <1>4 DEF FramesInv, Whole
  <2> QED BY <1>3, <2>1, <2>2 DEF TypeOK, AnchorReceives
<1> QED
  BY <1>4, <1>5, <1>6, <1>7

LEMMA Step == FInv /\ [Next]_vars => FInv'
<1> SUFFICES ASSUME FInv, [Next]_vars PROVE FInv'
  OBVIOUS
<1>1. ASSUME NEW a \in Anchors, SendTxPacket(a) PROVE FInv'
  BY <1>1, SendStep
<1>2. ASSUME NEW s \in Strangers, StrangerSends(s) PROVE FInv'
  <2> USE <1>2 DEF FInv, StrangerSends
  <2>1. PICK n \in StrangerLengths : air' = [from |-> s, length |-> n, bytes |-> 0 .. n - 1]
    OBVIOUS
  <2>2. n \in 0 .. 1023 /\ s \notin Anchors
    BY ONLY LengthsAssumption, SendersAssumption, n \in StrangerLengths, s \in Strangers
  <2> DEFINE frame == [from |-> s, length |-> n, bytes |-> 0 .. n - 1]
  <2>w. Whole(frame)
    <3>1. frame \in Frame
      BY ONLY <2>2, s \in Strangers DEF Frame
    <3> QED BY ONLY <2>2, <3>1 DEF Whole
  <2> HIDE DEF frame
  <2>3. FramesInv'
    <3>1. air' = frame
      BY <2>1 DEF frame
    <3> QED BY <2>w, <3>1 DEF FramesInv
  <2>4. ReadInv' /\ TransactionsInv'
    BY DEF ReadInv, TransactionsInv
  <2>5. air' \in Frame /\ received' \in Frame
    BY ONLY <2>3 DEF FramesInv, Whole
  <2>6. TypeOK'
    BY <2>5 DEF TypeOK
  <2> QED BY <2>3, <2>4, <2>6
<1>3. CASE Lost
  <2> USE <1>3 DEF FInv, Lost
  <2>1. FramesInv'
    BY WholeNoFrame DEF FramesInv
  <2>2. ReadInv' /\ TransactionsInv'
    BY DEF ReadInv, TransactionsInv
  <2>3. air' \in Frame /\ received' \in Frame
    BY ONLY <2>1 DEF FramesInv, Whole
  <2>4. TypeOK'
    BY <2>3 DEF TypeOK
  <2> QED BY <2>1, <2>2, <2>4
<1>4. CASE UNCHANGED vars
  BY <1>4 DEF vars, FInv, TypeOK, FramesInv, ReadInv, TransactionsInv
<1> QED
  BY <1>1, <1>2, <1>3, <1>4, TagStep, AnchorStep DEF Next

\* Frames, the front of rx_packet and the SPI transactions are what FInv says of them.
THEOREM Invariant == Spec => []FInv
BY Initially, Step, PTL DEF Spec

-----------------------------------------------------------------------------
(***************************************************************************)
(* The properties.                                                         *)
(***************************************************************************)
\* Every variable stays in its type.
THEOREM TypeCorrect == Spec => []TypeOK
<1>1. FInv => TypeOK
  BY DEF FInv
<1> QED BY <1>1, Invariant, PTL

\* Whatever length a frame claims, dwt_readrxdata reads as many bytes as the frame has
\* brought, or fewer, and none behind rx_packet.
THEOREM ReadsStayInFrame == Spec => []ReadsWithinFrame
<1>1. ASSUME FInv PROVE ReadsWithinFrame
  <2> USE <1>1 DEF FInv
  <2>w. Whole(received)
    BY DEF FramesInv
  <2>1. received.length \in 0 .. 1023 /\ received.bytes = 0 .. received.length - 1
    BY ONLY <2>w, WholeFrame
  <2>r. readSize = ReadSize(received.length)
    BY DEF ReadInv
  <2>2. readSize \in 0 .. 127 /\ readSize <= received.length
    <3>1. received.length \in Lengths
      BY ONLY <2>1 DEF Lengths
    <3>2. SizeRead(received.length, ReadSize(received.length))
      BY ONLY <3>1, ReadSizes
    <3> QED BY ONLY <2>r, <3>2 DEF SizeRead
  <2>3. PACKET_SIZE = 151
    BY ONLY DEF PACKET_SIZE, HEADER_SIZE, PAYLOAD_SIZE, TAIL_SIZE
  <2>4. Fresh = 0 .. readSize - 1
    <3>1. Packet = 0 .. 150
      BY <2>3 DEF Packet
    <3> PICK length : length = received.length
      OBVIOUS
    <3>l. length \in 0 .. 1023
      BY ONLY <2>1, length = received.length
    <3>2. ASSUME NEW i \in 0 .. 150
          PROVE  i < readSize /\ i \in 0 .. length - 1 <=> i \in 0 .. readSize - 1
      <4>1. readSize <= length
        BY ONLY <2>2, length = received.length
      <4> QED BY ONLY <2>2, <3>l, <4>1, i \in 0 .. 150
    <3>3. 0 .. readSize - 1 \subseteq 0 .. 150
      BY ONLY <2>2
    <3>4. received.bytes = 0 .. length - 1
      BY <2>1
    <3>5. Fresh = {i \in 0 .. 150 : i < readSize /\ i \in 0 .. length - 1}
      BY ONLY <3>1, <3>4 DEF Fresh
    <3> QED BY ONLY <3>2, <3>3, <3>5
  <2>5. PICK last \in Int : last = readSize - 1
    BY <2>2
  <2>6. Cardinality(0 .. last) = IF 0 > last THEN 0 ELSE last - 0 + 1
    BY ONLY <2>5, FS_Interval, 0 \in Int
  <2>7. Cardinality(Fresh) = readSize
    BY <2>2, <2>4, <2>5, <2>6
  <2> QED BY <2>2, <2>3, <2>7 DEF ReadsWithinFrame
<1> QED BY <1>1, Invariant, PTL

\* 151 bytes are read as 23, just past the source address: the address the tag logs is
\* the anchor's, all of it.
THEOREM TagReportsSender == Spec => []ReportsSender
<1>1. ASSUME FInv PROVE ReportsSender
  <2> USE <1>1 DEF FInv
  <2>1. PACKET_SIZE = 151
    BY DEF PACKET_SIZE, HEADER_SIZE, PAYLOAD_SIZE, TAIL_SIZE
  <2>w. Whole(received)
    BY DEF FramesInv
  <2>2. received.length \in 0 .. 1023
    BY ONLY <2>w, WholeFrame
  <2>3. received.from \in Anchors => readSize = 23
    <3>1. ReadSize(received.length) = received.length % 128
      <4>1. received.length \in Lengths
        BY ONLY <2>2 DEF Lengths
      <4>2. SizeRead(received.length, ReadSize(received.length))
        BY ONLY <4>1, ReadSizes
      <4> QED BY ONLY <4>2 DEF SizeRead
    <3>2. received.from \in Anchors => received.length = 151
      BY ONLY <2>1, <2>w DEF Whole
    <3>3. 151 % 128 = 23
      OBVIOUS
    <3> QED BY <3>1, <3>2, <3>3 DEF ReadInv
  <2> QED BY <2>1, <2>3 DEF ReportsSender, ReadInv, SrcAddress, Packet
<1> QED BY <1>1, Invariant, PTL

\* No transaction of a node leaves the SPI buffers, whatever is on the air.
THEOREM SpiStaysInBuffers == Spec => []SpiWithinBuffers
<1>1. ASSUME FInv PROVE SpiWithinBuffers
  BY <1>1 DEF FInv, TransactionsInv, SpiWithinBuffers, Touched, BUF_SIZE
<1> QED BY <1>1, Invariant, PTL
=============================================================================
