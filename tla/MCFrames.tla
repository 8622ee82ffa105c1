------------------------------ MODULE MCFrames ------------------------------
(***************************************************************************)
(* Two anchors and one stranger: enough for a report that mixes senders.   *)
(* The lengths are those at which a read changes: empty, one byte short of *)
(* an address, an address, past the seven bits, past rx_packet, the most.  *)
(***************************************************************************)
EXTENDS Frames

TwoAnchors == {"A", "B"}
OneStranger == {"S"}
SomeLengths == {2, 12, 20, 21, 30, 100, 127, 128, 140, 151, 200, 300, 1023}
=============================================================================
