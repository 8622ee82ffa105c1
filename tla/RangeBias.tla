------------------------------ MODULE RangeBias ------------------------------
(***************************************************************************)
(* The range bias correction of the DW1000 driver: how many centimetres a  *)
(* measured distance is off, by channel and pulse repetition frequency.    *)
(*                                                                         *)
(*   src/dw1000/src/deca_range_tables.c                                    *)
(*                                                                         *)
(* Distances are counted in units of 25 cm, biases in centimetres; the     *)
(* floating-point factors at both ends of dwt_getrangebias are left out.   *)
(***************************************************************************)
EXTENDS Integers, Sequences, FiniteSetsExt

\* Channels 1, 2, 3 and 5 at 16 MHz PRF.
Range25cm16PRFnb == <<
    <<1, 3, 4, 5, 7, 9, 11, 12, 13, 15, 18, 20, 23, 25, 28, 30, 33, 36, 40, 43, 47, 50,
      54, 58, 63, 66, 71, 76, 82, 89, 98, 109, 127, 155, 222, 255, 255>>,
    <<1, 2, 4, 5, 6, 8, 9, 10, 12, 13, 15, 18, 20, 22, 24, 27, 29, 32, 35, 38, 41, 44,
      47, 51, 55, 58, 62, 66, 71, 78, 85, 96, 111, 135, 194, 240, 255>>,
    <<1, 2, 3, 4, 5, 7, 8, 9, 10, 12, 14, 16, 18, 20, 22, 24, 26, 28, 31, 33, 36, 39,
      42, 45, 49, 52, 55, 59, 63, 69, 76, 85, 98, 120, 173, 213, 255>>,
    <<1, 1, 2, 3, 4, 5, 6, 6, 7, 8, 9, 11, 12, 14, 15, 16, 18, 20, 21, 23, 25, 27, 29,
      31, 34, 36, 38, 41, 44, 48, 53, 59, 68, 83, 120, 148, 255>> >>

\* Channels 4 and 7 at 16 MHz PRF.
Range25cm16PRFwb == <<
    <<7, 7, 8, 9, 9, 10, 11, 11, 12, 13, 14, 15, 16, 17, 18, 19, 20, 21, 22, 23, 24,
      26, 27, 28, 30, 31, 32, 34, 36, 38, 40, 42, 44, 46, 48, 50, 52, 55, 57, 59, 61,
      63, 66, 68, 71, 74, 78, 81, 85, 89, 94, 99, 104, 110, 116, 123, 130, 139, 150,
      164, 182, 207, 238, 255, 255, 255, 255, 255>>,
    <<4, 5, 5, 5, 6, 6, 7, 7, 7, 8, 9, 9, 10, 10, 11, 11, 12, 13, 13, 14, 15, 16, 17,
      17, 18, 19, 20, 21, 22, 23, 25, 26, 27, 29, 30, 31, 32, 34, 35, 36, 38, 39, 40,
      42, 44, 46, 48, 50, 52, 55, 58, 61, 64, 68, 72, 75, 80, 85, 92, 101, 112, 127,
      147, 168, 182, 194, 205, 255>> >>

\* Channels 1, 2, 3 and 5 at 64 MHz PRF.
Range25cm64PRFnb == <<
    <<1, 2, 2, 3, 4, 5, 7, 10, 13, 16, 19, 22, 24, 27, 30, 32, 35, 38, 43, 48, 56, 78,
      101, 120, 157, 255>>,
    <<1, 2, 2, 3, 4, 4, 6, 9, 12, 14, 17, 19, 21, 24, 26, 28, 31, 33, 37, 42, 49, 68,
      89, 105, 138, 255>>,
    <<1, 1, 2, 3, 3, 4, 5, 8, 10, 13, 15, 17, 19, 21, 23, 25, 27, 30, 33, 37, 44, 60,
      79, 93, 122, 255>>,
    <<1, 1, 1, 2, 2, 3, 4, 6, 7, 9, 10, 12, 13, 15, 16, 17, 19, 21, 23, 26, 30, 42, 55,
      65, 85, 255>> >>

\* Channels 4 and 7 at 64 MHz PRF.
Range25cm64PRFwb == <<
    <<7, 8, 8, 9, 9, 10, 11, 12, 13, 13, 14, 15, 16, 16, 17, 18, 19, 19, 20, 21, 22,
      24, 25, 27, 28, 29, 30, 32, 33, 34, 35, 37, 39, 41, 43, 45, 48, 50, 53, 56, 60,
      64, 68, 74, 81, 89, 98, 109, 122, 136, 146, 154, 162, 178, 220, 249, 255, 255, 255>>,
    <<4, 5, 5, 5, 6, 6, 7, 7, 8, 8, 9, 9, 10, 10, 10, 11, 11, 12, 13, 13, 14, 15, 16,
      16, 17, 18, 19, 19, 20, 21, 22, 23, 24, 25, 26, 28, 29, 31, 33, 35, 37, 39, 42,
      46, 50, 54, 60, 67, 75, 83, 90, 95, 100, 110, 135, 153, 172, 192, 255>> >>

-----------------------------------------------------------------------------
\* chan_idxnb and chan_idxwb, from channel 1: the row of a channel in the tables above.
ChanIdxNb == <<0, 1, 2, 0, 3, 0, 0>>
ChanIdxWb == <<0, 0, 0, 0, 0, 0, 1>>

WideBand(chan) == chan \in {4, 7}

\* dwt_getrangebias: its table for a channel and PRF, 16 or 64 MHz.
RangeTable(chan, prf) ==
  CASE prf = 16 /\ WideBand(chan)  -> Range25cm16PRFwb[ChanIdxWb[chan] + 1]
    [] prf = 16 /\ ~WideBand(chan) -> Range25cm16PRFnb[ChanIdxNb[chan] + 1]
    [] prf = 64 /\ WideBand(chan)  -> Range25cm64PRFwb[ChanIdxWb[chan] + 1]
    [] prf = 64 /\ ~WideBand(chan) -> Range25cm64PRFnb[ChanIdxNb[chan] + 1]

\* CM_OFFSET_16M_NB and the others: the bias of a table's first entry.
CmOffset(chan, prf) ==
  CASE prf = 16 /\ WideBand(chan)  -> -28
    [] prf = 16 /\ ~WideBand(chan) -> -23
    [] prf = 64 /\ WideBand(chan)  -> -30
    [] prf = 64 /\ ~WideBand(chan) -> -17

\* Mutant: >= instead of > in the loop, which then passes an entry that is reached.
IndexOfPassing(table, r) == Cardinality({i \in DOMAIN table : r >= table[i]})

\* while (rangeint25cm > table[i]) i++ ;
IndexOf(table, r) == Min({i \in DOMAIN table : r <= table[i]}) - 1

\* dwt_getrangebias, for a distance in units of 25 cm.
GetRangeBias(chan, prf, range25cm) ==
  LET r == IF range25cm > 255 THEN 255 ELSE range25cm
  IN  IndexOf(RangeTable(chan, prf), r) + CmOffset(chan, prf)
=============================================================================
