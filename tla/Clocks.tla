------------------------------- MODULE Clocks -------------------------------
(***************************************************************************)
(* PMSC_CTRL0 of the DW1000 as the set of its bits, of which 0 to 15       *)
(* choose clocks.  src/dw1000/src/deca_device.c, _dwt_enableclocks.        *)
(***************************************************************************)
EXTENDS Naturals

\* The clock bits after a reset or a wake-up: every clock follows the sequencer.
Sequenced == {9}

\* What is above the two bytes that _dwt_enableclocks reads and writes.
AboveClocks(c) == {b \in c : b > 15}

\* _dwt_enableclocks: bits 0 to 7 are reg[0], 8 to 15 are reg[1].
EnableClocks(c, which) ==
  CASE which = "ENABLE_ALL_SEQ" -> {b \in c : b > 8}
    [] which = "FORCE_SYS_XTI"  -> {0} \cup (c \ {0, 1})
    [] which = "FORCE_SYS_PLL"  -> {1} \cup (c \ {0, 1})
    [] which = "READ_ACC_ON"    -> {3, 6, 15} \cup (c \ {2, 3, 6})
    [] which = "READ_ACC_OFF"   -> c \ {2, 3, 6, 15}
    [] which = "FORCE_OTP_ON"   -> {9} \cup c
    [] which = "FORCE_OTP_OFF"  -> c \ {9}
    [] which = "FORCE_TX_PLL"   -> {5} \cup (c \ {4, 5})
    [] which = "FORCE_LDE"      -> {0, 8, 9} \cup AboveClocks(c)
=============================================================================
