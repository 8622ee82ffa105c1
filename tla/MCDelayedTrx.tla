---------------------------- MODULE MCDelayedTrx ----------------------------
(***************************************************************************)
(* Instances of DelayedTrx for TLC: timestamps of three bytes of four      *)
(* values, of which the chip ignores the low byte and one bit more.        *)
(***************************************************************************)
EXTENDS DelayedTrx

BothRxModes == {"DELAYED", "DELAYED | IDLE_ON_DLY_ERR"}
=============================================================================
