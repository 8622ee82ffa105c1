---------------------------- MODULE MCUwbThread ----------------------------
(***************************************************************************)
(* Instances of UwbThread for TLC.  Every state variable is finite, so no  *)
(* bound is needed: the runs explore the whole state space.                *)
(***************************************************************************)
EXTENDS UwbThread

AllAlgorithms == {"tag", "anchor", "dummy"}
AllReceiverEvents == {"RXFCG", "RXERR", "RXRFTO", "RXPTO"}
=============================================================================
