----------------------------- MODULE MCReceiver -----------------------------
(***************************************************************************)
(* The three modes; four frames fill both buffers twice; three             *)
(* transmissions leave a wait4resp behind and meet it.                     *)
(***************************************************************************)
EXTENDS Receiver

AllModes == {"single", "double", "lowpower"}
=============================================================================
