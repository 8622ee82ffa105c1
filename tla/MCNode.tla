------------------------------- MODULE MCNode -------------------------------
(***************************************************************************)
(* Instances of Node for TLC.  Two modes, so that a field can change; one  *)
(* restart and the commands after it show what the node remembers.         *)
(***************************************************************************)
EXTENDS Node

TwoModes == {"tag", "anchor"}
OneAddress == {"a1"}
OneCoordinate == {"1mm"}
AllCommands == {"erase", "mode", "address", "position"}
ModeAlone == {"mode"}
=============================================================================
