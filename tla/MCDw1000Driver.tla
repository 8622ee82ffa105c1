--------------------------- MODULE MCDw1000Driver ---------------------------
(***************************************************************************)
(* Instances of Dw1000Driver for TLC: every setter, and one PHY mode with  *)
(* long frames and one without, which changes another bit of SYS_CFG.      *)
(***************************************************************************)
EXTENDS Dw1000Driver

AllSetters == {"timeout", "filter", "autoack", "double", "smart"}
TwoPhyModes == {{"PHR_MODE"}, {"RXM110K"}}
=============================================================================
