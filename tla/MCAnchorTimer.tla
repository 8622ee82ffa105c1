--------------------------- MODULE MCAnchorTimer ---------------------------
EXTENDS AnchorTimer
=============================================================================
