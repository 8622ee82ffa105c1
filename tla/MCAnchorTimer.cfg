SPECIFICATION Spec
CONSTANTS
  Wrap = 64
  TickNum = 3
  TickDen = 2
  AverageDelay = 8
  Interval = 2
  TxDelay = 3
  MaxTime = 90
CHECK_DEADLOCK FALSE
INVARIANTS
  TypeOK
  OverdueBounded
PROPERTIES
  MinimumSpacing
  ArmedFrameIsSent
