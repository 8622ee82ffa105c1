SPECIFICATION Spec
CONSTANTS
  Modes <- AllModes
  MaxFrames = 4
  MaxSends = 3
INVARIANTS
  TypeOK
  NothingForgotten
  RadioAsAsked
PROPERTIES
  FrameReported
