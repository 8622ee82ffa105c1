SPECIFICATION Spec
CONSTANTS
  Anchors <- TwoAnchors
  Strangers <- OneStranger
  StrangerLengths <- SomeLengths
INVARIANTS
  TypeOK
  ReadsWithinFrame
  ReportsSender
  SpiWithinBuffers
