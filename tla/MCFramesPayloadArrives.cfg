SPECIFICATION Spec
CONSTANTS
  Anchors <- TwoAnchors
  Strangers <- OneStranger
  StrangerLengths <- SomeLengths
INVARIANTS
  PayloadArrives
