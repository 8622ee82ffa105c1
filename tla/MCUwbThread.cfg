SPECIFICATION FairSpec
CONSTANTS
  Algorithms <- AllAlgorithms
  ReceiverEvents <- AllReceiverEvents
INVARIANTS
  TypeOK
  NoLostInterrupt
  TagNeverDeaf
  AnchorReadsSettledFrame
PROPERTIES
  IsrKeepsTransmission
  ImplementsEventLoop
  EventServed
  TagListensAgain
  AnchorKeepsScheduling
