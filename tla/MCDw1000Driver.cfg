SPECIFICATION Spec
CONSTANTS
  PhyModes <- TwoPhyModes
  Setters <- AllSetters
INVARIANTS
  TypeOK
  CopyMatchesChip
PROPERTIES
  ClocksPutBack
  MicrocodeSurvives
