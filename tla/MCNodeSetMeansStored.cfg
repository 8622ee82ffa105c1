SPECIFICATION Spec
CONSTANTS
  Modes <- TwoModes
  Addresses <- OneAddress
  Coordinates <- OneCoordinate
  Unset = Unset
  FlashFailures = FALSE
  MaxExtra = 1
  Commands <- ModeAlone
  MaxRestarts = 0
CHECK_DEADLOCK FALSE
INVARIANTS
  SetMeansStored
