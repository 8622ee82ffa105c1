SPECIFICATION FairSpec
CONSTANTS
  Modes <- TwoModes
  Addresses <- OneAddress
  Coordinates <- OneCoordinate
  Unset = Unset
  FlashFailures = TRUE
  MaxExtra = 1
  Commands <- AllCommands
  MaxRestarts = 1
CHECK_DEADLOCK FALSE
INVARIANTS
  TypeOK
  ConfirmedIsStored
PROPERTIES
  StartsWithConfirmed
  BootEnds
