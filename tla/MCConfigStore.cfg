SPECIFICATION Spec
CONSTANTS
  Fields <- SmallFields
  Values <- SmallValues
  SIZE_TLV_MAX = 9
  WriteFailures = TRUE
  DamagedItems <- Damaged
INVARIANTS
  TypeOK
  ChainWellFormed
  FlashConsistent
PROPERTIES
  ReadReturnsField
  ImplementsMap
