SPECIFICATION Spec
CONSTANTS
  Byte = 4
  Bytes = 3
  Ignored = 8
  Delay = 21
  PowerUp = 2
  MaxLag = 31
  RxModes <- BothRxModes
INVARIANT TypeOK
PROPERTIES
  StartsWhenAsked
  ResultIsTrue
