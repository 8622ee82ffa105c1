SPECIFICATION SettingsSpec
CONSTANTS
  LnaPaModes <- NoneOrBoth
  Configs <- FourConfigs
  PgCounts <- ThreeTemperatures
  PgDelays <- SomeDelays
  PowerBytes <- SomeBytes
  DeltaTemps <- SomeDeltas
  RoomTemps = {120}
  Distances <- SomeDistances
  NumSamples = 10
INVARIANT DaStopsAtMax
