SPECIFICATION FairSpec
CONSTANTS
  Pipelines <- PipelinesTwo
  Order <- OrderTwo
  Hanging <- HangingOne
  MaxObjects = 1
  MaxFaults = 2
  MaxStops = 1
  Missing = Missing
  Corrupt = Corrupt
INVARIANT TypeOK
INVARIANT TempsAccountedFor
PROPERTY IsRegister
PROPERTY NobodyStarves
PROPERTY StopEnds
CHECK_DEADLOCK FALSE
