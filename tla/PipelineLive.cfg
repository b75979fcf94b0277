SPECIFICATION FairSpec
CONSTANTS
  Keys <- KeysFour
  NameDay <- OneDay
  DayLength = 1
  Kind <- HoldingKinds
  Size <- OneLineEach
  Skipped <- NoneSkipped
  MaxFilesPerTick = 2
  Lookback = 1
  UploadLag = 2
  Epoch = 1
  MaxClock = 5
  MaxStops = 1
  MaxFaults = 1
  MaxFileEvents = 1
  Missing = Missing
  Corrupt = Corrupt
PROPERTY GoodObjectsWaitForCause
CHECK_DEADLOCK FALSE
