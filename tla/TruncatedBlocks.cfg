SPECIFICATION FairSpec
CONSTANTS
  Keys <- KeysTwo
  NameDay <- TwoSameDay
  DayLength = 4
  Kind <- FirstTruncated
  Size <- TwoObjects
  Skipped <- NoneSkipped
  MaxFilesPerTick = 2
  Lookback = 1
  UploadLag = 0
  Epoch = 1
  MaxClock = 2
  MaxStops = 0
  MaxFaults = 0
  MaxFileEvents = 0
  Missing = Missing
  Corrupt = Corrupt
PROPERTY GoodObjectsSettle
