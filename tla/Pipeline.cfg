SPECIFICATION Spec
CONSTANTS
  Keys <- KeysFour
  NameDay <- ThreeDays
  DayLength = 1
  Kind <- MixedKinds
  Size <- Sizes
  Skipped <- OneSkipped
  MaxFilesPerTick = 2
  Lookback = 1
  UploadLag = 1
  Epoch = 1
  MaxClock = 4
  MaxStops = 1
  MaxFaults = 1
  MaxFileEvents = 1
  Missing = Missing
  Corrupt = Corrupt
INVARIANT TypeOK
INVARIANT NoSilentLoss
INVARIANT ReplaysOnlyAhead
INVARIANT IInv
PROPERTY CheckpointNeverRegresses
CHECK_DEADLOCK FALSE
