SPECIFICATION FairSpec
CONSTANTS
  MaxRetries = 2
  Long = {2}
  MaxSends = 3
  MaxConns = 3
  MaxBreaks = 2
  MaxStops = 1
INVARIANT TypeOK
INVARIANT FramesWhole
PROPERTY KeepsPromise
PROPERTY AckedArrives
PROPERTY CallsReturn
CHECK_DEADLOCK FALSE
