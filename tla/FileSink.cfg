SPECIFICATION Spec
CONSTANTS
  MaxSize = 2
  MaxAge = 2
  Retention = 1
  Stamp <- HourRepeated
  MaxSends = 4
  MaxClock = 3
  MaxFaults = 1
  MaxStops = 1
INVARIANT TypeOK
INVARIANT StoredOrNamed
INVARIANT LeftoversHaveCause
PROPERTY RotatedInTime
PROPERTY KeepsPromise
CHECK_DEADLOCK FALSE
