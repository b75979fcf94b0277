SPECIFICATION FairSpec
CONSTANTS
  Events = {e1, e2, e3}
  BatchSize = 3
  MaxRetries = 2
INVARIANT TypeOK
PROPERTY KeepsPromise
PROPERTY CallsReturn
