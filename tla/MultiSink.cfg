SPECIFICATION FairSpec
CONSTANTS
  NumChildren = 3
  Buffered = {1}
  Healthy = {2}
  Raising = {3}
  Files = 2
  Lines = 2
INVARIANT TypeOK
INVARIANT HealthyHasAll
PROPERTY HealthyChildSuffices
CHECK_DEADLOCK FALSE
