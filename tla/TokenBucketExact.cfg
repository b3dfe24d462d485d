SPECIFICATION BucketSpec
CONSTANTS
  Callers = {c1, c2}
  MaxSkew = 0
  Skew <- Synchronised
  TicksPerToken = 3
  BucketMax = 2
  BucketMin <- OneOwed
  MaxDelay = 0
  MaxClock = 15
  NoBucket = NoBucket
  Idle = Idle
PROPERTY
  ImplementsEagerBucket
