SPECIFICATION Spec
CONSTANTS
  c1 = c1
  c2 = c2
  Callers = {c1, c2}
  Skew <- OneAhead
  MaxSkew = 1
  MaxDelay = 1
  MaxClock = 8
  Idle = Idle
  TicksPerToken = 2
  BucketMax = 2
  BucketMin <- OneOwed
  NoBucket = NoBucket
  Limit = 2
  Interval = 5
  MaxTies = 1
INVARIANTS
  BucketRateIsLimited
  WindowRateIsLimited
  DecidedByTheInterval
PROPERTIES
  NoTimeLost
  PauseRestores
