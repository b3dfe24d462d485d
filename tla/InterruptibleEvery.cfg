SPECIFICATION EverySpec
CONSTANTS
  Greenlets = {g1, g2, g3}
  None = None
  iterations = 3
INVARIANT
  CallsReachTheFunction
