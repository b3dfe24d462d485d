SPECIFICATION AccountsSpec
CONSTANTS
  Greenlets = {g1, g2}
  None = None
  MaxClock = 3
  MaxSwitches = 2
INVARIANT
  LongestTurnIsSinceReset
