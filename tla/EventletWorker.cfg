SPECIFICATION Spec
CONSTANTS
  Greenlets = {g1, g2, g3}
  None = None
  MaxContexts = 3
  MaxResources = 3
  MaxClock = 5
  MaxSwitches = 3
  iterations = 3
  Requests = {r1, r2}
  Services = {s1}
  OutsideIds = {1}
  RequestLevels = {10, 20, 30, 40}
SYMMETRY Interchangeable
INVARIANTS
  NoContextIsShared
  ContextsAreBounded
  TimesAreExact
  TakesTurns
  CallsAreFollowed
  AnsweredIsLogged
PROPERTY
  ResourcesStay
