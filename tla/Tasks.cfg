SPECIFICATION TasksSpec
CONSTANTS
  Webs = {web}
  Workers = {worker}
  Tasks = {t1, t2}
  Groups = {g1}
  MaxIds = 3
  MaxClock = 1
  MaxCalls <- CallsInWorkersAndWebs
  MaxQueued = 1
SYMMETRY Interchangeable
INVARIANTS
  CausesAreFollowed
  GroupsAreRemembered
  DurationsAreOfTheRun
