SPECIFICATION FairSpec
CONSTANTS
  Calls = {c1, c2, c3}
  p1 = p1
  p2 = p2
  NoProvider = NoProvider
  First = p1
  Targets <- OneReload
  MaxAgents = 2
  MaxReports = 1
INVARIANTS RunningIsDriven OnlyTheBoundRuns
PROPERTY EveryRunSettles
CHECK_DEADLOCK FALSE
