SPECIFICATION Spec
CONSTANTS
  Calls = {c1, c2}
  p1 = p1
  p2 = p2
  NoProvider = NoProvider
  First = p1
  Targets <- OneReload
  MaxAgents = 2
  MaxReports = 1
INVARIANT AttachedIsBound
CHECK_DEADLOCK FALSE
