SPECIFICATION Spec
CONSTANTS
  Calls = {c1}
  Reports = {c1}
  Unknown = {}
  MaxHops = 1
  MaxFolds = 1
  MaxSubmits = 2
  MaxDetaches = 1
  MaxSwaps = 1
PROPERTY LoadOutsideTurn
CHECK_DEADLOCK FALSE
