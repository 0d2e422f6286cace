SPECIFICATION Spec
CONSTANTS
  Calls = {c1, c2}
  Reports = {c1, c2}
  Unknown = {c2}
  MaxHops = 1
  MaxFolds = 1
  MaxSubmits = 2
  MaxDetaches = 1
  MaxSwaps = 1
INVARIANTS HistoryWellFormed SentIsAnswered RuntimeIsDriven MirrorFollowsRuntime
CHECK_DEADLOCK FALSE
