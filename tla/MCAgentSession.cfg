SPECIFICATION Spec
CONSTANTS
  Calls = {c1, c2}
  Reports = {c1, c2}
  Unknown = {}
  MaxHops = 1
  MaxFolds = 0
  MaxSubmits = 2
  MaxDetaches = 1
  MaxSwaps = 0
SYMMETRY CallSymmetry
INVARIANT TypeOK
INVARIANT ToolsAwaited
INVARIANT JobRowsKept
PROPERTY MailboxImplemented
CHECK_DEADLOCK FALSE
