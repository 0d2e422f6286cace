SPECIFICATION LiveSpec
CONSTANTS
  p1 = p1
  p2 = p2
  p3 = p3
  n1 = n1
  n2 = n2
  a = a
  b = b
  Procs = {p1, p2}
  Inodes = {i1, i2, i3}
  NoInode = NoInode
  NoProc = NoProc
  Tokens = {a, b}
  Pids = {n1, n2}
  PidOf <- TwoPids
  Requests <- EveryRequest
  FirstTargets <- EveryKind
  Modes <- Modes3
  DefaultMode = "default"
  ReadOnlyMode = "readOnly"
  Torn = Torn
PROPERTY EveryRunReplies
