SPECIFICATION LiveSpec
CONSTANTS
  Pieces = 3
  PipeRoom = 1
  FrameBytes = 2
  WaitMayFail = TRUE
INVARIANT StatusIsTheTargets
