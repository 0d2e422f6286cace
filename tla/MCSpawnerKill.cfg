SPECIFICATION SafeSpec
CONSTANTS
  Pieces = 3
  PipeRoom = 1
  FrameBytes = 2
  WaitMayFail = FALSE
INVARIANT KillFindsTheTarget
