SPECIFICATION LiveSpec
CONSTANTS
  Procs = {p1, p2, p3, p4}
  Inodes = {i1, i2, i3, i4, i5}
  NoInode = NoInode
  NoProc = NoProc
INVARIANT LockInv
PROPERTIES RemovesItsOwnFile EveryoneServed
