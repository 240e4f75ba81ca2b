SPECIFICATION Spec
CONSTANTS
  p1 = p1
  p2 = p2
  p3 = p3
  p4 = p4
  Peers = {p1, p2, p3, p4}
  Writers = {p1}
  None = None
  ServerFd = 3
  FdLimit = 8
  InitMax = 12
  Backlog = 10
  MaxMsgs = 1
  SndBuf = 1
SYMMETRY Symmetry
INVARIANTS
  BroadcastReachesAll
CHECK_DEADLOCK FALSE
