SPECIFICATION FairSpec
CONSTANTS
  p1 = p1
  p2 = p2
  p3 = p3
  p4 = p4
  Peers = {p1, p2, p3}
  Writers = {p1}
  None = None
  ServerFd = 1
  FdLimit = 4
  InitMax = 2
  Backlog = 10
  MaxMsgs = 1
  SndBuf = 1
INVARIANTS
  TypeOK
  ListenerFirst
  WatchListBounded
  EndsForCause
PROPERTIES
  PendingAccepted
  BroadcastEnds
  HangupNoticed
CHECK_DEADLOCK FALSE
