SPECIFICATION Spec
CONSTANTS
  Bytes = 4
  Base = 1
  MaxFd = 5
  MaxConnects = 6
INVARIANTS
  ThreadsApart
PROPERTIES
  ShutdownEnds
CHECK_DEADLOCK FALSE
