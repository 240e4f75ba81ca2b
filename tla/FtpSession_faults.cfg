SPECIFICATION Spec
CONSTANTS
  c1 = c1
  c2 = c2
  Clients = {c1}
  Dirs <- MCDirs
  Names <- MCNames
  Env <- MCEnv
  MaxConnects = 2
  MaxCommands = 4
  Faults = {"kill", "split", "disk_full", "syscall"}
INVARIANTS
  OnlyKillsCauseSigpipe
PROPERTIES
  CommandReturns
CHECK_DEADLOCK FALSE
