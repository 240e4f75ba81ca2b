SPECIFICATION Spec
CONSTANTS
  c1 = c1
  c2 = c2
  Clients = {c1, c2}
  Dirs <- MCDirs
  Names <- MCNames
  Env <- MCEnv
  MaxConnects = 1
  MaxCommands = 3
  Faults = {"syscall"}
INVARIANTS
  InStep
  AnswerJustified
SYMMETRY Symmetry
CHECK_DEADLOCK FALSE
