SPECIFICATION Spec
CONSTANTS
  BuffSize = 508
  ByteMod = 256
  Sizes <- MCSizes
  Faults = FALSE
  MaxChunks = 3
INVARIANT FileCopied
CHECK_DEADLOCK FALSE
