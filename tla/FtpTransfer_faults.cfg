SPECIFICATION Spec
CONSTANTS
  BuffSize = 508
  ByteMod = 256
  Sizes <- MCSizes
  Faults = TRUE
  MaxChunks = 3
INVARIANTS
  TypeOK
  ChunkOrder
  CompleteTransfer
PROPERTIES
  TransferEnds
CHECK_DEADLOCK FALSE
