SPECIFICATION Spec
CONSTANTS
  ChunkSize = 2
  StackSize = 3
  Labels <- MCLabels
  Escaped <- MCEscaped
  Documents <- MCDocuments
  Queries <- MCQueries
  FreeTokens <- MCFree
  FreeLength = 6
  MaxSize = 37
  MaxGets = 2
  MaxNexts = 2
INVARIANTS
  ParserTypeOK
  AcceptedIsNested
  FreedOnce
  GetExact
  NextExact
PROPERTIES
  RefusesOnlyErrors
  BuildsTree
CHECK_DEADLOCK FALSE
