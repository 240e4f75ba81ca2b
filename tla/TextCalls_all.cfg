SPECIFICATION Spec
CONSTANTS
  Word = 2
  Threshold = 3
  SplitLimit = 2
  IntBits = 8
  HexBits = 16
  MaxPath = 20
  IndexBits = 3
  TokenSlots = 4
  Size = 5
  Texts <- MCTexts
  Paths <- MCPaths
  Patterns <- MCPatterns
  Streams <- MCStreams
  Numerals <- MCNumerals
  Jsons <- MCJsonsMarked
  Strings <- MCStrings
  Ints <- MCInts
  Codepoints <- MCCodepoints
  Names <- MCNames
  FileSystems <- MCFileSystems
  Block = 2
INVARIANTS
  PiecesExact
  AnswersExact
PROPERTIES
  EditsExact
CHECK_DEADLOCK FALSE
