CONSTANTS
  WordMarks = {}
  Inputs <- MCInputs
  Later <- MCLater
  Files <- MCFiles
  MaxInclude = 2
  BufSize = 4
  ReadMax = 3
  MaxScans = 2
SPECIFICATION
  Spec
INVARIANTS
  TypeOK
  BuffersFit
  BuffersOwned
  TokensAsWritten
PROPERTIES
  LexerSpec
  CallsReturn
CHECK_DEADLOCK
  FALSE
