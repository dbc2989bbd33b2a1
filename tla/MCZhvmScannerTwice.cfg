CONSTANTS
  WordMarks = {}
  Inputs <- MCIncludes
  Later <- MCIncludes
  Files <- MCFiles
  MaxInclude = 2
  BufSize = 4
  ReadMax = 3
  MaxScans = 2
SPECIFICATION
  Spec
INVARIANT
  BuffersLive
CHECK_DEADLOCK
  FALSE
