CONSTANTS
  HalfByte = 2
  AddrHalf = 128
  ImmHalf = 8
  CSize = 17
  DSize = 11
  Reg = {0, 1}
  NoLabel = ""
  Lines <- WrongMacros
  MaxLines = 2
  Starts <- MCStarts
  Opcodes = {"add"}
  Garbage = {2, 9}
SPECIFICATION
  Spec
INVARIANT
  ErrorsReported
CHECK_DEADLOCK
  FALSE
