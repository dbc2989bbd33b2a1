CONSTANTS
  HalfByte = 2
  AddrHalf = 128
  CSize = 20
  DSize = 20
  StackTop = 8
  Reg <- MCReg
  Inputs <- MCInputs
  Images <- MCImages
SPECIFICATION CallsSpec
INVARIANT FramesInMemory
PROPERTIES
  ReturnsToCaller
  CallsTerminate
CHECK_DEADLOCK FALSE
