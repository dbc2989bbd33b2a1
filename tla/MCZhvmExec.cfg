CONSTANTS
  HalfByte = 2
  AddrHalf = 128
  CSize = 16
  DSize = 12
  Reg <- MCReg
  Inputs <- MCInputs
  Images <- MCImages
SPECIFICATION ExecSpec
INVARIANTS
  VMTypeOK
  BitwiseIsTwosComplement
  DivisionTruncates
  CellsRoundTrip
PROPERTIES
  FaultKeepsMachine
  WritesOnlyNamed
  BlocksStayInSegment
CHECK_DEADLOCK FALSE
