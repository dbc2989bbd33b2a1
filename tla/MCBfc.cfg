CONSTANTS
  HalfByte = 2
  AddrHalf = 128
  CSize = 120
  DSize = 4
  Reg <- MCReg
  Inputs <- MCInputs
  Images = {}
  Texts <- MCTexts
  Segments <- MCSegments
  MaxOut = 4
SPECIFICATION Spec
INVARIANTS
  BfcTypeOK
  LabelsOnce
PROPERTY ProgramMeans
CHECK_DEADLOCK FALSE
