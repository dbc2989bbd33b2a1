CONSTANTS
  HalfByte = 2
  AddrHalf = 128
  CSize = 20
  DSize = 12
  CacheSize = 2
  Reg <- MCReg
  Inputs <- MCInputs
  Images <- MCImages
SPECIFICATION BurstSpec
INVARIANTS
  BurstTypeOK
  CacheCoherent
PROPERTY ExecSpec
CHECK_DEADLOCK FALSE
