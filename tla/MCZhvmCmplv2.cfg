CONSTANTS
  HalfByte = 2
  AddrHalf = 128
  ImmHalf = 8
  CSize = 17
  DSize = 11
  Reg = {0, 1}
  NoLabel = ""
  Lines <- MCLines
  MaxLines = 3
  Starts <- MCStarts
  Opcodes = {"add"}
  Garbage = {2, 9}
SPECIFICATION
  Spec
INVARIANTS
  TypeOK
  LabelsResolved
  AgreesWithTwoPass
PROPERTY
  Terminates
CHECK_DEADLOCK
  FALSE
