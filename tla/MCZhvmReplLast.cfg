CONSTANTS
  Cell = {0, 1}
  HashMod = 16
  NRegs = 1
  HeaderExtra = 1
  Magic = 7
  Version = 5
  Slots = {0, 4}
  Size = 1
  DamageValues = {0, 1, 6}
  NoFile = NoFile
  Foreign <- MCForeign
SPECIFICATION
  Spec
INVARIANT
  LastDumpLoads
