CONSTANTS
  NReg = 16
  HalfByte = 2
  AddrHalf = 128
  Addr <- MCAddr
  Trees <- MCTrees
  Programs <- MCPrograms
  Documented <- MCDocumented
SPECIFICATION Spec
INVARIANTS
  ContextTyped
  NoneLost
  ResultsHeld
  ReservedKept
  JumpsLand
  PlainRight
