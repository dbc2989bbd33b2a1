CONSTANTS
  NReg = 16
  HalfByte = 2
  AddrHalf = 128
  Addr <- MCAddr
  Trees <- MCTrees
  Programs <- Printing
  Documented <- MCDocumented
SPECIFICATION Spec
INVARIANT RegisterContent
