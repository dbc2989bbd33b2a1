--------------------------- MODULE MCZhvmPrograms ---------------------------
(***************************************************************************)
(* Start images for TLC.  A byte has four values, so that a register has   *)
(* 16 bits and an address 8.                                               *)
(***************************************************************************)
EXTENDS ZhvmInterpreter

I(opc, dst, s0, s1, imm) ==
  [opc |-> opc, dst |-> dst, s0 |-> s0, s1 |-> s1, imm |-> imm]

(* Program p from offset 0 on; c at every other offset.                    *)
Code(p, c) ==
  [o \in CodeAddr |->
     IF o >= 0 /\ o % 4 = 0 /\ o \div 4 < Len(p) THEN p[o \div 4 + 1] ELSE c]

Nop0 == I("nop", RZ, RZ, RZ, 0)
Hlt0 == I("hlt", RZ, RZ, RZ, 0)

MCReg == {RZ, RA, RS, RP}

StartRegs(a, s) ==
  [x \in MCReg |-> CASE x = RA -> a [] x = RS -> s [] OTHER -> 0]

StartData == [b \in DataAddr |-> (b * b + b + 8) % Base]

StartFuncs ==
  [k \in 0 .. 15 |-> CASE k = 0 -> "put" [] k = 1 -> "get"
                       [] k = 2 -> "putc" [] k = 3 -> "getc" [] OTHER -> "none"]

StartImage(p, c, a, s, flag) ==
  [regs |-> StartRegs(a, s), sflag |-> flag, code |-> Code(p, c),
   ddata |-> StartData, funcs |-> StartFuncs]
=============================================================================
