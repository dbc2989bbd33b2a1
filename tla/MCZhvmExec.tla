----------------------------- MODULE MCZhvmExec -----------------------------
(***************************************************************************)
(* Programs for ZhvmExec: every sequence of two commands of an alphabet,   *)
(* from several register contents, in a code segment of 16 bytes, of which *)
(* the last word cannot be fetched.                                        *)
(***************************************************************************)
EXTENDS ZhvmExec, MCZhvmPrograms, Bitwise

MCInputs == {1, -8}

Alphabet ==
  { I("add", RA, RA, RZ, 1),  I("mul", RA, RA, RA, -3), I("mod", RS, RA, RZ, 4),
    I("div", RA, RS, RA, 0),  I("xor", RA, RA, RS, 5),  I("sub", RZ, RZ, RA, 1),
    I("add", RP, RP, RZ, 8),  I("cmz", RP, RA, RP, 8),  I("cmn", RA, RS, RZ, -2),
    I("add", RP, RP, RZ, 264),
    I("ldl", RA, RS, RZ, 0),  I("ldq", RA, RA, RS, 0),  I("lds", RS, RA, RZ, 0),
    I("svl", RS, RA, RZ, 0),  I("svq", RA, RS, RZ, 0),  I("svb", RP, RA, RS, 0),
    I("cpy", RS, RA, RA, 2),  I("cpy", RZ, RS, RZ, -1), I("cmp", RA, RS, RA, 3),
    I("ccl", RZ, RZ, RZ, 0),  I("ccl", RZ, RZ, RA, 0),  I("ccl", RZ, RA, RA, 0),
    I("ccl", RZ, RZ, RZ, 3),  I("ccl", RZ, RP, RA, 0),  I("ccl", RZ, RP, RZ, -1),
    I("zcl", RP, RS, RP, 8),  I("zcl", RA, RP, RZ, 2),  I("ret", RA, RS, RZ, 0),
    Hlt0,  I("reserved", RZ, RZ, RZ, 0) }

Programs ==
  { StartImage(p, Nop0, v[1], v[2], {RP, RA}) :
      p \in [1 .. 2 -> Alphabet], v \in {<<2, 4>>, <<0, -8>>, <<9, 2>>} }

(* The block commands at and around the bounds of the segment, with every  *)
(* kind of length.                                                         *)
BlockPrograms ==
  { StartImage(<< I(opc, RS, RA, RZ, l), Hlt0 >>, Nop0, a, s, {}) :
      opc \in {"cpy", "cmp"}, l \in {0, 1, 3, 6, 40, 259, -1},
      a \in {-9, -8, 0, 3, 6, 11, 12, 13, 259}, s \in {-8, -2, 0, 3, 7, 12, 14, -251} }

(* The program counter at the last word, an alias of -4.                   *)
WrapImages ==
  { [StartImage(p, Nop0, 2, 4, {}) EXCEPT !.regs[RP] = Half8 - 4] :
      p \in [1 .. 2 -> Alphabet] }

(* Words at every boundary, in two registers.                              *)
Sample ==
  UNION {{z, -z - 1} : z \in {0, 1, 2, 3, 4, 5, 7, 8, 9, 12, 15, 16, 17, 31, 63, 64, 85,
           127, 128, 129, 170, 255, 256, 1000, 2047, 2048, 16383, 16384, 21845, 32766, 32767}}

Halted == {StartImage(<< Hlt0 >>, Nop0, a, s, {}) : a \in Sample, s \in Sample}

MCImages == Programs \cup BlockPrograms \cup WrapImages \cup Halted

-----------------------------------------------------------------------------
(***************************************************************************)
(* The operators of ZhvmWord against reference definitions, for the words  *)
(* in $a and $s.                                                           *)
(***************************************************************************)
x == regs[RA]
y == regs[RS]

(* and, or and xor are those of the two's complement bit patterns; the     *)
(* logical not, !(s0 | (s1 + imm)), is 1 only when no bit is set.          *)
BitwiseIsTwosComplement ==
  LET u == x % (2 * Half8)
      v == y % (2 * Half8)
  IN /\ Alu("and", x, y) = Signed(u & v, Half8)
     /\ Alu("or", x, y)  = Signed(u | v, Half8)
     /\ Alu("xor", x, y) = Signed(u ^^ v, Half8)
     /\ Alu("not", x, y) = (IF u | v = 0 THEN 1 ELSE 0)
     /\ AndByte(u % 256, v % 256) = (u % 256) & (v % 256)
=============================================================================
