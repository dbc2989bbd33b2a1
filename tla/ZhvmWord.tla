------------------------------ MODULE ZhvmWord ------------------------------
(***************************************************************************)
(* The integers of the ZHVM: 64-bit registers, little-endian memory cells  *)
(* of 1, 2, 4 and 8 bytes, and the arithmetic the interpreter does on      *)
(* them.  A byte has 2*HalfByte values (HalfByte = 128 in the program);    *)
(* every other width follows from it, so that a small HalfByte gives a     *)
(* machine with the same cell sizes and the same wrap-around points that   *)
(* TLC can enumerate.                                                      *)
(***************************************************************************)
EXTENDS Integers

CONSTANTS
  HalfByte,
  AddrHalf   \* the number of non-negative off_t values

ASSUME HalfByteAssumption == HalfByte \in Nat \ {0}

Base == 2 * HalfByte

(* HalfN is the number of non-negative values of a signed N-byte integer.  *)
Half1 == HalfByte
Half2 == 2 * Half1 * Half1
Half4 == 2 * Half2 * Half2
Half8 == 2 * Half4 * Half4

(* CMakeLists.txt builds with -m32, where off_t and size_t are 4 bytes; in *)
(* a 64-bit build they are 8.                                              *)
ASSUME AddrAssumption == AddrHalf \in {Half4, Half8}

ByteVal == 0 .. Base - 1
Word    == -Half8 .. Half8 - 1

-----------------------------------------------------------------------------
(***************************************************************************)
(* Two's complement.                                                       *)
(***************************************************************************)
Signed(u, half) == IF u < half THEN u ELSE u - 2 * half

(* The value an int64_t holds after the (wrapping) computation of x.       *)
Wrap(x) == IF x \in Word THEN x ELSE Signed(x % (2 * Half8), Half8)

(* An integer converted to size_t, and to off_t.                           *)
Size(x)   == x % (2 * AddrHalf)
Offset(x) == Signed(Size(x), AddrHalf)

(* The weight of byte i of a quad.                                         *)
Place == << 1, Base, 2 * Half2, 2 * Half2 * Base,
            2 * Half4, 2 * Half4 * Base,
            2 * Half4 * 2 * Half2, 2 * Half4 * 2 * Half2 * Base >>

(* fault: the bytes of a cell in big-endian order *)
ByteOf_BigEndian(v, i) == ((v % (2 * Half8)) \div Place[8 - i]) % Base

ByteOf(v, i) == ((v % (2 * Half8)) \div Place[i + 1]) % Base

(* Unsigned value of 2, 4 and 8 consecutive bytes of m.                    *)
U2(m, o) == m[o] + Base * m[o + 1]
U4(m, o) == U2(m, o) + 2 * Half2 * U2(m, o + 2)
U8(m, o) == U4(m, o) + 2 * Half4 * U4(m, o + 4)

(* memory::GetByte, GetShort, GetLong, GetQuad once the check has passed.  *)
GetCell(m, o, n) ==
  CASE n = 1 -> Signed(m[o], Half1)
    [] n = 2 -> Signed(U2(m, o), Half2)
    [] n = 4 -> Signed(U4(m, o), Half4)
    [] n = 8 -> Signed(U8(m, o), Half8)

(* memory::SetByte, SetShort, SetLong, SetQuad once the check has passed.  *)
SetCell(m, o, n, v) ==
  [a \in DOMAIN m |-> IF a \in o .. o + n - 1 THEN ByteOf(v, a - o) ELSE m[a]]

-----------------------------------------------------------------------------
(***************************************************************************)
(* C++ operators on int64_t.  Division truncates; & is taken byte by byte, *)
(* a byte of at most eight bits in two nibbles of two pairs of bits.       *)
(***************************************************************************)
Abs(x) == IF x < 0 THEN -x ELSE x

(* fault: division rounds down *)
Quotient_Floor(a, b) == IF b > 0 THEN a \div b ELSE (-a) \div (-b)

Quotient(a, b) ==
  LET q == Abs(a) \div Abs(b) IN IF (a < 0) = (b < 0) THEN q ELSE -q

Remainder(a, b) == a - b * Quotient(a, b)

AndPair(x, y)   == (x % 2) * (y % 2) + 2 * ((x \div 2) % 2) * ((y \div 2) % 2)
AndNibble(x, y) == AndPair(x, y) + 4 * AndPair(x \div 4, y \div 4)
AndByte(x, y)   == AndNibble(x, y) + 16 * AndNibble(x \div 16, y \div 16)

(* fault: & looks at the low half of the operands *)
BitAnd_Long(a, b) ==
  U4([i \in 0 .. 7 |-> AndByte(ByteOf(a, i), ByteOf(b, i))], 0)

BitAnd(a, b) ==
  Signed(U8([i \in 0 .. 7 |-> AndByte(ByteOf(a, i), ByteOf(b, i))], 0), Half8)

Bool(p) == IF p THEN 1 ELSE 0

ArithOps == {"add", "sub", "mul", "div", "mod", "and", "or", "xor",
             "gr", "ls", "gre", "lse", "eq", "neq", "not"}

(* A zero divisor raises SIGFPE.  So does the quotient that does not fit   *)
(* where the division is an idiv; where it is libgcc's, the result wraps.  *)
Traps(op, b) == op \in {"div", "mod"} /\ b = 0

MayTrap(op, a, b) ==
  Traps(op, b) \/ (op \in {"div", "mod"} /\ a = -Half8 /\ b = -1)

(* $d = $s0 op ($s1 + imm), where a = $s0 and b = $s1 + imm.               *)
Alu(op, a, b) ==
  CASE op = "add" -> Wrap(a + b)
    [] op = "sub" -> Wrap(a - b)
    [] op = "mul" -> Wrap(a * b)
    [] op = "div" -> Wrap(Quotient(a, b))
    [] op = "mod" -> Wrap(Remainder(a, b))
    [] op = "and" -> Wrap(BitAnd(a, b))
    [] op = "or"  -> Wrap(a + b - BitAnd(a, b))
    [] op = "xor" -> Wrap(a + b - 2 * BitAnd(a, b))
    [] op = "gr"  -> Bool(a > b)
    [] op = "ls"  -> Bool(a < b)
    [] op = "gre" -> Bool(a >= b)
    [] op = "lse" -> Bool(a <= b)
    [] op = "eq"  -> Bool(a = b)
    [] op = "neq" -> Bool(a # b)
    [] op = "not" -> Bool(a = 0 /\ b = 0)
=============================================================================
