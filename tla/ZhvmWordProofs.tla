--------------------------- MODULE ZhvmWordProofs ---------------------------
(***************************************************************************)
(* Lemmas about the words, cells and addresses of ZhvmWord.                *)
(***************************************************************************)
EXTENDS ZhvmWord, TLAPS

-----------------------------------------------------------------------------
(***************************************************************************)
(* Integers.                                                               *)
(***************************************************************************)
(* % with a positive modulus gives a residue.                              *)
LEMMA ModRange ==
  ASSUME NEW x \in Int, NEW m \in Nat \ {0}
  PROVE  x % m \in 0 .. m - 1
OBVIOUS

(* Dividing by a positive integer gives an integer.                        *)
LEMMA DivInt ==
  ASSUME NEW x \in Int, NEW m \in Nat \ {0}
  PROVE  x \div m \in Int
OBVIOUS

(* The remainder is the only residue that differs by a multiple.           *)
LEMMA ModUnique ==
  ASSUME NEW m \in Nat \ {0}, NEW q \in Int, NEW r \in 0 .. m - 1
  PROVE  (q * m + r) % m = r
<1> DEFINE x == q * m + r
           a == x \div m
           s == x % m
<1>1. x \in Int /\ a \in Int /\ s \in 0 .. m - 1 /\ x = m * a + s
  OBVIOUS
<1> HIDE DEF a, s
<1>2. (q - a) * m = s - r
  BY <1>1 
<1>3. CASE q - a >= 1
  <2>1. (q - a) * m >= m
    BY <1>1, <1>3
  <2> QED
    BY <1>1, <1>2, <2>1
<1>4. CASE q - a <= -1
  <2>1. (q - a) * m <= -m
    BY <1>1, <1>4
  <2> QED
    BY <1>1, <1>2, <2>1
<1>5. CASE q - a = 0
  BY <1>1, <1>2, <1>5 DEF s
<1> QED
  BY <1>1, <1>3, <1>4, <1>5

LEMMA ModShift ==
  ASSUME NEW m \in Nat \ {0}, NEW x \in Int, NEW k \in Int
  PROVE  (x + k * m) % m = x % m
<1> DEFINE a == x \div m
           s == x % m
<1>1. a \in Int /\ s \in 0 .. m - 1 /\ x = m * a + s
  OBVIOUS
<1> HIDE DEF a, s
<1>2. x + k * m = (a + k) * m + s /\ a + k \in Int
  BY <1>1
<1>3. ((a + k) * m + s) % m = s
  BY <1>1, <1>2, ModUnique
<1> QED
  BY <1>2, <1>3 DEF s

LEMMA ModPart ==
  ASSUME NEW m \in Nat \ {0}, NEW x \in Int
  PROVE  \E k \in Int : x % m = x + k * m
<1>1. x % m = x + (-(x \div m)) * m /\ -(x \div m) \in Int
  OBVIOUS
<1> QED
  BY <1>1

LEMMA ProductPositive ==
  ASSUME NEW x \in Nat \ {0}, NEW y \in Nat \ {0}
  PROVE  2 * x * y \in Nat \ {0} /\ x <= 2 * x * y
OBVIOUS

LEMMA HalvesPositive ==
  /\ Half1 \in Nat \ {0} /\ Half2 \in Nat \ {0}
  /\ Half4 \in Nat \ {0} /\ Half8 \in Nat \ {0}
  /\ Half1 <= Half2 /\ Half2 <= Half4 /\ Half4 <= Half8 /\ 8 <= Half4
<1>1. Half1 \in Nat \ {0} /\ Half1 = HalfByte
  BY HalfByteAssumption DEF Half1
<1>2. Half2 \in Nat \ {0} /\ Half1 <= Half2
  BY <1>1, ProductPositive DEF Half2
<1>3. Half4 \in Nat \ {0} /\ Half2 <= Half4
  BY <1>2, ProductPositive DEF Half4
<1>4. Half8 \in Nat \ {0} /\ Half4 <= Half8
  BY <1>3, ProductPositive DEF Half8
<1>5. 2 <= Half2
  BY <1>1 DEF Half2
<1>6. 8 <= Half4
  BY <1>2, <1>5 DEF Half4
<1> QED
  BY <1>1, <1>2, <1>3, <1>4, <1>6

(* Whatever is computed, a register gets a word.                           *)
LEMMA WrapInWord ==
  ASSUME NEW x \in Int
  PROVE  Wrap(x) \in Word
<1>1. Half8 \in Nat \ {0}
  BY HalvesPositive
<1>2. x % (2 * Half8) \in 0 .. 2 * Half8 - 1
  BY <1>1, ModRange
<1>3. CASE x \in Word
  BY <1>3 DEF Wrap
<1>4. CASE x \notin Word
  <2>1. Wrap(x) = Signed(x % (2 * Half8), Half8)
    BY <1>4 DEF Wrap
  <2> QED
    BY <1>1, <1>2, <2>1 DEF Word, Signed
<1> QED
  BY <1>3, <1>4

LEMMA WordInt == Word \subseteq Int /\ 0 \in Word /\ 1 \in Word /\ ByteVal \subseteq Word
<1>1. Half8 \in Nat \ {0} /\ HalfByte \in Nat \ {0} /\ Half1 = HalfByte /\ Half1 <= Half2
      /\ Half2 <= Half4 /\ Half4 <= Half8 /\ Half2 \in Nat /\ Half4 \in Nat
  BY HalvesPositive, HalfByteAssumption DEF Half1
<1>2. 2 * HalfByte <= 2 * HalfByte * HalfByte
  BY <1>1
<1>3. 2 * HalfByte <= Half2
  BY <1>1, <1>2 DEF Half2
<1>4. 2 * HalfByte <= Half8
  BY <1>1, <1>3
<1> QED
  BY <1>1, <1>4 DEF Word, ByteVal, Base

LEMMA BasePositive == Base \in Nat \ {0}
  BY HalfByteAssumption DEF Base

LEMMA ByteOfType ==
  ASSUME NEW v \in Int, NEW i \in 0 .. 7
  PROVE  ByteOf(v, i) \in ByteVal
<1>1. /\ Half2 \in Nat \ {0} /\ Half4 \in Nat \ {0} /\ Half8 \in Nat \ {0}
      /\ Base \in Nat \ {0}
  BY HalvesPositive, BasePositive
<1>2. v % (2 * Half8) \in Int
  BY <1>1, ModRange
<1>3. /\ 2 * Half2 * Base \in Nat \ {0}
      /\ 2 * Half4 * Base \in Nat \ {0}
      /\ 2 * Half4 * 2 * Half2 \in Nat \ {0}
  BY <1>1
<1>4. 2 * Half4 * 2 * Half2 * Base \in Nat \ {0}
  <2> DEFINE p == 2 * Half4 * 2 * Half2
  <2>1. p \in Nat \ {0}
    BY <1>3
  <2> HIDE DEF p
  <2>2. p * Base \in Nat \ {0}
    BY <1>1, <2>1
  <2> QED
    BY <2>2 DEF p
<1>5. Place[i + 1] \in Nat \ {0}
  BY <1>1, <1>3, <1>4 DEF Place
<1>6. (v % (2 * Half8)) \div Place[i + 1] \in Int
  BY <1>2, <1>5, DivInt
<1> QED
  BY <1>1, <1>6, ModRange DEF ByteOf, ByteVal

LEMMA SignedInt ==
  ASSUME NEW u \in Int, NEW h \in Int
  PROVE  Signed(u, h) \in Int
BY DEF Signed

LEMMA U8Int ==
  ASSUME NEW m, NEW o \in Int, \A a \in o .. o + 7 : m[a] \in Int
  PROVE  U8(m, o) \in Int
<1>1. Base \in Int /\ Half2 \in Int /\ Half4 \in Int
  BY BasePositive, HalvesPositive
<1>2. /\ m[o] \in Int /\ m[o + 1] \in Int /\ m[o + 2] \in Int /\ m[(o + 2) + 1] \in Int
      /\ m[o + 4] \in Int /\ m[(o + 4) + 1] \in Int
      /\ m[(o + 4) + 2] \in Int /\ m[((o + 4) + 2) + 1] \in Int
  OBVIOUS
<1>3. /\ U2(m, o) \in Int /\ U2(m, o + 2) \in Int
      /\ U2(m, o + 4) \in Int /\ U2(m, (o + 4) + 2) \in Int
  BY <1>1, <1>2 DEF U2
<1>4. U4(m, o) \in Int /\ U4(m, o + 4) \in Int
  BY <1>1, <1>3 DEF U4
<1> QED
  BY <1>1, <1>4 DEF U8

(* A load yields an integer, whatever the width.                           *)
LEMMA CellInt ==
  ASSUME NEW m, NEW o \in Int, NEW n \in {1, 2, 4, 8},
         \A a \in o .. o + n - 1 : m[a] \in Int
  PROVE  GetCell(m, o, n) \in Int
<1>1. /\ Base \in Int /\ Half1 \in Int /\ Half2 \in Int /\ Half4 \in Int /\ Half8 \in Int
  BY BasePositive, HalvesPositive
<1>2. CASE n = 1
  <2>1. m[o] \in Int
    BY <1>2
  <2> QED
    BY <1>1, <1>2, <2>1, SignedInt DEF GetCell
<1>3. CASE n = 2
  <2>1. m[o] \in Int /\ m[o + 1] \in Int
    BY <1>3
  <2>2. U2(m, o) \in Int
    BY <1>1, <2>1 DEF U2
  <2> QED
    BY <1>1, <1>3, <2>2, SignedInt DEF GetCell
<1>4. CASE n = 4
  <2>1. m[o] \in Int /\ m[o + 1] \in Int /\ m[o + 2] \in Int /\ m[(o + 2) + 1] \in Int
    BY <1>4
  <2>2. U2(m, o) \in Int /\ U2(m, o + 2) \in Int
    BY <1>1, <2>1 DEF U2
  <2>3. U4(m, o) \in Int
    BY <1>1, <2>2 DEF U4
  <2> QED
    BY <1>1, <1>4, <2>3, SignedInt DEF GetCell
<1>5. CASE n = 8
  <2>1. U8(m, o) \in Int
    BY <1>5, U8Int
  <2> QED
    BY <1>1, <1>5, <2>1, SignedInt DEF GetCell
<1> QED
  BY <1>2, <1>3, <1>4, <1>5

LEMMA AndByteInt ==
  ASSUME NEW a \in Int, NEW b \in Int
  PROVE  AndByte(a, b) \in Int
<1>1. \A x, y \in Int : AndPair(x, y) \in Int
  <2> SUFFICES ASSUME NEW x \in Int, NEW y \in Int PROVE AndPair(x, y) \in Int
    OBVIOUS
  <2>1. /\ x % 2 \in Int /\ y % 2 \in Int /\ x \div 2 \in Int /\ y \div 2 \in Int
    OBVIOUS
  <2>2. (x \div 2) % 2 \in Int /\ (y \div 2) % 2 \in Int
    BY <2>1
  <2> QED
    BY <2>1, <2>2 DEF AndPair
<1>2. \A x, y \in Int : AndNibble(x, y) \in Int
  <2> SUFFICES ASSUME NEW x \in Int, NEW y \in Int PROVE AndNibble(x, y) \in Int
    OBVIOUS
  <2>1. x \div 4 \in Int /\ y \div 4 \in Int
    OBVIOUS
  <2>2. AndPair(x, y) \in Int /\ AndPair(x \div 4, y \div 4) \in Int
    BY <1>1, <2>1
  <2> QED
    BY <2>2 DEF AndNibble
<1>3. a \div 16 \in Int /\ b \div 16 \in Int
  OBVIOUS
<1>4. AndNibble(a, b) \in Int /\ AndNibble(a \div 16, b \div 16) \in Int
  BY <1>2, <1>3
<1> QED
  BY <1>4 DEF AndByte

LEMMA BitAndInt ==
  ASSUME NEW a \in Int, NEW b \in Int
  PROVE  BitAnd(a, b) \in Int
<1> DEFINE m == [i \in 0 .. 7 |-> AndByte(ByteOf(a, i), ByteOf(b, i))]
<1>1. \A i \in 0 .. 7 : m[i] \in Int
  BY ByteOfType, AndByteInt, WordInt
<1>2. U8(m, 0) \in Int
  <2> HIDE DEF m
  <2> QED
    BY <1>1, U8Int
<1> QED
  BY <1>2, SignedInt, HalvesPositive DEF BitAnd

LEMMA QuotientInt ==
  ASSUME NEW a \in Int, NEW b \in Int, b # 0
  PROVE  Quotient(a, b) \in Int /\ Remainder(a, b) \in Int
<1>1. Abs(a) \in Int /\ Abs(b) \in Nat \ {0}
  BY DEF Abs
<1>2. Abs(a) \div Abs(b) \in Int
  BY <1>1, DivInt
<1>3. Quotient(a, b) \in Int
  BY <1>2 DEF Quotient
<1> QED
  BY <1>3 DEF Remainder

(* Arithmetic that does not trap leaves a word.                            *)
LEMMA AluInWord ==
  ASSUME NEW op \in ArithOps, NEW a \in Int, NEW b \in Int, ~Traps(op, b)
  PROVE  Alu(op, a, b) \in Word
<1>1. \A p : Bool(p) \in Word
  BY WordInt DEF Bool
<1>2. BitAnd(a, b) \in Int
  BY BitAndInt
<1>3. CASE op \in {"div", "mod"}
  <2>1. b # 0
    BY <1>3 DEF Traps
  <2>2. Wrap(Quotient(a, b)) \in Word /\ Wrap(Remainder(a, b)) \in Word
    BY <2>1, QuotientInt, WrapInWord
  <2> QED
    BY <1>3, <2>2 DEF Alu
<1>4. CASE op \in {"add", "sub", "mul"}
  <2>1. a + b \in Int /\ a - b \in Int /\ a * b \in Int
    OBVIOUS
  <2>2. Wrap(a + b) \in Word /\ Wrap(a - b) \in Word /\ Wrap(a * b) \in Word
    BY <2>1, WrapInWord
  <2> QED
    BY <1>4, <2>2 DEF Alu
<1>5. CASE op \in {"and", "or", "xor"}
  <2>1. a + b - BitAnd(a, b) \in Int /\ a + b - 2 * BitAnd(a, b) \in Int
    BY <1>2
  <2>2. /\ Wrap(BitAnd(a, b)) \in Word /\ Wrap(a + b - BitAnd(a, b)) \in Word
        /\ Wrap(a + b - 2 * BitAnd(a, b)) \in Word
    BY <1>2, <2>1, WrapInWord
  <2> QED
    BY <1>5, <2>2 DEF Alu
<1>6. CASE op \in {"gr", "ls", "gre", "lse", "eq", "neq", "not"}
  BY <1>1, <1>6 DEF Alu
<1> QED
  BY <1>3, <1>4, <1>5, <1>6 DEF ArithOps

-----------------------------------------------------------------------------
(***************************************************************************)
(* Conversions to size_t and off_t.                                        *)
(***************************************************************************)
OffT == -AddrHalf .. AddrHalf - 1

LEMMA AddrFacts ==
  /\ AddrHalf \in Nat \ {0} /\ 2 * AddrHalf \in Nat \ {0}
  /\ 8 <= AddrHalf /\ AddrHalf <= Half8
  /\ \E k \in Nat : 2 * Half8 = k * (2 * AddrHalf)
<1>1. CASE AddrHalf = Half8
  <2>1. 2 * Half8 = 1 * (2 * Half8) /\ 1 \in Nat
    BY HalvesPositive
  <2> QED
    BY <1>1, <2>1, HalvesPositive
<1>2. CASE AddrHalf = Half4
  <2>1. 2 * Half8 = (2 * Half4) * (2 * Half4) /\ 2 * Half4 \in Nat
    BY HalvesPositive DEF Half8
  <2>2. \E k \in Nat : 2 * Half8 = k * (2 * AddrHalf)
    BY <1>2, <2>1
  <2> QED
    BY <1>2, <2>2, HalvesPositive
<1> QED
  BY <1>1, <1>2, AddrAssumption

LEMMA OffsetRange ==
  ASSUME NEW x \in Int
  PROVE  Offset(x) \in OffT /\ Offset(x) \in Int
<1>1. Size(x) \in 0 .. 2 * AddrHalf - 1
  BY AddrFacts, ModRange DEF Size
<1> QED
  BY <1>1, AddrFacts DEF Offset, Signed, OffT

(* What fits keeps its value; a small negative number wraps around.        *)
LEMMA SizeOf ==
  ASSUME NEW x \in -(2 * AddrHalf) .. 2 * AddrHalf - 1
  PROVE  Size(x) = IF x < 0 THEN x + 2 * AddrHalf ELSE x
<1> DEFINE m == 2 * AddrHalf
<1>1. m \in Nat \ {0}
  BY AddrFacts
<1>2. CASE x < 0
  <2>1. x + m \in 0 .. m - 1 /\ x = (-1) * m + (x + m)
    BY <1>1, <1>2
  <2>2. ((-1) * m + (x + m)) % m = x + m
    BY <1>1, <2>1, ModUnique
  <2> QED
    BY <1>2, <2>1, <2>2 DEF Size
<1>3. CASE x >= 0
  <2>1. x \in 0 .. m - 1 /\ x = 0 * m + x
    BY <1>1, <1>3
  <2>2. (0 * m + x) % m = x
    BY <1>1, <2>1, ModUnique
  <2> QED
    BY <1>3, <2>1, <2>2 DEF Size
<1> QED
  BY <1>2, <1>3, AddrFacts

LEMMA OffsetSmall ==
  ASSUME NEW o \in OffT
  PROVE  Offset(o) = o
<1>1. Size(o) = IF o < 0 THEN o + 2 * AddrHalf ELSE o
  BY AddrFacts, SizeOf DEF OffT
<1> QED
  BY <1>1, AddrFacts DEF Offset, Signed, OffT

LEMMA OffsetShift ==
  ASSUME NEW x \in Int, NEW k \in Int
  PROVE  Offset(x + k * (2 * AddrHalf)) = Offset(x)
<1>1. Size(x + k * (2 * AddrHalf)) = Size(x)
  BY AddrFacts, ModShift DEF Size
<1> QED
  BY <1>1 DEF Offset

(* An offset differs from what it is made of by a multiple of 2^32.        *)
LEMMA OffsetPart ==
  ASSUME NEW x \in Int
  PROVE  \E j \in Int : Offset(x) = x + j * (2 * AddrHalf)
<1>1. PICK k \in Int : Size(x) = x + k * (2 * AddrHalf)
  BY AddrFacts, ModPart DEF Size
<1>2. Size(x) - 2 * AddrHalf = x + (k - 1) * (2 * AddrHalf) /\ k - 1 \in Int
  BY <1>1, AddrFacts
<1>3. Offset(x) = Size(x) \/ Offset(x) = Size(x) - 2 * AddrHalf
  BY DEF Offset, Signed
<1> QED
  BY <1>1, <1>2, <1>3

(* Below the top of the range, the offset of the next command is 4 more.   *)
LEMMA OffsetNext ==
  ASSUME NEW x \in Int, Offset(x) + 4 < AddrHalf
  PROVE  Offset(x + 4) = Offset(x) + 4
<1>1. PICK j \in Int : Offset(x) = x + j * (2 * AddrHalf)
  BY OffsetPart
<1>2. Offset(x) + 4 \in OffT
  BY OffsetRange, AddrFacts DEF OffT
<1>3. Offset(x) + 4 = (x + 4) + j * (2 * AddrHalf)
  BY <1>1, AddrFacts
<1>4. Offset((x + 4) + j * (2 * AddrHalf)) = Offset(x + 4)
  BY OffsetShift
<1> QED
  BY <1>2, <1>3, <1>4, OffsetSmall

(* The wrap of a register does not show in an offset.                      *)
LEMMA OffsetOfWrap ==
  ASSUME NEW x \in Int, NEW y \in Int
  PROVE  Offset(Wrap(x) + y) = Offset(x + y)
<1>1. CASE x \in Word
  BY <1>1 DEF Wrap
<1>2. CASE x \notin Word
  <2> DEFINE m == 2 * Half8
  <2>1. m \in Nat \ {0}
    BY HalvesPositive
  <2>2. PICK k \in Int : x % m = x + k * m
    BY <2>1, ModPart
  <2>3. Wrap(x) = x % m \/ Wrap(x) = (x % m) - m
    BY <1>2 DEF Wrap, Signed
  <2>4. PICK j \in Int : Wrap(x) = x + j * m
    <3>1. (x % m) - m = x + (k - 1) * m /\ k - 1 \in Int
      BY <2>1, <2>2
    <3> QED
      BY <2>2, <2>3, <3>1
  <2>5. PICK q \in Nat : m = q * (2 * AddrHalf)
    BY AddrFacts
  <2> HIDE DEF m
  <2>6. j * m = (j * q) * (2 * AddrHalf) /\ j * q \in Int
    BY <2>5, AddrFacts
  <2>7. Wrap(x) + y = (x + y) + (j * q) * (2 * AddrHalf)
    BY <2>4, <2>6, AddrFacts
  <2>8. x + y \in Int
    OBVIOUS
  <2> QED
    BY <2>6, <2>7, <2>8, OffsetShift
<1> QED
  BY <1>1, <1>2

(* A store leaves every byte of a segment a byte.                          *)
LEMMA SetCellType ==
  ASSUME NEW D, NEW m \in [D -> ByteVal], NEW o \in Int, NEW n \in {1, 2, 4, 8},
         NEW v \in Int
  PROVE  SetCell(m, o, n, v) \in [D -> ByteVal]
<1>1. \A a \in D : a \in o .. o + n - 1 => ByteOf(v, a - o) \in ByteVal
  <2> SUFFICES ASSUME NEW a \in D, a \in o .. o + n - 1
               PROVE  ByteOf(v, a - o) \in ByteVal
    OBVIOUS
  <2>1. a - o \in 0 .. 7
    OBVIOUS
  <2> QED
    BY <2>1, ByteOfType
<1> QED
  BY <1>1 DEF SetCell

-----------------------------------------------------------------------------
(***************************************************************************)
(* Cells: what is read back is what was stored.                            *)
(***************************************************************************)
(* The next digit of a number in base b: p is the weight of that digit.    *)
LEMMA DigitStep ==
  ASSUME NEW w \in Nat, NEW p \in Nat \ {0}, NEW b \in Nat \ {0}
  PROVE  w % (p * b) = (w % p) + p * ((w \div p) % b)
<1> DEFINE q == w \div p
           r == w % p
           t == q \div b
           d == q % b
<1>1. q \in Int /\ r \in 0 .. p - 1 /\ w = p * q + r
  OBVIOUS
<1> HIDE DEF q, r
<1>2. t \in Int /\ d \in 0 .. b - 1 /\ q = b * t + d
  BY <1>1
<1> HIDE DEF t, d
<1>3. p * b \in Nat \ {0}
  OBVIOUS
<1>4. w = t * (p * b) + (r + p * d)
  <2>1. p * q = p * (b * t) + p * d
    BY <1>1, <1>2
  <2>2. p * (b * t) = t * (p * b)
    BY <1>2
  <2> QED
    BY <1>1, <1>2, <2>1, <2>2
<1>5. r + p * d \in 0 .. p * b - 1
  <2>1. p * d <= p * (b - 1) /\ p * d >= 0 /\ p * d \in Int
    BY <1>2
  <2>2. p * (b - 1) = p * b - p
    OBVIOUS
  <2> QED
    BY <1>1, <1>3, <2>1, <2>2
<1>6. (t * (p * b) + (r + p * d)) % (p * b) = r + p * d
  BY <1>2, <1>3, <1>5, ModUnique
<1> QED
  BY <1>4, <1>6 DEF q, r, d

(* The weights of the bytes, each Base times the one before.               *)
LEMMA Weights ==
  /\ 2 * Half1 = Base /\ 2 * Half2 = Base * Base
  /\ 2 * Half4 = (2 * Half2 * Base) * Base /\ 2 * Half4 = (2 * Half2) * (2 * Half2)
  /\ 2 * Half8 = (2 * Half4) * (2 * Half4)
  /\ Base \in Nat \ {0} /\ 2 * Half2 \in Nat \ {0} /\ 2 * Half2 * Base \in Nat \ {0}
  /\ 2 * Half4 \in Nat \ {0} /\ 2 * Half8 \in Nat \ {0}
<1>1. /\ Half1 \in Nat \ {0} /\ Half2 \in Nat \ {0} /\ Half4 \in Nat \ {0} /\ Half8 \in Nat \ {0}
      /\ Base \in Nat \ {0} /\ 2 * Half1 = Base
  BY HalvesPositive, BasePositive DEF Half1, Base
<1>2. 2 * Half2 = Base * Base
  BY <1>1 DEF Half2
<1>3. 2 * Half4 = (2 * Half2) * (2 * Half2)
  BY <1>1 DEF Half4
<1>4. 2 * Half8 = (2 * Half4) * (2 * Half4)
  BY <1>1 DEF Half8
<1>5. (2 * Half2) * (Base * Base) = (2 * Half2 * Base) * Base
  BY <1>1
<1>6. 2 * Half2 * Base \in Nat \ {0}
  BY <1>1
<1> QED
  BY <1>1, <1>2, <1>3, <1>4, <1>5, <1>6

(* The bytes of a long, and of its upper half.                             *)
LEMMA LongDigits ==
  ASSUME NEW w \in Nat
  PROVE  /\ w % (2 * Half2) = (w % Base) + Base * ((w \div Base) % Base)
         /\ w % (2 * Half4) =
              ((w % Base) + Base * ((w \div Base) % Base))
              + 2 * Half2 * (((w \div (2 * Half2)) % Base)
                             + Base * ((w \div (2 * Half2 * Base)) % Base))
<1> DEFINE c == 2 * Half2
           e == 2 * Half2 * Base
           d1 == (w \div Base) % Base
           d2 == (w \div c) % Base
           d3 == (w \div e) % Base
<1>1. /\ Base \in Nat \ {0} /\ c \in Nat \ {0} /\ e \in Nat \ {0}
      /\ c = Base * Base /\ e = c * Base /\ 2 * Half4 = e * Base
  BY Weights
<1> HIDE DEF c, e
<1>d. \A p \in Nat \ {0} : w % (p * Base) = (w % p) + p * ((w \div p) % Base)
  <2>1. Base \in Nat \ {0}
    BY <1>1
  <2> QED
    BY <2>1, DigitStep
<1>2. w % c = (w % Base) + Base * d1
  BY <1>1, <1>d, Zenon
<1>3. w % e = (w % c) + c * d2
  BY <1>1, <1>d, Zenon
<1>4. w % (2 * Half4) = (w % e) + e * d3
  <2>1. w % (e * Base) = (w % e) + e * d3
    BY <1>1, <1>d, Zenon
  <2>2. w % (2 * Half4) = w % (e * Base)
    BY <1>1, Zenon
  <2> QED
    BY <2>1, <2>2, Zenon
<1>5. d2 \in Int /\ d3 \in Int /\ w % Base \in Int /\ Base * d1 \in Int
  <2>1. \A p \in Nat \ {0} : (w \div p) % Base \in Int
    BY <1>1, DivInt, ModRange
  <2> QED
    BY <1>1, <2>1
<1> HIDE DEF d1, d2, d3
<1>6. c * (d2 + Base * d3) = c * d2 + e * d3
  BY <1>1, <1>5
<1>7. w % (2 * Half4) = ((w % Base) + Base * d1) + (c * d2 + e * d3)
  <2>1. c * d2 \in Int /\ e * d3 \in Int
    BY <1>1, <1>5
  <2> QED
    BY <1>2, <1>3, <1>4, <1>5, <2>1
<1>8. w % (2 * Half4) = ((w % Base) + Base * d1) + c * (d2 + Base * d3)
  BY <1>6, <1>7
<1> QED
  BY <1>2, <1>8 DEF c, e, d1, d2, d3

(* The same of a quad.                                                     *)
LEMMA QuadDigits ==
  ASSUME NEW w \in Nat
  PROVE  w % (2 * Half8) =
           (w % (2 * Half4))
           + 2 * Half4 * ((((w \div (2 * Half4)) % Base)
                           + Base * ((w \div (2 * Half4 * Base)) % Base))
                          + 2 * Half2 * (((w \div (2 * Half4 * 2 * Half2)) % Base)
                             + Base * ((w \div (2 * Half4 * 2 * Half2 * Base)) % Base)))
<1> DEFINE b == Base
           c == 2 * Half2
           h == 2 * Half4
           p5 == 2 * Half4 * Base
           p6 == 2 * Half4 * 2 * Half2
           p7 == 2 * Half4 * 2 * Half2 * Base
           d4 == (w \div h) % b
           d5 == (w \div p5) % b
           d6 == (w \div p6) % b
           d7 == (w \div p7) % b
<1>1. b \in Nat \ {0} /\ c \in Nat \ {0} /\ h \in Nat \ {0} /\ c = b * b
  BY Weights
<1>2. p5 = h * b /\ p6 = h * c /\ p7 = p6 * b
  <2>1. Half4 \in Int /\ Half2 \in Int /\ Base \in Int
    BY HalvesPositive, BasePositive
  <2>2. p5 = h * b /\ p7 = p6 * b
    OBVIOUS
  <2>3. p6 = h * c
    BY <2>1
  <2> QED
    BY <2>2, <2>3
<1>3. 2 * Half8 = h * h /\ h = c * c
  BY Weights
<1> HIDE DEF b, c, h, p5, p6, p7
<1>4. p5 \in Nat \ {0} /\ p6 \in Nat \ {0} /\ p7 \in Nat \ {0}
  BY <1>1, <1>2
<1>5. p6 = p5 * b
  BY <1>1, <1>2
<1>6. h * h = p7 * b
  <2>1. h * (c * c) = (h * c) * (b * b)
    BY <1>1
  <2>2. (p6 * b) * b = p6 * (b * b)
    BY <1>1, <1>4
  <2> QED
    BY <1>2, <1>3, <2>1, <2>2
<1>7. w % (h * b) = (w % h) + h * d4 /\ w % (p5 * b) = (w % p5) + p5 * d5
      /\ w % (p6 * b) = (w % p6) + p6 * d6 /\ w % (p7 * b) = (w % p7) + p7 * d7
  <2>1. \A p \in Nat \ {0} : w % (p * b) = (w % p) + p * ((w \div p) % b)
    BY <1>1, DigitStep
  <2> QED
    BY <1>1, <1>4, <2>1, Zenon
<1>8. d4 \in Int /\ d5 \in Int /\ d6 \in Int /\ d7 \in Int /\ w % h \in Int
  <2>1. \A p \in Nat \ {0} : (w \div p) % b \in Int
    BY <1>1, DivInt, ModRange
  <2> QED
    BY <1>1, <1>4, <2>1
<1> HIDE DEF d4, d5, d6, d7
<1>9. w % (h * h) = ((((w % h) + h * d4) + p5 * d5) + p6 * d6) + p7 * d7
  <2>1. w % (p7 * b) = ((((w % h) + h * d4) + p5 * d5) + p6 * d6) + p7 * d7
    <3>1. w % p5 = (w % h) + h * d4
      BY <1>2, <1>7, Zenon
    <3>2. w % p6 = (w % p5) + p5 * d5
      BY <1>5, <1>7, Zenon
    <3>3. w % p7 = (w % p6) + p6 * d6
      BY <1>2, <1>7, Zenon
    <3> QED
      BY <1>7, <3>1, <3>2, <3>3, Zenon
  <2> QED
    BY <1>6, <2>1, Zenon
<1>10. p5 * d5 = h * (b * d5) /\ p6 * d6 = h * (c * d6) /\ p7 * d7 = h * (c * (b * d7))
  <2>1. p5 * d5 = h * (b * d5)
    BY <1>1, <1>2, <1>8
  <2>2. p6 * d6 = h * (c * d6)
    BY <1>1, <1>2, <1>8
  <2>3. p7 * d7 = h * (c * (b * d7))
    <3>1. p7 * d7 = p6 * (b * d7)
      BY <1>1, <1>2, <1>4, <1>8
    <3>2. \A x \in Int : (h * c) * x = h * (c * x)
      BY <1>1
    <3>3. b * d7 \in Int
      BY <1>1, <1>8
    <3> QED
      BY <1>2, <3>1, <3>2, <3>3
  <2> QED
    BY <2>1, <2>2, <2>3
<1>11. w % (h * h) = (w % h) + h * ((d4 + b * d5) + c * (d6 + b * d7))
  <2> DEFINE x5 == b * d5
             x7 == b * d7
             y6 == c * d6
             y7 == c * (b * d7)
  <2>1. x5 \in Int /\ y6 \in Int /\ x7 \in Int /\ y7 \in Int
    BY <1>1, <1>8
  <2>2. c * (d6 + b * d7) = y6 + y7
    <3> HIDE DEF x7
    <3>1. c * (d6 + x7) = c * d6 + c * x7
      BY <1>1, <1>8, <2>1
    <3> QED
      BY <3>1 DEF x7
  <2>3. w % (h * h) = ((((w % h) + h * d4) + h * x5) + h * y6) + h * y7
    BY <1>9, <1>10, Zenon
  <2> HIDE DEF x5, y6, y7
  <2>4. h * ((d4 + x5) + (y6 + y7)) = ((h * d4 + h * x5) + h * y6) + h * y7
    BY <1>1, <1>8, <2>1
  <2>5. h * d4 \in Int /\ h * x5 \in Int /\ h * y6 \in Int /\ h * y7 \in Int
    BY <1>1, <1>8, <2>1
  <2>6. w % (h * h) = (w % h) + h * ((d4 + x5) + (y6 + y7))
    BY <1>8, <2>3, <2>4, <2>5
  <2> QED
    BY <2>2, <2>6 DEF x5
<1> QED
  BY <1>3, <1>11, Zenon DEF b, c, h, p5, p6, p7, d4, d5, d6, d7

(* A stored word is the sum of its bytes, cut to the width of the cell.    *)
HalfOf(n) == CASE n = 1 -> Half1 [] n = 2 -> Half2 [] n = 4 -> Half4 [] n = 8 -> Half8

LEMMA CutTwice ==
  ASSUME NEW v \in Int
  PROVE  /\ v % (2 * Half8) \in Nat
         /\ \A n \in {1, 2, 4, 8} : (v % (2 * Half8)) % (2 * HalfOf(n)) = v % (2 * HalfOf(n))
<1>1. PICK k \in Int : v % (2 * Half8) = v + k * (2 * Half8)
  BY Weights, ModPart
<1>2. v % (2 * Half8) \in Nat
  <2> DEFINE m == 2 * Half8
  <2>1. m \in Nat \ {0}
    BY Weights
  <2> HIDE DEF m
  <2>2. v % m \in Nat
    BY <2>1
  <2> QED
    BY <2>2 DEF m
<1>3. \A n \in {1, 2, 4, 8} :
        2 * HalfOf(n) \in Nat \ {0} /\ \E q \in Int : 2 * Half8 = q * (2 * HalfOf(n))
  <2>1. 2 * Half8 = 1 * (2 * Half8) /\ 2 * Half8 \in Nat \ {0} /\ 1 \in Int
    BY Weights
  <2>2. 2 * Half8 = (2 * Half4) * (2 * Half4) /\ 2 * Half4 \in Nat \ {0} /\ 2 * Half4 \in Int
    BY Weights
  <2>3. /\ 2 * Half8 = (2 * Half4 * (2 * Half2)) * (2 * Half2) /\ 2 * Half2 \in Nat \ {0}
        /\ 2 * Half4 * (2 * Half2) \in Int
    <3> DEFINE h == 2 * Half4
               c == 2 * Half2
    <3>1. 2 * Half8 = h * h /\ h = c * c /\ c \in Nat \ {0} /\ h \in Int
      BY Weights
    <3> HIDE DEF h, c
    <3>2. h * (c * c) = (h * c) * c /\ h * c \in Int
      BY <3>1
    <3>3. 2 * Half8 = (h * c) * c /\ h * c \in Int /\ c \in Nat \ {0}
      BY <3>1, <3>2
    <3> QED
      BY <3>3 DEF h, c
  <2>4. 2 * Half8 = (2 * Half4 * (2 * Half2) * Base) * (2 * Half1) /\ 2 * Half1 \in Nat \ {0}
        /\ 2 * Half4 * (2 * Half2) * Base \in Int
    <3> DEFINE h == 2 * Half4
               c == 2 * Half2
               g == 2 * Half1
    <3>1. 2 * Half8 = (h * c) * c /\ c = Base * g /\ c \in Nat \ {0} /\ h \in Int /\ g = Base
          /\ Base \in Nat \ {0}
      BY <2>2, <2>3, Weights
    <3> HIDE DEF h, c, g
    <3>2. h * c \in Int
      BY <3>1
    <3>3. \A z \in Int : z * (Base * g) = (z * Base) * g /\ z * Base \in Int
      BY <3>1
    <3>4. 2 * Half8 = (h * c * Base) * g /\ h * c * Base \in Int /\ g \in Nat \ {0}
      BY <3>1, <3>2, <3>3
    <3> QED
      BY <3>4 DEF h, c, g
  <2> QED
    BY <2>1, <2>2, <2>3, <2>4 DEF HalfOf
<1>4. ASSUME NEW n \in {1, 2, 4, 8}
      PROVE  (v % (2 * Half8)) % (2 * HalfOf(n)) = v % (2 * HalfOf(n))
  <2> DEFINE m == 2 * HalfOf(n)
             big == 2 * Half8
  <2>1. m \in Nat \ {0}
    BY <1>3
  <2>2. PICK q \in Int : big = q * m
    BY <1>3
  <2> HIDE DEF m, big
  <2>3. v % big = v + (k * q) * m /\ k * q \in Int
    <3>1. v % big = v + k * big
      BY <1>1 DEF big
    <3> QED
      BY <2>1, <2>2, <3>1
  <2>4. (v + (k * q) * m) % m = v % m
    BY <2>1, <2>3, ModShift
  <2> QED
    BY <2>3, <2>4 DEF m, big
<1> QED
  BY <1>2, <1>4

(* What is read back is what was stored, cut to the width of the cell and  *)
(* sign-extended from it.                                                  *)
LEMMA StoredCell ==
  ASSUME NEW m, NEW o \in Int, NEW n \in {1, 2, 4, 8}, NEW v \in Int,
         \A a \in o .. o + n - 1 : a \in DOMAIN m
  PROVE  GetCell(SetCell(m, o, n, v), o, n) = Signed(v % (2 * HalfOf(n)), HalfOf(n))
<1> DEFINE f == SetCell(m, o, n, v)
           w == v % (2 * Half8)
<1>1. \A i \in 0 .. n - 1 : f[o + i] = ByteOf(v, i)
  <2> SUFFICES ASSUME NEW i \in 0 .. n - 1 PROVE f[o + i] = ByteOf(v, i)
    OBVIOUS
  <2>1. o + i \in o .. o + n - 1 /\ (o + i) - o = i
    OBVIOUS
  <2> QED
    BY <2>1 DEF SetCell
<1>2. w \in Nat /\ w % (2 * HalfOf(n)) = v % (2 * HalfOf(n))
  BY CutTwice
<1>3. /\ ByteOf(v, 0) = w % Base
      /\ ByteOf(v, 1) = (w \div Base) % Base
      /\ ByteOf(v, 2) = (w \div (2 * Half2)) % Base
      /\ ByteOf(v, 3) = (w \div (2 * Half2 * Base)) % Base
      /\ ByteOf(v, 4) = (w \div (2 * Half4)) % Base
      /\ ByteOf(v, 5) = (w \div (2 * Half4 * Base)) % Base
      /\ ByteOf(v, 6) = (w \div (2 * Half4 * 2 * Half2)) % Base
      /\ ByteOf(v, 7) = (w \div (2 * Half4 * 2 * Half2 * Base)) % Base
  <2>1. w \div 1 = w
    BY <1>2
  <2> HIDE DEF w
  <2>2. \A i \in 0 .. 7 : ByteOf(v, i) = (w \div Place[i + 1]) % Base
    BY DEF ByteOf, w
  <2>3. /\ Place[0 + 1] = 1 /\ Place[1 + 1] = Base /\ Place[2 + 1] = 2 * Half2
        /\ Place[3 + 1] = 2 * Half2 * Base /\ Place[4 + 1] = 2 * Half4
        /\ Place[5 + 1] = 2 * Half4 * Base /\ Place[6 + 1] = 2 * Half4 * 2 * Half2
        /\ Place[7 + 1] = 2 * Half4 * 2 * Half2 * Base
    BY DEF Place
  <2>4. 0 \in 0 .. 7 /\ 1 \in 0 .. 7 /\ 2 \in 0 .. 7 /\ 3 \in 0 .. 7 /\ 4 \in 0 .. 7
        /\ 5 \in 0 .. 7 /\ 6 \in 0 .. 7 /\ 7 \in 0 .. 7
    OBVIOUS
  <2> QED
    BY <2>1, <2>2, <2>3, <2>4, Zenon
<1> HIDE DEF f, w
<1>4. CASE n = 1
  <2>1. f[o] = ByteOf(v, 0)
    BY <1>1, <1>4
  <2>2. 2 * HalfOf(1) = Base /\ HalfOf(1) = Half1
    BY Weights DEF HalfOf
  <2>3. f[o] = v % (2 * HalfOf(1))
    BY <1>2, <1>3, <1>4, <2>1, <2>2, Zenon
  <2> QED
    BY <1>4, <2>2, <2>3 DEF GetCell, f
<1>5. CASE n = 2
  <2>1. f[o] = ByteOf(v, 0) /\ f[o + 1] = ByteOf(v, 1)
    BY <1>1, <1>5
  <2>2. HalfOf(2) = Half2
    BY DEF HalfOf
  <2>3. U2(f, o) = w % (2 * Half2)
    BY <1>2, <1>3, <2>1, LongDigits, Zenon DEF U2
  <2>4. U2(f, o) = v % (2 * HalfOf(2))
    BY <1>2, <1>5, <2>2, <2>3, Zenon
  <2> QED
    BY <1>5, <2>2, <2>4 DEF GetCell, f
<1>6. ASSUME n \in {4, 8}
      PROVE  U4(f, o) = w % (2 * Half4)
  <2>1. /\ f[o] = ByteOf(v, 0) /\ f[o + 1] = ByteOf(v, 1)
        /\ f[o + 2] = ByteOf(v, 2) /\ f[(o + 2) + 1] = ByteOf(v, 3)
    <3>1. (o + 2) + 1 = o + 3 /\ o + 0 = o
      OBVIOUS
    <3>2. f[o + 0] = ByteOf(v, 0) /\ f[o + 1] = ByteOf(v, 1)
          /\ f[o + 2] = ByteOf(v, 2) /\ f[o + 3] = ByteOf(v, 3)
      BY <1>1, <1>6
    <3> QED
      BY <3>1, <3>2, Zenon
  <2>2. /\ U2(f, o) = (w % Base) + Base * ((w \div Base) % Base)
        /\ U2(f, o + 2) = ((w \div (2 * Half2)) % Base)
                          + Base * ((w \div (2 * Half2 * Base)) % Base)
    BY <1>3, <2>1, Zenon DEF U2
  <2> QED
    BY <1>2, <2>2, LongDigits, Zenon DEF U4
<1>7. CASE n = 4
  <2>1. HalfOf(4) = Half4
    BY DEF HalfOf
  <2>2. U4(f, o) = v % (2 * HalfOf(4))
    BY <1>2, <1>6, <1>7, <2>1
  <2> QED
    BY <1>7, <2>1, <2>2 DEF GetCell, f
<1>8. CASE n = 8
  <2>1. /\ f[o + 4] = ByteOf(v, 4) /\ f[(o + 4) + 1] = ByteOf(v, 5)
        /\ f[(o + 4) + 2] = ByteOf(v, 6) /\ f[((o + 4) + 2) + 1] = ByteOf(v, 7)
    <3>1. (o + 4) + 1 = o + 5 /\ (o + 4) + 2 = o + 6 /\ ((o + 4) + 2) + 1 = o + 7
      OBVIOUS
    <3>2. f[o + 4] = ByteOf(v, 4) /\ f[o + 5] = ByteOf(v, 5)
          /\ f[o + 6] = ByteOf(v, 6) /\ f[o + 7] = ByteOf(v, 7)
      BY <1>1, <1>8
    <3>3. f[(o + 4) + 1] = f[o + 5] /\ f[(o + 4) + 2] = f[o + 6]
          /\ f[((o + 4) + 2) + 1] = f[o + 7]
      BY <3>1, Zenon
    <3> QED
      BY <3>2, <3>3, Zenon
  <2>2. /\ U2(f, o + 4) = ((w \div (2 * Half4)) % Base)
                          + Base * ((w \div (2 * Half4 * Base)) % Base)
        /\ U2(f, (o + 4) + 2) = ((w \div (2 * Half4 * 2 * Half2)) % Base)
                                + Base * ((w \div (2 * Half4 * 2 * Half2 * Base)) % Base)
    BY <1>3, <2>1, Zenon DEF U2
  <2>3. U8(f, o) = w % (2 * Half8)
    <3>1. U4(f, o) = w % (2 * Half4)
      BY <1>6, <1>8
    <3> QED
      BY <1>2, <2>2, <3>1, QuadDigits, Zenon DEF U4, U8
  <2>4. HalfOf(8) = Half8
    BY DEF HalfOf
  <2>5. U8(f, o) = v % (2 * HalfOf(8))
    BY <1>2, <1>8, <2>3, <2>4, Zenon
  <2> QED
    BY <1>8, <2>4, <2>5 DEF GetCell, f
<1> QED
  BY <1>4, <1>5, <1>7, <1>8

(* A load depends on the bytes of its cell alone.                          *)
LEMMA SameCell ==
  ASSUME NEW m, NEW f, NEW o \in Int, NEW n \in {1, 2, 4, 8},
         \A a \in o .. o + n - 1 : f[a] = m[a]
  PROVE  GetCell(f, o, n) = GetCell(m, o, n)
<1>1. f[o] = m[o]
  OBVIOUS
<1>2. n >= 2 => U2(f, o) = U2(m, o)
  BY <1>1 DEF U2
<1>3. n >= 4 => U4(f, o) = U4(m, o)
  <2> SUFFICES ASSUME n >= 4 PROVE U4(f, o) = U4(m, o)
    OBVIOUS
  <2>1. f[o + 2] = m[o + 2] /\ f[(o + 2) + 1] = m[(o + 2) + 1]
    OBVIOUS
  <2> QED
    BY <1>2, <2>1 DEF U4, U2
<1>4. n = 8 => U8(f, o) = U8(m, o)
  <2> SUFFICES ASSUME n = 8 PROVE U8(f, o) = U8(m, o)
    OBVIOUS
  <2>1. /\ f[o + 4] = m[o + 4] /\ f[(o + 4) + 1] = m[(o + 4) + 1]
        /\ f[(o + 4) + 2] = m[(o + 4) + 2] /\ f[((o + 4) + 2) + 1] = m[((o + 4) + 2) + 1]
    OBVIOUS
  <2>2. U2(f, o + 4) = U2(m, o + 4) /\ U2(f, (o + 4) + 2) = U2(m, (o + 4) + 2)
    BY <2>1, Zenon DEF U2
  <2>3. U4(f, o + 4) = U4(m, o + 4) 
    BY <2>2, Zenon DEF U4
  <2> QED
    BY <1>3, <2>3 DEF U8
<1> QED
  BY <1>1, <1>2, <1>3, <1>4 DEF GetCell

(* A word survives the conversion to unsigned and back.                    *)
LEMMA SignedOfWord ==
  ASSUME NEW x \in Word
  PROVE  Signed(x % (2 * Half8), Half8) = x
<1> DEFINE m == 2 * Half8
<1>1. m \in Nat \ {0} /\ Half8 \in Nat \ {0} /\ m = 2 * Half8 /\ x \in -Half8 .. Half8 - 1
  BY HalvesPositive DEF Word
<1> HIDE DEF m
<1>2. CASE x >= 0
  <2>1. (0 * m + x) % m = x
    BY <1>1, <1>2, ModUnique
  <2>2. 0 * m + x = x
    BY <1>1
  <2> QED
    BY <1>1, <2>1, <2>2 DEF Signed, m
<1>3. CASE x < 0
  <2>1. x + m \in 0 .. m - 1
    BY <1>1, <1>3
  <2>2. ((-1) * m + (x + m)) % m = x + m
    BY <1>1, <2>1, ModUnique
  <2>3. (-1) * m + (x + m) = x
    BY <1>1
  <2>4. x % m = x + m
    BY <2>2, <2>3
  <2> QED
    BY <1>1, <1>3, <2>4 DEF Signed, m
<1> QED
  BY <1>1, <1>2, <1>3

(* Cutting to a width and extending the sign again gives a value of that   *)
(* width which differs by a multiple of its modulus.                       *)
LEMMA SignedCut ==
  ASSUME NEW h \in Nat \ {0}, NEW y \in Int
  PROVE  /\ Signed(y % (2 * h), h) \in -h .. h - 1
         /\ (Signed(y % (2 * h), h) - y) % (2 * h) = 0
<1> DEFINE m == 2 * h
           v == Signed(y % m, h)
<1>1. m \in Nat \ {0} /\ m = 2 * h
  OBVIOUS
<1> HIDE DEF m
<1>2. y % m \in 0 .. m - 1
  BY <1>1, ModRange
<1>3. v \in -h .. h - 1 /\ (v = y % m \/ v = (y % m) - m)
  BY <1>1, <1>2 DEF Signed
<1>4. PICK k \in Int : y % m = y + k * m
  BY <1>1, ModPart
<1> HIDE DEF v
<1>5. v - y = k * m + 0 \/ v - y = (k - 1) * m + 0
  BY <1>1, <1>3, <1>4
<1>6. \A q \in Int : (q * m + 0) % m = 0
  <2>1. 0 \in 0 .. m - 1
    BY <1>1
  <2> QED
    BY <1>1, <2>1, ModUnique
<1>7. (v - y) % m = 0
  BY <1>5, <1>6
<1> QED
  BY <1>3, <1>7 DEF v, m

(* Four bytes make an unsigned long.                                       *)
LEMMA U4Range ==
  ASSUME NEW m, NEW o \in Int, \A a \in o .. o + 3 : m[a] \in ByteVal
  PROVE  U4(m, o) \in 0 .. 2 * Half4 - 1
<1> DEFINE c == 2 * Half2
<1>1. Base \in Nat \ {0} /\ c \in Nat \ {0} /\ c = Base * Base /\ 2 * Half4 = c * c
  BY Weights
<1>2. /\ m[o] \in 0 .. Base - 1 /\ m[o + 1] \in 0 .. Base - 1
      /\ m[o + 2] \in 0 .. Base - 1 /\ m[(o + 2) + 1] \in 0 .. Base - 1
  BY DEF ByteVal
<1>p. \A b \in Nat \ {0} : \A x, y \in 0 .. b - 1 : x + b * y \in 0 .. b * b - 1
  <2> SUFFICES ASSUME NEW b \in Nat \ {0}, NEW x \in 0 .. b - 1, NEW y \in 0 .. b - 1
               PROVE  x + b * y \in 0 .. b * b - 1
    OBVIOUS
  <2>1. b * y <= b * (b - 1) /\ b * y >= 0 /\ b * y \in Int
    OBVIOUS
  <2>2. b * (b - 1) = b * b - b /\ b * b \in Int
    OBVIOUS
  <2> QED
    BY <2>1, <2>2
<1> HIDE DEF c
<1>3. U2(m, o) \in 0 .. c - 1 /\ U2(m, o + 2) \in 0 .. c - 1
  BY <1>1, <1>2, <1>p DEF U2
<1>4. U2(m, o) + c * U2(m, o + 2) \in 0 .. c * c - 1
  BY <1>1, <1>3, <1>p
<1> QED
  BY <1>1, <1>4 DEF U4, c

(* A quad is its two longs, the upper one signed.                          *)
LEMMA QuadIsLongs ==
  ASSUME NEW m, NEW o \in Int, \A a \in o .. o + 7 : m[a] \in ByteVal
  PROVE  GetCell(m, o, 8) = GetCell(m, o + 4, 4) * (2 * Half4) + U4(m, o)
<1> DEFINE l == U4(m, o)
           u == U4(m, o + 4)
           h == Half4
<1>1. h \in Nat \ {0} /\ Half8 = 2 * h * h
  BY HalvesPositive DEF Half8
<1>2. l \in 0 .. 2 * h - 1 /\ u \in 0 .. 2 * h - 1
  <2>1. \A a \in o .. o + 3 : m[a] \in ByteVal
    OBVIOUS
  <2>2. o + 4 \in Int /\ \A a \in o + 4 .. (o + 4) + 3 : m[a] \in ByteVal
    OBVIOUS
  <2> QED
    BY <2>1, <2>2, U4Range
<1>3. GetCell(m, o, 8) = Signed(l + 2 * h * u, Half8) /\ GetCell(m, o + 4, 4) = Signed(u, h)
  BY DEF GetCell, U8
<1> HIDE DEF l, u, h
<1>4. CASE u < h
  <2>1. 2 * h * u <= 2 * h * (h - 1) /\ 2 * h * u >= 0 /\ 2 * h * u \in Int
    BY <1>1, <1>2, <1>4
  <2>2. 2 * h * (h - 1) = 2 * h * h - 2 * h /\ 2 * h * h \in Int
    BY <1>1
  <2>3. l + 2 * h * u < Half8
    BY <1>1, <1>2, <2>1, <2>2
  <2>4. u * (2 * h) = 2 * h * u
    BY <1>1, <1>2
  <2> QED
    BY <1>1, <1>2, <1>3, <1>4, <2>1, <2>3, <2>4 DEF Signed, l, h
<1>5. CASE u >= h
  <2>1. 2 * h * u >= 2 * h * h /\ 2 * h * u \in Int /\ 2 * h * h \in Int
    BY <1>1, <1>2, <1>5
  <2>2. ~(l + 2 * h * u < Half8)
    BY <1>1, <1>2, <2>1
  <2>3. (u - 2 * h) * (2 * h) = 2 * h * u - 2 * (2 * h * h)
    BY <1>1, <1>2
  <2>4. Signed(u, h) = u - 2 * h /\ Signed(l + 2 * h * u, Half8) = (l + 2 * h * u) - 2 * Half8
    BY <1>5, <1>1, <1>2, <2>2 DEF Signed
  <2> QED
    BY <1>1, <1>2, <1>3, <2>1, <2>3, <2>4 DEF l, h
<1> QED
  BY <1>1, <1>2, <1>4, <1>5

-----------------------------------------------------------------------------
(***************************************************************************)
(* Division.                                                               *)
(***************************************************************************)
(* The quotient of the magnitudes, and its sign and that of the remainder. *)
LEMMA Divided ==
  ASSUME NEW x \in Int, NEW y \in Int, y # 0
  PROVE  \E t \in Nat, s \in 0 .. Abs(y) - 1 :
           /\ Abs(x) = Abs(y) * t + s
           /\ Quotient(x, y) = IF (x < 0) = (y < 0) THEN t ELSE -t
           /\ Remainder(x, y) = IF x < 0 THEN -s ELSE s
<1> DEFINE a == Abs(x)
           b == Abs(y)
           t == a \div b
           s == a % b
<1>1. a \in Nat /\ b \in Nat \ {0} /\ a = (IF x < 0 THEN -x ELSE x) /\ b = (IF y < 0 THEN -y ELSE y)
  BY DEF Abs
<1>2. Quotient(x, y) = IF (x < 0) = (y < 0) THEN t ELSE -t
  BY DEF Quotient
<1> HIDE DEF a, b
<1>3. t \in Int /\ s \in 0 .. b - 1 /\ a = b * t + s
  <2>1. \A p \in Nat, q \in Nat \ {0} :
          p \div q \in Int /\ p % q \in 0 .. q - 1 /\ p = q * (p \div q) + (p % q)
    OBVIOUS
  <2> QED
    <3>1. a \in Nat /\ b \in Nat \ {0}
      BY <1>1
    <3> QED
      BY <2>1, <3>1, Zenon
<1> HIDE DEF t, s
<1>4. t \in Nat
  <2> SUFFICES ASSUME t <= -1 PROVE FALSE
    BY <1>3
  <2>1. b * t <= -b
    BY <1>1, <1>3
  <2> QED
    BY <1>1, <1>3, <2>1
<1>5. Remainder(x, y) = x - y * Quotient(x, y)
  BY DEF Remainder
<1>6. Remainder(x, y) = IF x < 0 THEN -s ELSE s
  <2>1. y * t = (IF y < 0 THEN -(b * t) ELSE b * t) /\ y * (-t) = (IF y < 0 THEN b * t ELSE -(b * t))
        /\ b * t \in Int
    BY <1>1, <1>3
  <2> QED
    BY <1>1, <1>2, <1>3, <1>5, <2>1
<1> QED
  BY <1>2, <1>3, <1>4, <1>6 DEF a, b

(* Neither result wraps, but for the quotient that traps or wraps anyway.  *)
LEMMA DividedFits ==
  ASSUME NEW x \in Word, NEW y \in Word, y # 0, ~(x = -Half8 /\ y = -1)
  PROVE  Quotient(x, y) \in Word /\ Remainder(x, y) \in Word
<1>1. x \in -Half8 .. Half8 - 1 /\ y \in -Half8 .. Half8 - 1 /\ Half8 \in Nat /\ Half8 >= 8
  BY HalvesPositive DEF Word
<1> DEFINE b == Abs(y)
<1>2. PICK t \in Nat, s \in 0 .. b - 1 :
           /\ Abs(x) = b * t + s
           /\ Quotient(x, y) = IF (x < 0) = (y < 0) THEN t ELSE -t
           /\ Remainder(x, y) = IF x < 0 THEN -s ELSE s
  BY <1>1, Divided
<1>3. b \in Nat \ {0} /\ b <= Half8 /\ b = (IF y < 0 THEN -y ELSE y)
  BY <1>1 DEF Abs
<1>4. Abs(x) \in Nat /\ Abs(x) <= Half8 /\ (x >= 0 => Abs(x) <= Half8 - 1)
      /\ (x # -Half8 => Abs(x) <= Half8 - 1)
  BY <1>1 DEF Abs
<1> HIDE DEF b
<1>5. b * t >= t /\ (b >= 2 => b * t >= 2 * t) /\ b * t \in Int
  BY <1>3
<1>6. t <= Half8 /\ (x # -Half8 => t <= Half8 - 1) /\ (b >= 2 => t <= Half8 - 1)
  BY <1>1, <1>2, <1>4, <1>5
<1>7. Quotient(x, y) \in -Half8 .. Half8 - 1
  BY <1>1, <1>2, <1>3, <1>6
<1>8. Remainder(x, y) \in -Half8 .. Half8 - 1
  BY <1>1, <1>2, <1>3
<1> QED
  BY <1>7, <1>8 DEF Word

(* Division truncates, and the remainder has the sign of the dividend.     *)
LEMMA DivisionIs ==
  ASSUME NEW x \in Word, NEW y \in Word, ~MayTrap("div", x, y)
  PROVE  /\ x = Alu("div", x, y) * y + Alu("mod", x, y)
         /\ Abs(Alu("mod", x, y)) < Abs(y)
         /\ Alu("mod", x, y) = 0 \/ (Alu("mod", x, y) < 0) = (x < 0)
<1>1. y # 0 /\ ~(x = -Half8 /\ y = -1) /\ x \in Int /\ y \in Int
  BY WordInt DEF MayTrap, Traps
<1>2. Quotient(x, y) \in Word /\ Remainder(x, y) \in Word
  BY <1>1, DividedFits
<1>3. Alu("div", x, y) = Quotient(x, y) /\ Alu("mod", x, y) = Remainder(x, y)
  BY <1>2 DEF Alu, Wrap
<1>4. PICK t \in Nat, s \in 0 .. Abs(y) - 1 :
        /\ Abs(x) = Abs(y) * t + s
        /\ Remainder(x, y) = IF x < 0 THEN -s ELSE s
  BY <1>1, Divided
<1>5. Quotient(x, y) \in Int /\ Remainder(x, y) = x - y * Quotient(x, y)
  BY <1>1, QuotientInt DEF Remainder
<1>6. x = Quotient(x, y) * y + Remainder(x, y)
  <2>1. Quotient(x, y) * y = y * Quotient(x, y) /\ y * Quotient(x, y) \in Int
    BY <1>1, <1>5
  <2> QED
    BY <1>1, <1>5, <2>1
<1>7. Abs(y) \in Nat
  BY <1>1 DEF Abs
<1>8. Abs(Remainder(x, y)) < Abs(y)
  <2>1. Abs(Remainder(x, y)) = s
    BY <1>1, <1>4, <1>7 DEF Abs
  <2> QED
    BY <1>4, <1>7, <2>1
<1>9. Remainder(x, y) = 0 \/ (Remainder(x, y) < 0) = (x < 0)
  BY <1>1, <1>4, <1>7
<1> QED
  BY <1>3, <1>6, <1>8, <1>9
=============================================================================
