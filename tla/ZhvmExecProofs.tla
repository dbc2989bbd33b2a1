--------------------------- MODULE ZhvmExecProofs ---------------------------
(***************************************************************************)
(* Theorems about ZhvmExec and ZhvmBurst for every word size, segment size,*)
(* register set, set of programs and size of cache.                        *)
(***************************************************************************)
EXTENDS ZhvmBurst, ZhvmWordProofs

-----------------------------------------------------------------------------
(***************************************************************************)
(* Registers, addresses and outcomes.                                      *)
(***************************************************************************)
LEMMA RegFacts == RZ \in Reg /\ RA \in Reg /\ RP \in Reg /\ RP # RZ /\ RA # RZ /\ RA # RP
BY RegAssumption DEF RZ, RA, RP

LEMMA SetRegType ==
  ASSUME NEW r \in Registers, NEW x \in Reg, NEW v \in Word
  PROVE  SetReg(r, x, v) \in Registers
BY RegFacts DEF SetReg, Registers

LEMMA GetWord ==
  ASSUME NEW r \in Registers, NEW x \in Reg
  PROVE  r[x] \in Word /\ r[x] \in Int
BY WordInt DEF Registers

LEMMA RanType ==
  ASSUME NEW r \in Registers, NEW w \in SUBSET Reg, Ran(r, w)
  PROVE  regs' \in Registers /\ sflag' \subseteq Reg /\ status' \in Status
<1>1. RP \in Reg /\ r[RP] \in Int
  BY RegFacts, GetWord
<1>2. Wrap(r[RP] + 4) \in Word
  BY <1>1, WrapInWord
<1>3. SetReg(r, RP, Wrap(r[RP] + 4)) \in Registers
  BY <1>1, <1>2, SetRegType
<1> QED
  BY <1>1, <1>3 DEF Ran, Status

LEMMA StopType ==
  ASSUME NEW r \in Registers, NEW w \in SUBSET Reg, NEW k \in Status, Stop(k, r, w)
  PROVE  regs' \in Registers /\ sflag' \subseteq Reg /\ status' \in Status
BY DEF Stop

(* The bounds check of the code and of the data, wrap-around included, is  *)
(* membership in the addresses the model gives the segments.               *)
LEMMA CodeOkIsCodeAddr ==
  ASSUME NEW o \in OffT
  PROVE  CodeOk(o) <=> o \in CodeAddr
<1>1. o + 4 \in -(2 * AddrHalf) .. 2 * AddrHalf - 1
  BY AddrFacts DEF OffT
<1>2. Size(o + 4) = IF o + 4 < 0 THEN o + 4 + 2 * AddrHalf ELSE o + 4
  BY <1>1, SizeOf
<1> QED
  BY <1>2, SizeAssumption, AddrFacts DEF CodeOk, CodeAddr, OffT

LEMMA DataOkIsInside ==
  ASSUME NEW o \in OffT, NEW n \in 1 .. 8
  PROVE  DataOk(o, n) <=> o \in -n .. DSize - n - 1
<1>1. o + n \in -(2 * AddrHalf) .. 2 * AddrHalf - 1
  BY AddrFacts DEF OffT
<1>2. Size(o + n) = IF o + n < 0 THEN o + n + 2 * AddrHalf ELSE o + n
  BY <1>1, SizeOf
<1> QED
  BY <1>2, SizeAssumption, AddrFacts DEF DataOk, OffT

LEMMA DataOkInDataAddr ==
  ASSUME NEW o \in OffT, NEW n \in 1 .. 8, DataOk(o, n)
  PROVE  \A a \in o .. o + n - 1 : a \in DataAddr
BY DataOkIsInside, AddrFacts, SizeAssumption DEF DataAddr, OffT

LEMMA LoadInt ==
  ASSUME NEW m \in [DataAddr -> ByteVal], NEW o \in OffT, NEW n \in {1, 2, 4, 8},
         DataOk(o, n)
  PROVE  GetCell(m, o, n) \in Int
<1>1. n \in 1 .. 8 /\ o \in Int
  BY AddrFacts DEF OffT
<1>2. \A a \in o .. o + n - 1 : m[a] \in Int
  BY <1>1, DataOkInDataAddr, WordInt
<1> QED
  BY <1>1, <1>2, CellInt

LEMMA CommandFields ==
  ASSUME NEW c \in Command
  PROVE  c.opc \in Opcodes /\ c.dst \in Reg /\ c.s0 \in Reg /\ c.s1 \in Reg /\ c.imm \in Int
<1>1. c.opc \in Opcodes /\ c.dst \in Reg /\ c.s0 \in Reg /\ c.s1 \in Reg /\ c.imm \in ImmVal
  BY DEF Command
<1>2. ImmVal \subseteq Int
  BY DEF ImmVal
<1> QED
  BY <1>1, <1>2

LEMMA OperandWord ==
  ASSUME NEW r \in Registers, NEW c \in Command
  PROVE  Operand(r, c) \in Word
<1>1. c.s1 \in Reg /\ c.imm \in Int
  BY CommandFields
<1>2. r[c.s1] + c.imm \in Int
  BY <1>1, GetWord
<1> QED
  BY <1>2, WrapInWord DEF Operand

-----------------------------------------------------------------------------
(***************************************************************************)
(* Type correctness, one lemma per group of instructions.                  *)
(***************************************************************************)
Shape ==
  /\ regs' \in Registers
  /\ sflag' \subseteq Reg
  /\ ddata' \in [DataAddr -> ByteVal]
  /\ status' \in Status
  /\ console' \in {<< >>} \cup [1 .. 1 -> Word]

LEMMA SilentType ==
  ASSUME VMTypeOK, Silent
  PROVE  ddata' \in [DataAddr -> ByteVal] /\ console' \in {<< >>} \cup [1 .. 1 -> Word]
BY DEF VMTypeOK, Silent

LEMMA StoppingType ==
  ASSUME VMTypeOK, NEW c \in Command,
         \/ Hlt(c) \/ Reserved(c) \/ Trap(c) \/ AccessFault(c) \/ Wild(c) \/ CallNone(c)
  PROVE  Shape
<1>1. regs \in Registers /\ {} \subseteq Reg
  BY DEF VMTypeOK
<1>2. /\ Silent
      /\ \E k \in Status : Stop(k, regs, {})
  BY DEF Hlt, Reserved, Trap, AccessFault, Wild, CallNone, Status
<1>3. regs' \in Registers /\ sflag' \subseteq Reg /\ status' \in Status
  BY <1>1, <1>2, StopType
<1> QED
  BY <1>2, <1>3, SilentType DEF Shape

LEMMA ArithType ==
  ASSUME VMTypeOK, NEW c \in Command, Arith(c) \/ CondMove(c) \/ Nop(c)
  PROVE  Shape
<1>1. regs \in Registers /\ c.dst \in Reg /\ c.s0 \in Reg
  BY CommandFields DEF VMTypeOK
<1>2. Operand(regs, c) \in Word /\ regs[c.s0] \in Word
  BY <1>1, OperandWord, GetWord
<1>3. CASE Arith(c)
  <2> DEFINE v == Alu(c.opc, regs[c.s0], Operand(regs, c))
  <2>1. v \in Word
    BY <1>2, <1>3, AluInWord, WordInt DEF Arith
  <2>2. SetReg(regs, c.dst, v) \in Registers
    BY <1>1, <2>1, SetRegType
  <2>3. Ran(SetReg(regs, c.dst, v), {c.dst}) /\ Silent
    BY <1>3 DEF Arith
  <2> HIDE DEF v
  <2> QED
    BY <1>1, <2>2, <2>3, RanType, SilentType DEF Shape
<1>4. CASE CondMove(c)
  <2>1. SetReg(regs, c.dst, Operand(regs, c)) \in Registers
    BY <1>1, <1>2, SetRegType
  <2>2. /\ Silent
        /\ \/ Ran(SetReg(regs, c.dst, Operand(regs, c)), {c.dst})
           \/ Ran(regs, {})
    BY <1>4 DEF CondMove
  <2> QED
    BY <1>1, <2>1, <2>2, RanType, SilentType DEF Shape
<1>5. CASE Nop(c)
  BY <1>1, <1>5, RanType, SilentType DEF Shape, Nop
<1> QED
  BY <1>3, <1>4, <1>5

LEMMA MemoryType ==
  ASSUME VMTypeOK, NEW c \in Command, Load(c) \/ Store(c)
  PROVE  Shape
<1> DEFINE n == Width(c.opc)
<1>1. /\ regs \in Registers /\ ddata \in [DataAddr -> ByteVal]
      /\ c.dst \in Reg /\ c.s0 \in Reg /\ c.s1 \in Reg /\ c.imm \in Int
  BY CommandFields DEF VMTypeOK
<1>2. n \in {1, 2, 4, 8}
  BY DEF Load, Store, Width
<1>3. /\ regs[c.s0] \in Word /\ regs[c.s0] \in Int
      /\ regs[c.dst] \in Word /\ regs[c.dst] \in Int /\ regs[c.s1] \in Int
      /\ Offset(regs[c.s0]) \in OffT /\ Offset(regs[c.dst]) \in Int
  BY <1>1, GetWord, OffsetRange
<1> HIDE DEF n
<1>4. CASE Load(c)
  <2> DEFINE x == GetCell(ddata, Offset(regs[c.s0]), n)
             v == Wrap(x + regs[c.s1] + c.imm)
  <2>1. x \in Int
    BY <1>1, <1>2, <1>3, <1>4, LoadInt DEF Load, n
  <2>2. Ran(SetReg(regs, c.dst, v), {c.dst}) /\ Silent
    BY <1>4 DEF Load, n
  <2> HIDE DEF x
  <2>3. x + regs[c.s1] + c.imm \in Int
    BY <1>1, <1>3, <2>1
  <2>4. v \in Word
    BY <2>3, WrapInWord
  <2> HIDE DEF v
  <2>5. SetReg(regs, c.dst, v) \in Registers
    BY <1>1, <2>4, SetRegType
  <2> QED
    BY <1>1, <2>2, <2>5, RanType, SilentType DEF Shape
<1>5. CASE Store(c)
  <2> DEFINE v == regs[c.s0] + regs[c.s1] + c.imm
  <2>1. v \in Int
    BY <1>1, <1>3
  <2>2. Ran(regs, {}) /\ ddata' = SetCell(ddata, Offset(regs[c.dst]), n, v) /\ console' = << >>
    BY <1>5 DEF Store, n
  <2> HIDE DEF v
  <2>3. ddata' \in [DataAddr -> ByteVal]
    BY <1>1, <1>2, <1>3, <2>1, <2>2, SetCellType
  <2> QED
    BY <1>1, <2>2, <2>3, RanType DEF Shape
<1> QED
  BY <1>4, <1>5

LEMMA BlockType ==
  ASSUME VMTypeOK, NEW c \in Command, Copy(c) \/ Compare(c)
  PROVE  Shape
<1> DEFINE d == Offset(regs[c.dst])
           s == Offset(regs[c.s0])
           l == BlockLen(d, s, Operand(regs, c))
<1>1. /\ regs \in Registers /\ ddata \in [DataAddr -> ByteVal]
      /\ c.dst \in Reg /\ c.s0 \in Reg
  BY CommandFields DEF VMTypeOK
<1>2. d \in Int /\ s \in Int /\ Operand(regs, c) \in Int
  <2>1. regs[c.dst] \in Int /\ regs[c.s0] \in Int
    BY <1>1, GetWord
  <2> QED
    BY <1>1, <2>1, OffsetRange, OperandWord, WordInt
<1>3. l \in Int
  <2>1. \A x \in Int : Size(x) \in Int
    BY AddrFacts, ModRange DEF Size
  <2> HIDE DEF d, s
  <2>2. /\ Size(Operand(regs, c)) \in Int
        /\ Size(DSize - d) \in Int /\ Size(DSize - s) \in Int
    BY <1>2, <2>1, SizeAssumption
  <2> QED
    BY <2>2 DEF BlockLen, Clip, Least
<1>4. CASE Copy(c)
  <2>1. /\ ~WildBlock(d, s, l) /\ Ran(regs, {}) /\ console' = << >>
        /\ ddata' = [a \in DataAddr |->
                       IF a \in d .. d + l - 1 THEN ddata[s + (a - d)] ELSE ddata[a]]
    BY <1>4 DEF Copy
  <2> HIDE DEF d, s, l
  <2>2. ASSUME NEW a \in DataAddr, a \in d .. d + l - 1
        PROVE  s + (a - d) \in DataAddr
    <3>1. l # 0 /\ InSegment(s, l)
      BY <1>2, <1>3, <2>1, <2>2 DEF WildBlock
    <3> QED
      BY <1>2, <1>3, <2>2, <3>1, SizeAssumption DEF InSegment, DataAddr
  <2>3. ddata' \in [DataAddr -> ByteVal]
    BY <1>1, <2>1, <2>2
  <2> QED
    BY <1>1, <2>1, <2>3, RanType DEF Shape
<1>5. CASE Compare(c)
  <2>1. PICK v \in CompareResults(d, s, l) : Ran(SetReg(regs, c.dst, v), {c.dst})
    BY <1>5 DEF Compare
  <2>2. Silent /\ ~WildBlock(d, s, l)
    BY <1>5 DEF Compare
  <2> HIDE DEF d, s, l
  <2>3. \A i \in 0 .. l - 1 : ddata[d + i] \in ByteVal /\ ddata[s + i] \in ByteVal
    <3> SUFFICES ASSUME NEW i \in 0 .. l - 1
                 PROVE  ddata[d + i] \in ByteVal /\ ddata[s + i] \in ByteVal
      OBVIOUS
    <3>1. InSegment(d, l) /\ InSegment(s, l)
      BY <1>3, <2>2 DEF WildBlock
    <3>2. d + i \in DataAddr /\ s + i \in DataAddr
      BY <1>2, <1>3, <3>1, SizeAssumption DEF InSegment, DataAddr
    <3> QED
      BY <1>1, <3>2
  <2>4. v \in Word
    <3> DEFINE diff(i) == ddata[d + i] - ddata[s + i]
               first   == {i \in 0 .. l - 1 :
                             diff(i) # 0 /\ \A j \in 0 .. i - 1 : diff(j) = 0}
    <3>1. \A i \in 0 .. l - 1 : diff(i) \in Word /\ -1 \in Word /\ 1 \in Word /\ 0 \in Word
      <4>1. ByteVal = 0 .. Base - 1 /\ Base \in Nat \ {0} /\ ByteVal \subseteq Word
        BY BasePositive, WordInt DEF ByteVal
      <4>2. \A x, y \in ByteVal : x - y \in Word
        BY <4>1, HalvesPositive DEF Word
      <4>3. -1 \in Word /\ 1 \in Word /\ 0 \in Word
        BY HalvesPositive, WordInt DEF Word
      <4> QED
        BY <2>3, <4>2, <4>3
    <3>2. v \in (IF first = {} THEN {0}
                 ELSE UNION {{diff(i), IF diff(i) < 0 THEN -1 ELSE 1} : i \in first})
      BY DEF CompareResults
    <3>3. first \subseteq 0 .. l - 1
      OBVIOUS
    <3> HIDE DEF first, diff
    <3>4. CASE first = {}
      BY <3>2, <3>4, WordInt
    <3>5. CASE first # {}
      <4>1. PICK i \in first : v \in {diff(i), IF diff(i) < 0 THEN -1 ELSE 1}
        BY <3>2, <3>5
      <4> QED
        BY <3>1, <3>3, <4>1
    <3> QED
      BY <3>4, <3>5
  <2>5. SetReg(regs, c.dst, v) \in Registers
    BY <1>1, <2>4, SetRegType
  <2> QED
    BY <1>1, <2>1, <2>2, <2>5, RanType, SilentType DEF Shape
<1> QED
  BY <1>4, <1>5

LEMMA CallType ==
  ASSUME VMTypeOK, NEW c \in Command, CallPut(c) \/ CallGet(c)
  PROVE  Shape
<1>1. regs \in Registers /\ ddata \in [DataAddr -> ByteVal] /\ RA \in Reg
  BY RegFacts DEF VMTypeOK
<1>2. regs[RA] \in Word /\ ByteOf(regs[RA], 0) \in Word
  <2>1. regs[RA] \in Word /\ regs[RA] \in Int
    BY <1>1, GetWord
  <2>2. ByteOf(regs[RA], 0) \in ByteVal
    BY <2>1, ByteOfType
  <2> QED
    BY <2>1, <2>2, WordInt
<1>3. CASE CallPut(c)
  <2>1. \E v \in Word : console' = <<v>>
    BY <1>2, <1>3 DEF CallPut
  <2>2. console' \in [1 .. 1 -> Word]
    BY <2>1
  <2> QED
    BY <1>1, <1>3, <2>2, RanType DEF Shape, CallPut
<1>4. CASE CallGet(c)
  <2>1. PICK v \in Readable(funcs[Index(c)]) : Ran(SetReg(regs, RA, v), {RA})
    BY <1>4 DEF CallGet
  <2>2. v \in {0} \cup Inputs
    BY DEF Readable
  <2>3. v \in Word
    BY <2>2, WordInt, InputAssumption, HalvesPositive DEF Word
  <2>4. SetReg(regs, RA, v) \in Registers
    BY <1>1, <2>3, SetRegType
  <2> QED
    BY <1>1, <1>4, <2>1, <2>4, RanType, SilentType DEF Shape, CallGet
<1> QED
  BY <1>3, <1>4

LEMMA BelowWord ==
  ASSUME VMTypeOK, NEW c \in Command
  PROVE  Below(c) \in Word /\ SetReg(regs, c.s0, Below(c)) \in Registers
<1>1. regs \in Registers /\ c.s0 \in Reg
  BY CommandFields DEF VMTypeOK
<1>2. regs[c.s0] - 4 \in Int
  BY <1>1, GetWord
<1>3. Below(c) \in Word
  BY <1>2, WrapInWord DEF Below
<1> QED
  BY <1>1, <1>3, SetRegType

LEMMA ZCallType ==
  ASSUME VMTypeOK, NEW c \in Command, ZCall(c) \/ ZCallFault(c) \/ Ret(c)
  PROVE  Shape
<1>1. /\ regs \in Registers /\ ddata \in [DataAddr -> ByteVal]
      /\ c.dst \in Reg /\ c.s0 \in Reg /\ c.s1 \in Reg /\ c.imm \in Int
  BY CommandFields DEF VMTypeOK
<1>2. Below(c) \in Word /\ SetReg(regs, c.s0, Below(c)) \in Registers
  BY BelowWord
<1>3. CASE ZCall(c)
  <2> DEFINE r == SetReg(regs, c.s0, Below(c))
  <2>1. /\ Ran(SetReg(r, c.dst, Operand(r, c)), {c.s0, c.dst})
        /\ ddata' = SetCell(ddata, Offset(Below(c)), 4, r[c.dst] + 4)
        /\ console' = << >>
    BY <1>3 DEF ZCall
  <2> HIDE DEF r
  <2>2. r \in Registers
    BY <1>2 DEF r
  <2>3. r[c.dst] + 4 \in Int /\ Offset(Below(c)) \in Int
    <3>1. r[c.dst] \in Int
      BY <1>1, <2>2, GetWord
    <3>2. Offset(Below(c)) \in Int
      BY <1>2, WordInt, OffsetRange
    <3> QED
      BY <3>1, <3>2
  <2>4. SetReg(r, c.dst, Operand(r, c)) \in Registers
    BY <1>1, <2>2, OperandWord, SetRegType
  <2>5. ddata' \in [DataAddr -> ByteVal]
    BY <1>1, <2>1, <2>3, SetCellType
  <2> QED
    BY <1>1, <2>1, <2>4, <2>5, RanType DEF Shape
<1>4. CASE ZCallFault(c)
  BY <1>1, <1>2, <1>4, StopType, SilentType DEF Shape, ZCallFault, Status
<1>5. CASE Ret(c)
  <2> DEFINE o == Offset(regs[c.s0])
             r == SetReg(regs, c.s0, Wrap(regs[c.s0] + 4))
             x == GetCell(ddata, o, 4)
             v == Wrap(x + r[c.s1] + c.imm)
  <2>1. o \in OffT /\ regs[c.s0] + 4 \in Int
    BY <1>1, GetWord, OffsetRange
  <2>2. r \in Registers
    BY <1>1, <2>1, WrapInWord, SetRegType
  <2>3. DataOk(o, 4) /\ Ran(SetReg(r, c.dst, v), {c.s0, c.dst}) /\ Silent
    BY <1>5 DEF Ret
  <2>4. x \in Int
    BY <1>1, <2>1, <2>3, LoadInt
  <2> HIDE DEF r, x
  <2>5. x + r[c.s1] + c.imm \in Int
    BY <1>1, <2>2, <2>4, GetWord
  <2>6. v \in Word
    BY <2>5, WrapInWord
  <2> HIDE DEF v
  <2>7. SetReg(r, c.dst, v) \in Registers
    BY <1>1, <2>2, <2>6, SetRegType
  <2> QED
    BY <1>1, <2>3, <2>7, RanType, SilentType DEF Shape
<1> QED
  BY <1>3, <1>4, <1>5

(* InterpretCommand keeps the machine well formed, whatever the command.   *)
LEMMA InterpretType ==
  ASSUME VMTypeOK, NEW c \in Command, Interpret(c)
  PROVE  VMTypeOK'
<1>1. Shape
  BY StoppingType, ArithType, MemoryType, BlockType, CallType, ZCallType DEF Interpret
<1>2. code' = code /\ funcs' = funcs
  BY DEF Interpret
<1> QED
  BY <1>1, <1>2 DEF Shape, VMTypeOK

LEMMA CodeFaultType ==
  ASSUME VMTypeOK, CodeFault
  PROVE  VMTypeOK'
BY DEF VMTypeOK, CodeFault, Status

LEMMA InitType == VMInit => VMTypeOK
BY ImageAssumption DEF VMInit, VMTypeOK, Image, Status

LEMMA FetchedIsCommand ==
  ASSUME VMTypeOK, CodeOk(Pc)
  PROVE  code[Pc] \in Command
<1>1. Pc \in OffT
  BY RegFacts, GetWord, OffsetRange DEF VMTypeOK, Pc
<1> QED
  BY <1>1, CodeOkIsCodeAddr DEF VMTypeOK

LEMMA StepType ==
  ASSUME VMTypeOK, [Step]_vmvars
  PROVE  VMTypeOK'
<1>1. CASE FetchFault
  BY <1>1, CodeFaultType DEF FetchFault
<1>2. CASE FetchAndInterpret
  BY <1>2, FetchedIsCommand, InterpretType DEF FetchAndInterpret
<1>3. CASE UNCHANGED vmvars
  BY <1>3 DEF VMTypeOK, vmvars
<1> QED
  BY <1>1, <1>2, <1>3 DEF Step

(* After any number of instructions of any program, the accesses the check *)
(* lets through in front of the segments included, every register holds a  *)
(* 64-bit word, $z holds zero, and every data byte a byte.                 *)
THEOREM TypeCorrect == ExecSpec => []VMTypeOK
<1>1. VMInit => VMTypeOK
  BY InitType
<1>2. VMTypeOK /\ [Step]_vmvars => VMTypeOK'
  BY StepType
<1> QED
  BY <1>1, <1>2, PTL DEF ExecSpec

-----------------------------------------------------------------------------
(***************************************************************************)
(* What a fault leaves behind.                                             *)
(***************************************************************************)
LEMMA RanIsRun ==
  ASSUME NEW r, NEW w, Ran(r, w)
  PROVE  status' = "run"
BY DEF Ran

(* Only a refused access and a refused push fault: a command that ran,     *)
(* halted or was killed did not.                                           *)
LEMMA FaultingInstructions ==
  ASSUME NEW c \in Command, Interpret(c), status' \in {"codefault", "datafault"}
  PROVE  AccessFault(c) \/ ZCallFault(c)
<1>1. status' # "run"
  OBVIOUS
<1>2. /\ ~Nop(c) /\ ~Arith(c) /\ ~CondMove(c) /\ ~Load(c) /\ ~Store(c)
      /\ ~Copy(c) /\ ~Compare(c) /\ ~CallPut(c) /\ ~CallGet(c) /\ ~ZCall(c) /\ ~Ret(c)
  BY <1>1, RanIsRun
     DEF Nop, Arith, CondMove, Load, Store, Copy, Compare, CallPut, CallGet, ZCall, Ret
<1>3. ~Hlt(c) /\ ~Reserved(c) /\ ~Trap(c) /\ ~Wild(c) /\ ~CallNone(c)
  BY DEF Hlt, Reserved, Trap, Wild, CallNone, Stop
<1> QED
  BY <1>2, <1>3 DEF Interpret

(* A machine that faulted is the machine before the faulting instruction,  *)
(* for every program, except for the stack pointer of a refused zcl.       *)
THEOREM FaultsKeepMachine == ExecSpec => FaultKeepsMachine
<1> DEFINE Kept ==
      status' \in {"codefault", "datafault"} =>
        /\ ddata' = ddata
        /\ \A x \in Reg :
             regs'[x] # regs[x] =>
               Fetching /\ Current.opc = "zcl" /\ x = Current.s0
<1>1. VMTypeOK /\ [Step]_vmvars => [Kept]_vmvars
  <2> SUFFICES ASSUME VMTypeOK, Step, status' \in {"codefault", "datafault"}
               PROVE  /\ ddata' = ddata
                      /\ \A x \in Reg :
                           regs'[x] # regs[x] =>
                             Fetching /\ Current.opc = "zcl" /\ x = Current.s0
    OBVIOUS
  <2>1. CASE FetchFault
    BY <2>1 DEF FetchFault, CodeFault
  <2>2. CASE FetchAndInterpret
    <3>1. Current \in Command /\ Interpret(Current) /\ Fetching
      BY <2>2, FetchedIsCommand DEF FetchAndInterpret, Fetching, Current, Step
    <3>2. AccessFault(Current) \/ ZCallFault(Current)
      BY <3>1, FaultingInstructions
    <3>3. CASE AccessFault(Current)
      BY <3>3 DEF AccessFault, Stop, Silent
    <3>4. CASE ZCallFault(Current)
      <4>1. /\ ddata' = ddata /\ Current.opc = "zcl"
            /\ regs' = SetReg(regs, Current.s0, Below(Current))
        BY <3>4 DEF ZCallFault, Stop, Silent
      <4>2. \A x \in Reg : x # Current.s0 => regs'[x] = regs[x]
        BY <4>1 DEF SetReg, VMTypeOK, Registers
      <4> QED
        BY <3>1, <4>1, <4>2
    <3> QED
      BY <3>2, <3>3, <3>4
  <2> QED
    BY <2>1, <2>2 DEF Step
<1>2. ExecSpec => []VMTypeOK
  BY TypeCorrect
<1>3. ExecSpec => [][Kept]_vmvars
  BY <1>1, <1>2, PTL DEF ExecSpec
<1> QED
  BY <1>3 DEF FaultKeepsMachine

-----------------------------------------------------------------------------
(***************************************************************************)
(* What an instruction that ran may have changed.                          *)
(***************************************************************************)
LEMMA SetRegFrame ==
  ASSUME NEW r, DOMAIN r = Reg, NEW y \in Reg, NEW v
  PROVE  /\ DOMAIN SetReg(r, y, v) = Reg
         /\ \A x \in Reg : x # y => SetReg(r, y, v)[x] = r[x]
BY DEF SetReg

(* The registers r an instruction leaves to Ran differ from regs at most   *)
(* where the instruction set a flag, and the flags it sets are those its   *)
(* command names.                                                          *)
Effect(c) ==
  \E r, w : /\ Ran(r, w)
            /\ DOMAIN r = Reg
            /\ w \subseteq MayWrite(c)
            /\ \A x \in Reg : x \notin w => r[x] = regs[x]

LEMMA EffectOfOne ==
  ASSUME VMTypeOK, NEW c, NEW y \in Reg, NEW v,
         Ran(SetReg(regs, y, v), {y}), y \in MayWrite(c)
  PROVE  Effect(c)
BY SetRegFrame DEF Effect, VMTypeOK, Registers

LEMMA EffectOfNone ==
  ASSUME VMTypeOK, NEW c, Ran(regs, {})
  PROVE  Effect(c)
BY DEF Effect, VMTypeOK, Registers

LEMMA EffectOfTwo ==
  ASSUME VMTypeOK, NEW c, NEW y \in Reg, NEW z \in Reg, NEW u, NEW v,
         Ran(SetReg(SetReg(regs, y, u), z, v), {y, z}), {y, z} \subseteq MayWrite(c)
  PROVE  Effect(c)
<1> DEFINE q == SetReg(regs, y, u)
           r == SetReg(q, z, v)
<1>1. DOMAIN regs = Reg
  BY DEF VMTypeOK, Registers
<1>2. DOMAIN q = Reg /\ \A x \in Reg : x # y => q[x] = regs[x]
  BY <1>1, SetRegFrame
<1> HIDE DEF q
<1>3. DOMAIN r = Reg /\ \A x \in Reg : x # z => r[x] = q[x]
  BY <1>2, SetRegFrame
<1>4. Ran(r, {y, z})
  BY DEF q
<1> HIDE DEF r
<1> QED
  BY <1>2, <1>3, <1>4 DEF Effect

LEMMA RunningInstructions ==
  ASSUME VMTypeOK, NEW c \in Command, Interpret(c), status' = "run"
  PROVE  Effect(c)
<1>1. c.dst \in Reg /\ c.s0 \in Reg /\ RA \in Reg
  BY CommandFields, RegFacts
<1>2. ~Hlt(c) /\ ~Reserved(c) /\ ~Trap(c) /\ ~Wild(c) /\ ~CallNone(c)
      /\ ~AccessFault(c) /\ ~ZCallFault(c)
  BY DEF Hlt, Reserved, Trap, Wild, CallNone, AccessFault, ZCallFault, Stop
<1>3. CASE Arith(c)
  <2>1. c.dst \in MayWrite(c)
    BY <1>3 DEF Arith, MayWrite, ArithOps
  <2>2. \E v : Ran(SetReg(regs, c.dst, v), {c.dst})
    BY <1>3 DEF Arith
  <2> QED
    BY <1>1, <2>1, <2>2, EffectOfOne
<1>4. CASE CondMove(c)
  <2>1. c.dst \in MayWrite(c)
    BY <1>4 DEF CondMove, MayWrite, ArithOps
  <2> QED
    BY <1>1, <1>4, <2>1, EffectOfOne, EffectOfNone DEF CondMove
<1>5. CASE Load(c)
  <2>1. c.dst \in MayWrite(c)
    BY <1>5 DEF Load, MayWrite, ArithOps
  <2> QED
    BY <1>1, <1>5, <2>1, EffectOfOne DEF Load
<1>6. CASE Compare(c)
  <2>1. c.dst \in MayWrite(c)
    BY <1>6 DEF Compare, MayWrite, ArithOps
  <2>2. \E v : Ran(SetReg(regs, c.dst, v), {c.dst})
    BY <1>6 DEF Compare
  <2> QED
    BY <1>1, <2>1, <2>2, EffectOfOne
<1>7. CASE CallGet(c)
  <2>1. RA \in MayWrite(c)
    BY <1>7 DEF CallGet, Calls, MayWrite, ArithOps
  <2>2. \E v : Ran(SetReg(regs, RA, v), {RA})
    BY <1>7 DEF CallGet
  <2> QED
    BY <1>1, <2>1, <2>2, EffectOfOne
<1>8. CASE Nop(c) \/ Store(c) \/ Copy(c) \/ CallPut(c)
  BY <1>8, EffectOfNone DEF Nop, Store, Copy, CallPut
<1>9. CASE ZCall(c) \/ Ret(c)
  <2>1. {c.s0, c.dst} \subseteq MayWrite(c)
    BY <1>9 DEF ZCall, Ret, MayWrite, ArithOps
  <2>2. \E u, v : Ran(SetReg(SetReg(regs, c.s0, u), c.dst, v), {c.s0, c.dst})
    BY <1>9 DEF ZCall, Ret
  <2> QED
    BY <1>1, <2>1, <2>2, EffectOfTwo
<1> QED
  BY <1>2, <1>3, <1>4, <1>5, <1>6, <1>7, <1>8, <1>9 DEF Interpret

(* For every program and every content of the set flag, an instruction     *)
(* that ran wrote no register but those its command names, and moved the   *)
(* program counter by one command if it does not name it.                  *)
THEOREM WritesNamed == ExecSpec => WritesOnlyNamed
<1> DEFINE Named ==
      Fetching /\ status' = "run" =>
        \A x \in Reg \ MayWrite(Current) :
          regs'[x] = IF x = RP THEN Wrap(regs[RP] + 4) ELSE regs[x]
<1>1. VMTypeOK /\ [Step]_vmvars => [Named]_vmvars
  <2> SUFFICES ASSUME VMTypeOK, Step, Fetching, status' = "run",
                      NEW x \in Reg \ MayWrite(Current)
               PROVE  regs'[x] = IF x = RP THEN Wrap(regs[RP] + 4) ELSE regs[x]
    OBVIOUS
  <2>1. Current \in Command /\ Interpret(Current)
    BY FetchedIsCommand DEF Step, Fetching, FetchFault, FetchAndInterpret, Current
  <2>2. PICK r, w : /\ Ran(r, w) /\ DOMAIN r = Reg /\ w \subseteq MayWrite(Current)
                    /\ \A z \in Reg : z \notin w => r[z] = regs[z]
    BY <2>1, RunningInstructions DEF Effect
  <2>3. RP \in Reg /\ RP # RZ
    BY RegFacts
  <2>5. CASE x = RP
    <3>1. RP \notin w /\ r[RP] = regs[RP]
      BY <2>2, <2>3, <2>5
    <3>2. regs' = [r EXCEPT ![RP] = Wrap(regs[RP] + 4)]
      BY <2>2, <2>3, <3>1 DEF Ran, SetReg
    <3> QED
      BY <2>2, <2>3, <2>5, <3>2
  <2>6. CASE x # RP
    <3>1. r[x] = regs[x]
      BY <2>2
    <3>2. regs'[x] = r[x]
      BY <2>2, <2>3, <2>6, SetRegFrame DEF Ran
    <3> QED
      BY <2>6, <3>1, <3>2
  <2> QED
    BY <2>5, <2>6
<1>2. ExecSpec => []VMTypeOK
  BY TypeCorrect
<1>3. ExecSpec => [][Named]_vmvars
  BY <1>1, <1>2, PTL DEF ExecSpec
<1> QED
  BY <1>3 DEF WritesOnlyNamed

-----------------------------------------------------------------------------
(***************************************************************************)
(* The clipped block of cpy and cmp.                                       *)
(***************************************************************************)
(* A length that is not negative is not made larger by the conversion.     *)
LEMMA SizeOfLength ==
  ASSUME NEW x \in Int
  PROVE  Size(x) \in Nat /\ (x >= 0 => Size(x) <= x)
<1> DEFINE m == 2 * AddrHalf
           q == x \div m
           r == x % m
<1>1. m \in Nat \ {0}
  BY AddrFacts
<1> HIDE DEF m
<1>2. q \in Int /\ r \in 0 .. m - 1 /\ x = m * q + r
  BY <1>1
<1> HIDE DEF q, r
<1>3. x >= 0 => q >= 0
  <2> SUFFICES ASSUME x >= 0, q <= -1 PROVE FALSE
    BY <1>2
  <2>1. m * q <= -m
    BY <1>1, <1>2
  <2> QED
    BY <1>1, <1>2, <2>1
<1>4. q >= 0 => m * q >= 0
  BY <1>1, <1>2
<1>5. r \in Nat /\ (x >= 0 => r <= x)
  BY <1>1, <1>2, <1>3, <1>4
<1> QED
  BY <1>5 DEF Size, m, r

(* Between two addresses of the segment the length is clipped to what is   *)
(* left behind both, whatever was asked for.                               *)
LEMMA ClippedBlock ==
  ASSUME NEW d \in 0 .. DSize, NEW s \in 0 .. DSize, NEW x \in Int
  PROVE  /\ BlockLen(d, s, x) \in Nat
         /\ d + BlockLen(d, s, x) <= DSize /\ s + BlockLen(d, s, x) <= DSize
         /\ x >= 0 => BlockLen(d, s, x) <= x
         /\ ~WildBlock(d, s, BlockLen(d, s, x))
<1>1. Size(DSize - d) = DSize - d /\ Size(DSize - s) = DSize - s
  BY SizeOf, SizeAssumption, AddrFacts
<1>2. Size(x) \in Nat /\ (x >= 0 => Size(x) <= x)
  BY SizeOfLength
<1>3. DSize - d \in Nat /\ DSize - s \in Nat /\ DSize \in Nat
  BY SizeAssumption
<1> DEFINE l == BlockLen(d, s, x)
<1>4. /\ l \in Nat /\ l <= DSize - d /\ l <= DSize - s
      /\ x >= 0 => l <= x
  BY <1>1, <1>2, <1>3 DEF BlockLen, Clip, Least
<1> HIDE DEF l
<1>5. ~WildBlock(d, s, l)
  BY <1>3, <1>4 DEF WildBlock, InSegment
<1>6. d + l <= DSize /\ s + l <= DSize
  BY <1>3, <1>4
<1> QED
  BY <1>4, <1>5, <1>6 DEF l

LEMMA BlockInstructions ==
  ASSUME NEW c, c.opc \in {"cpy", "cmp"}, Interpret(c)
  PROVE  \/ Copy(c) \/ Compare(c)
         \/ WildBlock(Offset(regs[c.dst]), Offset(regs[c.s0]),
                      BlockLen(Offset(regs[c.dst]), Offset(regs[c.s0]), Operand(regs, c)))
<1>1. c.opc \notin ArithOps
  BY DEF ArithOps
<1> QED
  BY <1>1 DEF Interpret, Hlt, Reserved, Nop, Arith, Trap, CondMove, Load, Store, AccessFault,
     Wild, CallNone, CallPut, CallGet, Calls, ZCall, ZCallFault, Ret

(* For every segment size and every length, a negative one included, cpy   *)
(* and cmp between addresses of the segment (memory::Copy and Compare) are *)
(* defined, and cpy touches nothing but the block it was asked for.        *)
THEOREM BlocksStay == ExecSpec => BlocksStayInSegment
<1> DEFINE Stays ==
      /\ Fetching
      /\ Current.opc \in {"cpy", "cmp"}
      /\ {Offset(regs[Current.dst]), Offset(regs[Current.s0])} \subseteq 0 .. DSize
      => /\ status' = "run"
         /\ \A a \in DataAddr : ddata'[a] # ddata[a] =>
              /\ a >= Offset(regs[Current.dst])
              /\ Operand(regs, Current) >= 0 =>
                   a < Offset(regs[Current.dst]) + Operand(regs, Current)
<1>1. VMTypeOK /\ [Step]_vmvars => [Stays]_vmvars
  <2> SUFFICES ASSUME VMTypeOK, Step, Fetching, Current.opc \in {"cpy", "cmp"},
                      Offset(regs[Current.dst]) \in 0 .. DSize,
                      Offset(regs[Current.s0]) \in 0 .. DSize
               PROVE  /\ status' = "run"
                      /\ \A a \in DataAddr : ddata'[a] # ddata[a] =>
                           /\ a >= Offset(regs[Current.dst])
                           /\ Operand(regs, Current) >= 0 =>
                                a < Offset(regs[Current.dst]) + Operand(regs, Current)
    OBVIOUS
  <2> DEFINE c == Current
             d == Offset(regs[c.dst])
             s == Offset(regs[c.s0])
             x == Operand(regs, c)
             l == BlockLen(d, s, x)
  <2>1. c \in Command /\ Interpret(c)
    BY FetchedIsCommand DEF Step, Fetching, FetchFault, FetchAndInterpret, Current
  <2>2. x \in Int
    BY <2>1, OperandWord, WordInt DEF VMTypeOK
  <2>3. d \in 0 .. DSize /\ s \in 0 .. DSize
    OBVIOUS
  <2>4. c.opc \in {"cpy", "cmp"}
    OBVIOUS
  <2> HIDE DEF c
  <2>5. Copy(c) \/ Compare(c) \/ WildBlock(d, s, l)
    BY <2>1, <2>4, BlockInstructions
  <2>6. Copy(c) => /\ status' = "run"
                   /\ ddata' = [a \in DataAddr |->
                        IF a \in d .. d + l - 1 THEN ddata[s + (a - d)] ELSE ddata[a]]
    BY RanIsRun DEF Copy
  <2>7. Compare(c) => status' = "run" /\ ddata' = ddata
    BY RanIsRun DEF Compare, Silent
  <2> HIDE DEF d, s, x
  <2>8. l \in Nat /\ (x >= 0 => l <= x) /\ ~WildBlock(d, s, l)
    BY <2>2, <2>3, ClippedBlock
  <2> HIDE DEF l
  <2>9. /\ status' = "run"
        /\ \A a \in DataAddr : ddata'[a] # ddata[a] => a >= d /\ (x >= 0 => a < d + x)
    <3>1. CASE Copy(c)
      <4> SUFFICES ASSUME NEW a \in DataAddr, ddata'[a] # ddata[a]
                   PROVE  a >= d /\ (x >= 0 => a < d + x)
        BY <2>6, <3>1
      <4>1. a \in d .. d + l - 1
        BY <2>6, <3>1
      <4> QED
        BY <2>2, <2>3, <2>8, <4>1
    <3>2. CASE Compare(c)
      BY <2>7, <3>2
    <3> QED
      BY <2>5, <2>8, <3>1, <3>2
  <2> QED
    BY <2>9 DEF c, d, x
<1>2. ExecSpec => []VMTypeOK
  BY TypeCorrect
<1>3. ExecSpec => [][Stays]_vmvars
  BY <1>1, <1>2, PTL DEF ExecSpec
<1> QED
  BY <1>3 DEF BlocksStayInSegment

-----------------------------------------------------------------------------
(***************************************************************************)
(* The word algebra, for whatever the registers hold.                      *)
(***************************************************************************)
LEMMA HeldWords == VMTypeOK => Held \subseteq Word
BY DEF VMTypeOK, Registers, Held

(* For every word size and every two words a machine may hold, OP_DIV and  *)
(* OP_MOD truncate toward zero and agree with each other.                  *)
THEOREM DivisionIsTruncating == ExecSpec => []DivisionTruncates
<1>1. VMTypeOK => DivisionTruncates
  <2> SUFFICES ASSUME VMTypeOK, NEW x \in Held, NEW y \in Held, ~MayTrap("div", x, y)
               PROVE  /\ x = Alu("div", x, y) * y + Alu("mod", x, y)
                      /\ Abs(Alu("mod", x, y)) < Abs(y)
                      /\ Alu("mod", x, y) = 0 \/ (Alu("mod", x, y) < 0) = (x < 0)
    BY DEF DivisionTruncates
  <2>1. x \in Word /\ y \in Word
    BY HeldWords
  <2> QED
    BY <2>1, DivisionIs
<1> QED
  BY <1>1, TypeCorrect, PTL

(* What SetCell leaves of a segment, cell by cell.                         *)
LEMMA CellsOfSegment ==
  ASSUME NEW m \in [DataAddr -> ByteVal], NEW x \in Word, NEW y \in Word,
         NEW o \in OffT, DataOk(o, 8), NEW n \in {1, 2, 4}
  PROVE  LET m8 == SetCell(m, o, 8, x)
             mn == SetCell(m8, o + 4, n, y)
             v  == GetCell(mn, o + 4, n)
         IN /\ GetCell(m8, o, 8) = x
            /\ GetCell(m8, o + 4, 4) * (2 * Half4) + U4(m8, o) = x
            /\ v \in -HalfOf(n) .. HalfOf(n) - 1
            /\ (v - y) % (2 * HalfOf(n)) = 0
            /\ GetCell(mn, o, 4) = GetCell(m8, o, 4)
<1> DEFINE m8 == SetCell(m, o, 8, x)
           mn == SetCell(m8, o + 4, n, y)
           v  == GetCell(mn, o + 4, n)
<1>1. o \in Int /\ x \in Int /\ y \in Int /\ n \in {1, 2, 4, 8}
  BY AddrFacts, WordInt DEF OffT
<1>2. \A a \in o .. o + 7 : a \in DataAddr
  <2>1. o + 8 - 1 = o + 7 /\ 8 \in {1, 2, 4, 8}
    BY <1>1
  <2>2. o .. o + 8 - 1 \subseteq DataAddr
    BY DataOkInDataAddr, <2>1
  <2> QED
    BY <2>1, <2>2
<1>3. m8 \in [DataAddr -> ByteVal]
  BY <1>1, SetCellType
<1>4. GetCell(m8, o, 8) = x
  <2>1. \A a \in o .. o + 8 - 1 : a \in DOMAIN m
    BY <1>1, <1>2
  <2>2. GetCell(m8, o, 8) = Signed(x % (2 * HalfOf(8)), HalfOf(8))
    BY <1>1, <2>1, StoredCell
  <2>3. HalfOf(8) = Half8
    BY DEF HalfOf
  <2> QED
    BY <2>2, <2>3, SignedOfWord, Zenon
<1>5. \A a \in o + 4 .. (o + 4) + n - 1 : a \in DOMAIN m8
  BY <1>1, <1>2, <1>3
<1>6. \A a \in o .. o + 3 : mn[a] = m8[a]
  BY <1>1, <1>2, <1>3 DEF SetCell
<1> HIDE DEF m8
<1>7. GetCell(m8, o + 4, 4) * (2 * Half4) + U4(m8, o) = x
  <2>1. \A a \in o .. o + 7 : m8[a] \in ByteVal
    BY <1>2, <1>3
  <2> QED
    BY <1>1, <1>4, <2>1, QuadIsLongs
<1>8. v = Signed(y % (2 * HalfOf(n)), HalfOf(n))
  <2>1. o + 4 \in Int
    BY <1>1
  <2> QED
    BY <1>1, <1>5, <2>1, StoredCell
<1>9. HalfOf(n) \in Nat \ {0}
  BY HalvesPositive DEF HalfOf
<1> HIDE DEF mn
<1>10. GetCell(mn, o, 4) = GetCell(m8, o, 4)
  <2>1. \A a \in o .. o + 4 - 1 : mn[a] = m8[a]
    BY <1>1, <1>6
  <2> QED
    BY <1>1, <2>1, SameCell
<1> HIDE DEF v
<1>11. v \in -HalfOf(n) .. HalfOf(n) - 1 /\ (v - y) % (2 * HalfOf(n)) = 0
  BY <1>1, <1>8, <1>9, SignedCut
<1> QED
  BY <1>4, <1>7, <1>10, <1>11 DEF v, mn, m8

(* For every word size, a cell of every width gives back what was stored,  *)
(* at every offset memory's accessors let through.                         *)
THEOREM CellsGiveBack == ExecSpec => []CellsRoundTrip
<1>1. VMTypeOK => CellsRoundTrip
  <2> SUFFICES ASSUME VMTypeOK, NEW x \in Held, NEW y \in Held,
                      NEW o \in {Offset(z) : z \in Held}, DataOk(o, 8)
               PROVE  LET m8 == SetCell(ddata, o, 8, x)
                      IN /\ GetCell(m8, o, 8) = x
                         /\ GetCell(m8, o + 4, 4) * (2 * Half4) + U4(m8, o) = x
                         /\ \A n \in {1, 2, 4} :
                              LET half == CASE n = 1 -> Half1 [] n = 2 -> Half2 [] n = 4 -> Half4
                                  m    == SetCell(m8, o + 4, n, y)
                                  v    == GetCell(m, o + 4, n)
                              IN /\ v \in -half .. half - 1
                                 /\ (v - y) % (2 * half) = 0
                                 /\ GetCell(m, o, 4) = GetCell(m8, o, 4)
    BY DEF CellsRoundTrip
  <2>1. x \in Word /\ y \in Word /\ Held \subseteq Word
    BY HeldWords
  <2>2. o \in OffT
    BY <2>1, OffsetRange, WordInt
  <2>3. ddata \in [DataAddr -> ByteVal]
    BY DEF VMTypeOK
  <2> DEFINE m8    == SetCell(ddata, o, 8, x)
             m(n)  == SetCell(m8, o + 4, n, y)
             v(n)  == GetCell(m(n), o + 4, n)
             half(n) == CASE n = 1 -> Half1 [] n = 2 -> Half2 [] n = 4 -> Half4
  <2>4. \A n \in {1, 2, 4} :
          /\ GetCell(m8, o, 8) = x
          /\ GetCell(m8, o + 4, 4) * (2 * Half4) + U4(m8, o) = x
          /\ v(n) \in -HalfOf(n) .. HalfOf(n) - 1
          /\ (v(n) - y) % (2 * HalfOf(n)) = 0
          /\ GetCell(m(n), o, 4) = GetCell(m8, o, 4)
    BY <2>1, <2>2, <2>3, CellsOfSegment
  <2>5. \A n \in {1, 2, 4} : half(n) = HalfOf(n)
    BY DEF HalfOf
  <2> HIDE DEF m8, m, v, half
  <2>6. \A n \in {1, 2, 4} :
          /\ v(n) \in -half(n) .. half(n) - 1
          /\ (v(n) - y) % (2 * half(n)) = 0
          /\ GetCell(m(n), o, 4) = GetCell(m8, o, 4)
    BY <2>4, <2>5
  <2>7. GetCell(m8, o, 8) = x /\ GetCell(m8, o + 4, 4) * (2 * Half4) + U4(m8, o) = x
    BY <2>4
  <2> QED
    BY <2>6, <2>7 DEF m8, m, v, half
<1> QED
  BY <1>1, TypeCorrect, PTL

-----------------------------------------------------------------------------
(***************************************************************************)
(* The prefetching interpreter implements the plain one, for every cache   *)
(* size and every set of sealed programs.                                  *)
(***************************************************************************)
(* Every program's code ends in a command that ends the scan.              *)
AllSealed == \A im \in Images : Sealed(im.code)

(* The inductive invariant.  CacheCoherent alone is not inductive: that    *)
(* the program counter moves in step with pos rests on the types, and pos  *)
(* stays in range because of coherence.                                    *)
BurstInv ==
  /\ VMTypeOK
  /\ pos \in Nat
  /\ CacheCoherent
  /\ cache \in Seq(Command) /\ Len(cache) <= CacheSize
  /\ pos <= CacheSize /\ pos >= 1

LEMMA BurstInitInv ==
  ASSUME BurstInit
  PROVE  BurstInv
BY InitType, CacheAssumption DEF BurstInit, BurstInv, CacheCoherent

LEMMA PcRange ==
  ASSUME VMTypeOK
  PROVE  regs[RP] \in Int /\ Pc \in OffT /\ Ahead(0) = Pc
BY RegFacts, GetWord, OffsetRange DEF VMTypeOK, Pc, Ahead

LEMMA AheadRange ==
  ASSUME VMTypeOK, NEW i \in Nat
  PROVE  Ahead(i) \in Int /\ (CodeOk(Ahead(i)) <=> Ahead(i) \in CodeAddr)
<1>1. Ahead(i) \in Int /\ Ahead(i) \in OffT
  <2>1. regs[RP] + 4 * i \in Int
    BY PcRange
  <2> QED
    BY <2>1, OffsetRange DEF Ahead
<1> QED
  BY <1>1, CodeOkIsCodeAddr

LEMMA FillKeepsInv ==
  ASSUME BurstInv, FillCache
  PROVE  BurstInv'
<1>1. PICK n \in 1 .. CacheSize :
        /\ Scanned(n - 1)
        /\ CodeOk(Ahead(n - 1))
        /\ cache' = [i \in 1 .. n |-> code[Ahead(i - 1)]]
  BY DEF FillCache
<1>2. VMTypeOK /\ n \in Nat \ {0}
  BY <1>1, CacheAssumption DEF BurstInv
<1>3. pos' = 1 /\ regs' = regs /\ code' = code /\ VMTypeOK'
  BY DEF FillCache, BurstInv, vmvars, VMTypeOK
<1>4. \A i \in 1 .. n : Ahead(i - 1) \in CodeAddr /\ code[Ahead(i - 1)] \in Command
  <2> SUFFICES ASSUME NEW i \in 1 .. n
               PROVE  Ahead(i - 1) \in CodeAddr /\ code[Ahead(i - 1)] \in Command
    OBVIOUS
  <2>1. i - 1 \in Nat /\ i - 1 \in 0 .. n - 1
    BY <1>2
  <2>2. CodeOk(Ahead(i - 1))
    <3>1. CASE i = n
      BY <1>1, <3>1
    <3>2. CASE i # n
      <4>1. i - 1 \in 0 .. (n - 1) - 1
        BY <1>2, <3>2
      <4> QED
        BY <1>1, <4>1 DEF Scanned
    <3> QED
      BY <3>1, <3>2
  <2>3. Ahead(i - 1) \in CodeAddr
    BY <1>2, <2>1, <2>2, AheadRange
  <2> QED
    BY <1>2, <2>3 DEF VMTypeOK
<1>5. cache' \in Seq(Command) /\ Len(cache') = n /\ DOMAIN cache' = 1 .. n
  BY <1>1, <1>2, <1>4
<1>6. CacheCoherent'
  <2> SUFFICES ASSUME NEW i \in 1 .. n
               PROVE  Ahead(i - 1)' \in CodeAddr /\ cache'[i] = code'[Ahead(i - 1)']
    BY <1>2, <1>3, <1>5 DEF CacheCoherent
  <2>1. Ahead(i - 1)' = Ahead(i - 1)
    BY <1>3 DEF Ahead
  <2> QED
    BY <1>1, <1>3, <1>4, <2>1
<1> QED
  BY <1>2, <1>3, <1>5, <1>6, CacheAssumption DEF BurstInv

(* When BurstStep goes on, the program counter has moved by one command.   *)
LEMMA ContinuingAdvances ==
  ASSUME VMTypeOK, NEW c \in Command, Interpret(c),
         status' = "run", RP \in sflag'
  PROVE  regs'[RP] = Wrap(regs[RP] + 4)
<1>1. PICK r, w : /\ Ran(r, w) /\ DOMAIN r = Reg
                  /\ \A z \in Reg : z \notin w => r[z] = regs[z]
  BY RunningInstructions DEF Effect
<1>2. RP \notin w
  BY <1>1 DEF Ran
<1>3. r[RP] = regs[RP]
  BY <1>1, <1>2, RegFacts
<1>4. regs' = [r EXCEPT ![RP] = Wrap(regs[RP] + 4)]
  BY <1>1, <1>2, <1>3, RegFacts DEF Ran, SetReg
<1> QED
  BY <1>1, <1>4, RegFacts

LEMMA CachedIsFetched ==
  ASSUME BurstInv, cache # << >>
  PROVE  /\ Pc \in CodeAddr /\ CodeOk(Pc)
         /\ cache[pos] = code[Pc] /\ cache[pos] \in Command
<1>1. VMTypeOK /\ pos \in 1 .. Len(cache) /\ cache \in Seq(Command)
  BY DEF BurstInv, CacheCoherent
<1>2. Ahead(pos - pos) = Pc /\ Pc \in OffT
  <2>1. pos - pos = 0
    BY <1>1
  <2> QED
    BY <1>1, <2>1, PcRange
<1>3. Pc \in CodeAddr /\ cache[pos] = code[Pc]
  BY <1>1, <1>2 DEF BurstInv, CacheCoherent
<1> QED
  BY <1>1, <1>2, <1>3, CodeOkIsCodeAddr

LEMMA StepKeepsInv ==
  ASSUME BurstInv, BurstStep
  PROVE  BurstInv'
<1>1. /\ cache[pos] \in Command /\ VMTypeOK
      /\ Interpret(cache[pos]) /\ cache \in Seq(Command)
  BY CachedIsFetched DEF BurstInv, BurstStep
<1>2. VMTypeOK'
  BY <1>1, InterpretType
<1>3. code' = code
  BY <1>1 DEF Interpret
<1>4. CASE Continues
  <2>1. /\ cache' = cache /\ pos' = pos + 1 /\ pos < Len(cache)
        /\ regs'[RP] = Wrap(regs[RP] + 4) /\ pos \in 1 .. Len(cache)
    BY <1>1, <1>4, ContinuingAdvances DEF BurstStep, Continues, BurstInv, CacheCoherent
  <2>2. pos' \in 1 .. Len(cache') /\ pos' \in Nat
    BY <1>1, <2>1
  <2>3. ASSUME NEW i \in pos' .. Len(cache')
        PROVE  Ahead(i - pos)' \in CodeAddr /\ cache'[i] = code'[Ahead(i - pos)']
    <3>1. i \in pos .. Len(cache)
      BY <1>1, <2>1
    <3>2. Ahead(i - pos) \in CodeAddr /\ cache[i] = code[Ahead(i - pos)]
      BY <2>1, <3>1 DEF BurstInv, CacheCoherent
    <3>3. Ahead(i - pos)' = Ahead(i - pos)
      <4>1. Ahead(i - pos)' = Offset(Wrap(regs[RP] + 4) + 4 * (i - pos'))
        BY <2>1 DEF Ahead
      <4>2. /\ regs[RP] + 4 \in Int /\ 4 * (i - pos') \in Int
            /\ (regs[RP] + 4) + 4 * (i - pos') = regs[RP] + 4 * (i - pos)
        BY <1>1, <2>1, PcRange
      <4> QED
        BY <4>1, <4>2, OffsetOfWrap DEF Ahead
    <3> QED
      BY <1>3, <2>1, <3>2, <3>3
  <2>4. CacheCoherent'
    BY <2>2, <2>3 DEF CacheCoherent
  <2> QED
    <3>1. cache \in Seq(Command) /\ Len(cache) <= CacheSize /\ CacheSize \in Nat
      BY CacheAssumption DEF BurstInv
    <3>2. pos' <= CacheSize /\ pos' >= 1
      BY <2>1, <2>2, <3>1
    <3> QED
      BY <1>2, <2>1, <2>2, <2>4, <3>1, <3>2 DEF BurstInv
<1>5. CASE ~Continues
  <2>1. cache' = << >> /\ pos' = 1
    BY <1>5 DEF BurstStep
  <2> QED
    BY <1>2, <2>1, CacheAssumption DEF BurstInv, CacheCoherent
<1> QED
  BY <1>4, <1>5

LEMMA NextKeepsInv ==
  ASSUME BurstInv, [BurstNext]_allvars
  PROVE  BurstInv'
<1>1. CASE FillFault
  <2>1. VMTypeOK' /\ code' = code /\ cache' = << >> /\ pos' = pos
    BY <1>1, CodeFaultType DEF FillFault, CodeFault, BurstInv, burstvars
  <2> QED
    BY <2>1, CacheAssumption DEF BurstInv, CacheCoherent, FillFault
<1>2. CASE UNCHANGED allvars
  BY <1>2, CacheAssumption DEF BurstInv, CacheCoherent, VMTypeOK, allvars, vmvars, burstvars, Ahead
<1> QED
  BY <1>1, <1>2, FillKeepsInv, StepKeepsInv DEF BurstNext

(* A scan of sealed code faults only where a single fetch would.           *)
LEMMA FaultAtPc ==
  ASSUME BurstInv, Sealed(code), FillFault
  PROVE  ~CodeOk(Pc)
<1>1. PICK n \in 0 .. CacheSize - 1 : Scanned(n) /\ ~CodeOk(Ahead(n))
  BY DEF FillFault
<1>2. VMTypeOK /\ n \in Nat
  BY CacheAssumption DEF BurstInv
<1>3. CASE n = 0
  <2>1. Ahead(0) = Pc
    BY <1>2, PcRange
  <2> QED
    BY <1>1, <1>3, <2>1
<1>4. CASE n # 0
  <2>1. n - 1 \in Nat /\ n - 1 \in 0 .. n - 1
    BY <1>2, <1>4
  <2>2. CodeOk(Ahead(n - 1)) /\ ~EndsFill(code[Ahead(n - 1)])
    BY <1>1, <2>1 DEF Scanned
  <2>3. Ahead(n - 1) \in CodeAddr /\ Ahead(n) \notin CodeAddr
    BY <1>1, <1>2, <2>1, <2>2, AheadRange
  <2>4. Ahead(n) = Ahead(n - 1) + 4
    <3>1. regs[RP] + 4 * (n - 1) \in Int /\ (regs[RP] + 4 * (n - 1)) + 4 = regs[RP] + 4 * n
      BY <1>2, PcRange
    <3>2. Ahead(n - 1) + 4 < AddrHalf
      BY <2>3, SizeAssumption, AddrFacts DEF CodeAddr
    <3> QED
      BY <3>1, <3>2, OffsetNext DEF Ahead
  <2>5. Ahead(n - 1) \in CSize - 8 .. CSize - 5
    BY <2>3, <2>4, SizeAssumption DEF CodeAddr
  <2> QED
    BY <2>2, <2>3, <2>5 DEF Sealed
<1> QED
  BY <1>3, <1>4

(* Every step of the prefetching interpreter is a step of the plain one or *)
(* leaves the machine alone.                                               *)
LEMMA BurstStepSimulates ==
  ASSUME BurstInv, Sealed(code), [BurstNext]_allvars
  PROVE  [Step]_vmvars
<1>1. CASE FillCache
  BY <1>1 DEF FillCache
<1>2. CASE FillFault
  BY <1>2, FaultAtPc DEF FillFault, Step, FetchFault
<1>3. CASE BurstStep
  BY <1>3, CachedIsFetched DEF BurstStep, Step, FetchAndInterpret
<1>4. CASE UNCHANGED allvars
  BY <1>4 DEF allvars
<1> QED
  BY <1>1, <1>2, <1>3, <1>4 DEF BurstNext

(* No instruction writes the code, so that what is sealed stays sealed.    *)
LEMMA StaysSealed ==
  ASSUME Sealed(code), [BurstNext]_allvars
  PROVE  Sealed(code)'
<1>1. code' = code
  BY DEF BurstNext, FillCache, FillFault, CodeFault, BurstStep, Interpret, allvars, vmvars
<1> QED
  BY <1>1 DEF Sealed

(* The types: a chunk is never longer than the cache, whatever the code,   *)
(* and the place in it never behind its end.                               *)
THEOREM BurstTypeCorrect == BurstSpec => []BurstTypeOK
<1>1. BurstInit => BurstInv
  BY BurstInitInv
<1>2. BurstInv /\ [BurstNext]_allvars => BurstInv'
  BY NextKeepsInv
<1>3. BurstInv => BurstTypeOK
  BY CacheAssumption DEF BurstInv, BurstTypeOK
<1> QED
  BY <1>1, <1>2, <1>3, PTL DEF BurstSpec

(* Whatever the programs and however long the chunk, the cached commands   *)
(* still to run are those a fetch would find when they run.                *)
THEOREM CacheStaysCoherent == BurstSpec => []CacheCoherent
<1>1. BurstInit => BurstInv
  BY BurstInitInv
<1>2. BurstInv /\ [BurstNext]_allvars => BurstInv'
  BY NextKeepsInv
<1>3. BurstInv => CacheCoherent
  BY DEF BurstInv
<1> QED
  BY <1>1, <1>2, <1>3, PTL DEF BurstSpec

(* On sealed programs ExecutePrefetch does exactly what Execute may do:    *)
(* same results, same faults, same output, instruction by instruction.     *)
THEOREM BurstImplementsExec ==
  ASSUME AllSealed
  PROVE  BurstSpec => ExecSafety
<1>1. BurstInit => BurstInv /\ Sealed(code) /\ VMInit
  BY BurstInitInv DEF BurstInit, VMInit, AllSealed
<1>2. BurstInv /\ Sealed(code) /\ [BurstNext]_allvars => BurstInv' /\ Sealed(code)'
  BY NextKeepsInv, StaysSealed
<1>3. BurstInv /\ Sealed(code) /\ [BurstNext]_allvars => [Step]_vmvars
  BY BurstStepSimulates
<1> QED
  BY <1>1, <1>2, <1>3, PTL DEF BurstSpec, ExecSafety
=============================================================================
