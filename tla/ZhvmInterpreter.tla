-------------------------- MODULE ZhvmInterpreter ---------------------------
(***************************************************************************)
(* One ZHVM machine (class memory) and what every instruction does to it   *)
(* (InterpretCommand, followed by the program counter's advance that Step  *)
(* and BurstStep share).                                                   *)
(*                                                                         *)
(* The segments.  An access of n bytes at offset o passes the check        *)
(* "o + n < size", computed in size_t: offsets -n .. size - n - 1 pass, so *)
(* the machine also reaches the 4 bytes in front of the code and the 8 in  *)
(* front of the data.  They are modelled, with any content.  A register    *)
(* becomes an address by conversion to off_t (Offset).  Code is not        *)
(* writable, and its bytes are modelled as the command UnpackCommand makes *)
(* of the four bytes at each offset.                                       *)
(***************************************************************************)
EXTENDS ZhvmWord, Sequences

CONSTANTS
  Reg,       \* the register numbers programs use
  CSize,     \* csize, bytes of code
  DSize,     \* dsize, bytes of data
  Images,    \* the machines execution may start from
  Inputs     \* what std::cin may deliver

RZ == 0
RA == 1
RS == 13
RP == 15

CodeAddr == -4 .. CSize - 5
DataAddr == -8 .. DSize - 1

Opcodes  == ArithOps \cup
  {"hlt", "cmz", "cmn", "ldb", "lds", "ldl", "ldq", "svb", "svs", "svl", "svq",
   "ccl", "cpy", "cmp", "zcl", "ret", "nop", "reserved"}

ImmVal   == -8192 .. 8191
Command  == [opc : Opcodes, dst : Reg, s0 : Reg, s1 : Reg, imm : ImmVal]

(* funcs: the default callback "none", or one of those the programs set.   *)
Callback == {"none", "put", "get", "putc", "getc"}
Funcs    == [0 .. 15 -> Callback]

Registers == {r \in [Reg -> Word] : r[RZ] = 0}

Image == [regs : Registers, sflag : SUBSET Reg, code : [CodeAddr -> Command],
          ddata : [DataAddr -> ByteVal], funcs : Funcs]

ASSUME RegAssumption   == Reg \subseteq 0 .. 15 /\ {RZ, RA, RP} \subseteq Reg
ASSUME SizeAssumption  == /\ CSize \in Nat /\ CSize + 4 <= AddrHalf
                          /\ DSize \in Nat /\ DSize + 8 <= AddrHalf
ASSUME ImageAssumption == Images \subseteq Image
ASSUME InputAssumption == Inputs \subseteq -Half4 .. Half4 - 1

VARIABLES
  regs,      \* the register file
  sflag,     \* the registers written since the flag was last dropped
  code,      \* command at each fetchable offset
  ddata,     \* data bytes
  funcs,     \* callbacks
  status,    \* how execution stands, see Status
  console    \* what the last instruction printed: << >> or << value >>

vmvars == <<regs, sflag, code, ddata, funcs, status, console>>

(* "run", "halt" and "reserved" are IR_RUN, IR_HALT and IR_OP_UNKNWN; the  *)
(* two faults are the exceptions of GetCode and of the data accessors;     *)
(* "killed" is SIGFPE.  "wild" is undefined behaviour that leaves the      *)
(* segments or the callback array; nothing is modelled after it.           *)
Status == {"run", "halt", "reserved", "codefault", "datafault", "killed", "wild"}

VMInit ==
  /\ \E im \in Images :
       /\ regs = im.regs
       /\ sflag = im.sflag
       /\ code = im.code
       /\ ddata = im.ddata
       /\ funcs = im.funcs
  /\ status = "run"
  /\ console = << >>

VMTypeOK ==
  /\ regs \in Registers
  /\ sflag \subseteq Reg
  /\ code \in [CodeAddr -> Command]
  /\ ddata \in [DataAddr -> ByteVal]
  /\ funcs \in Funcs
  /\ status \in Status
  /\ console \in {<< >>} \cup [1 .. 1 -> Word]

-----------------------------------------------------------------------------
(***************************************************************************)
(* Registers, bounds checks and outcomes.                                  *)
(***************************************************************************)
(* fault: $z can be written *)
SetReg_Zero(r, x, v) == [r EXCEPT ![x] = v]

SetReg(r, x, v) == IF x = RZ THEN r ELSE [r EXCEPT ![x] = v]

CodeOk(o)    == Size(o + 4) < CSize
DataOk(o, n) == Size(o + n) < DSize

(* fault: the flag is not dropped between instructions *)
Ran_KeepFlag(r, w) ==
  /\ status' = "run"
  /\ IF RP \in w \cup sflag
       THEN regs' = r /\ sflag' = sflag
       ELSE regs' = SetReg(r, RP, Wrap(r[RP] + 4)) /\ sflag' = {RP}

(* The instruction left registers r after dropping the flag and writing w: *)
(* RP moves on unless it is in w.  TestSetRP leaves the flag empty, the    *)
(* advance marks RP.                                                       *)
Ran(r, w) ==
  /\ status' = "run"
  /\ IF RP \in w
       THEN regs' = r /\ sflag' = {}
       ELSE regs' = SetReg(r, RP, Wrap(r[RP] + 4)) /\ sflag' = {RP}

Stop(result, r, w) == status' = result /\ regs' = r /\ sflag' = w

Silent == ddata' = ddata /\ console' = << >>

(* $s1 + imm, with $s1 read from r.                                        *)
Operand(r, c) == Wrap(r[c.s1] + c.imm)

-----------------------------------------------------------------------------
(***************************************************************************)
(* Control, arithmetic and conditional moves.                              *)
(***************************************************************************)
Hlt(c) == c.opc = "hlt" /\ Stop("halt", regs, {}) /\ Silent

Reserved(c) == c.opc = "reserved" /\ Stop("reserved", regs, {}) /\ Silent

Nop(c) == c.opc = "nop" /\ Ran(regs, {}) /\ Silent

Arith(c) ==
  LET a == regs[c.s0]
      b == Operand(regs, c)
  IN /\ c.opc \in ArithOps
     /\ ~Traps(c.opc, b)
     /\ Ran(SetReg(regs, c.dst, Alu(c.opc, a, b)), {c.dst})
     /\ Silent

Trap(c) ==
  /\ c.opc \in ArithOps
  /\ MayTrap(c.opc, regs[c.s0], Operand(regs, c))
  /\ Stop("killed", regs, {})
  /\ Silent

Moves(c) == (c.opc = "cmz") = (regs[c.s0] = 0)

CondMove(c) ==
  /\ c.opc \in {"cmz", "cmn"}
  /\ IF Moves(c) THEN Ran(SetReg(regs, c.dst, Operand(regs, c)), {c.dst})
                 ELSE Ran(regs, {})
  /\ Silent

-----------------------------------------------------------------------------
(***************************************************************************)
(* Loads and stores.  A refused access throws before anything is written.  *)
(***************************************************************************)
Width(opc) ==
  CASE opc \in {"ldb", "svb"} -> 1
    [] opc \in {"lds", "svs"} -> 2
    [] opc \in {"ldl", "svl"} -> 4
    [] opc \in {"ldq", "svq"} -> 8

Load(c) ==
  LET n == Width(c.opc)
      o == Offset(regs[c.s0])
  IN /\ c.opc \in {"ldb", "lds", "ldl", "ldq"}
     /\ DataOk(o, n)
     /\ Ran(SetReg(regs, c.dst,
                   Wrap(GetCell(ddata, o, n) + regs[c.s1] + c.imm)), {c.dst})
     /\ Silent

Store(c) ==
  LET n == Width(c.opc)
      o == Offset(regs[c.dst])
  IN /\ c.opc \in {"svb", "svs", "svl", "svq"}
     /\ DataOk(o, n)
     /\ Ran(regs, {})
     /\ ddata' = SetCell(ddata, o, n, regs[c.s0] + regs[c.s1] + c.imm)
     /\ console' = << >>

AccessFault(c) ==
  /\ \/ c.opc \in {"ldb", "lds", "ldl", "ldq"} /\ ~DataOk(Offset(regs[c.s0]), Width(c.opc))
     \/ c.opc \in {"svb", "svs", "svl", "svq"} /\ ~DataOk(Offset(regs[c.dst]), Width(c.opc))
     \/ c.opc = "ret" /\ ~DataOk(Offset(regs[c.s0]), 4)
  /\ Stop("datafault", regs, {})
  /\ Silent

-----------------------------------------------------------------------------
(***************************************************************************)
(* cpy and cmp.  memory::Copy and Compare clip the length to what is left  *)
(* behind both addresses, computed in size_t; nothing else is checked.     *)
(***************************************************************************)
Least(x, y) == IF x <= y THEN x ELSE y

Clip(l, o) == Least(l, Size(DSize - o))

(* fault: only the destination clips the length *)
BlockLen_OneSide(d, s, l) == Clip(Size(l), d)

BlockLen(d, s, l) == Clip(Clip(Size(l), d), s)

InSegment(o, l) == -8 <= o /\ o + l <= DSize

WildBlock(d, s, l) == l # 0 /\ ~(InSegment(d, l) /\ InSegment(s, l))

(* memcmp returns the difference of the first bytes that differ, or only   *)
(* its sign.                                                               *)
CompareResults(d, s, l) ==
  LET diff(i) == ddata[d + i] - ddata[s + i]
      first   == {i \in 0 .. l - 1 :
                    diff(i) # 0 /\ \A j \in 0 .. i - 1 : diff(j) = 0}
  IN IF first = {} THEN {0}
     ELSE UNION {{diff(i), IF diff(i) < 0 THEN -1 ELSE 1} : i \in first}

Copy(c) ==
  LET d == Offset(regs[c.dst])
      s == Offset(regs[c.s0])
      l == BlockLen(d, s, Operand(regs, c))
  IN /\ c.opc = "cpy"
     /\ ~WildBlock(d, s, l)
     /\ Ran(regs, {})
     /\ ddata' = [a \in DataAddr |->
                    IF a \in d .. d + l - 1 THEN ddata[s + (a - d)] ELSE ddata[a]]
     /\ console' = << >>

Compare(c) ==
  LET d == Offset(regs[c.dst])
      s == Offset(regs[c.s0])
      l == BlockLen(d, s, Operand(regs, c))
  IN /\ c.opc = "cmp"
     /\ ~WildBlock(d, s, l)
     /\ \E v \in CompareResults(d, s, l) : Ran(SetReg(regs, c.dst, v), {c.dst})
     /\ Silent

Wild(c) ==
  LET d == Offset(regs[c.dst])
      s == Offset(regs[c.s0])
      l == BlockLen(d, s, Operand(regs, c))
  IN /\ \/ c.opc \in {"cpy", "cmp"} /\ WildBlock(d, s, l)
        \/ c.opc = "ccl" /\ c.s0 + c.s1 + c.imm \notin 0 .. 15
     /\ Stop("wild", regs, {})
     /\ Silent

-----------------------------------------------------------------------------
(***************************************************************************)
(* ccl.  The index is the sum of the register numbers and the immediate,   *)
(* not of what the registers hold.                                         *)
(***************************************************************************)
Index(c) == c.s0 + c.s1 + c.imm

Calls(c, kinds) ==
  c.opc = "ccl" /\ Index(c) \in 0 .. 15 /\ funcs[Index(c)] \in kinds

(* none, the callback of an empty slot, halts the machine.                 *)
CallNone(c) == Calls(c, {"none"}) /\ Stop("halt", regs, {}) /\ Silent

(* vm_put prints $a, vm_putc its low byte.                                 *)
CallPut(c) ==
  /\ Calls(c, {"put", "putc"})
  /\ Ran(regs, {})
  /\ ddata' = ddata
  /\ console' = << IF funcs[Index(c)] = "put" THEN regs[RA] ELSE ByteOf(regs[RA], 0) >>

(* vm_get reads an int into $a, vm_getc a char; 0 when the stream fails.   *)
Readable(kind) ==
  {0} \cup IF kind = "get" THEN Inputs ELSE Inputs \cap (-Half1 .. Half1 - 1)

CallGet(c) ==
  /\ Calls(c, {"get", "getc"})
  /\ \E v \in Readable(funcs[Index(c)]) : Ran(SetReg(regs, RA, v), {RA})
  /\ Silent

-----------------------------------------------------------------------------
(***************************************************************************)
(* zcl pushes $d + 4 on the stack at $s0 and loads $d; the stack pointer   *)
(* has already moved when the push is refused.  $d and $s1 are read after  *)
(* the pointer moved.  ret pops.                                           *)
(***************************************************************************)
Below(c) == Wrap(regs[c.s0] - 4)

(* fault: the return address is the address of the call *)
ZCall_ReturnsToCall(c) ==
  LET r == SetReg(regs, c.s0, Below(c))
  IN /\ c.opc = "zcl"
     /\ DataOk(Offset(Below(c)), 4)
     /\ Ran(SetReg(r, c.dst, Operand(r, c)), {c.s0, c.dst})
     /\ ddata' = SetCell(ddata, Offset(Below(c)), 4, r[c.dst])
     /\ console' = << >>

ZCall(c) ==
  LET r == SetReg(regs, c.s0, Below(c))
  IN /\ c.opc = "zcl"
     /\ DataOk(Offset(Below(c)), 4)
     /\ Ran(SetReg(r, c.dst, Operand(r, c)), {c.s0, c.dst})
     /\ ddata' = SetCell(ddata, Offset(Below(c)), 4, r[c.dst] + 4)
     /\ console' = << >>

(* fault: the push happens after the register was loaded, and is checked last *)
ZCallFault_AllMoved(c) ==
  LET r == SetReg(regs, c.s0, Below(c))
  IN /\ c.opc = "zcl"
     /\ ~DataOk(Offset(Below(c)), 4)
     /\ Stop("datafault", SetReg(r, c.dst, Operand(r, c)), {c.s0, c.dst})
     /\ Silent

ZCallFault(c) ==
  /\ c.opc = "zcl"
  /\ ~DataOk(Offset(Below(c)), 4)
  /\ Stop("datafault", SetReg(regs, c.s0, Below(c)), {c.s0})
  /\ Silent

(* fault: ret leaves the stack pointer where it was *)
Ret_NoPop(c) ==
  LET o == Offset(regs[c.s0])
  IN /\ c.opc = "ret"
     /\ DataOk(o, 4)
     /\ Ran(SetReg(regs, c.dst, Wrap(GetCell(ddata, o, 4) + regs[c.s1] + c.imm)),
            {c.s0, c.dst})
     /\ Silent

Ret(c) ==
  LET o == Offset(regs[c.s0])
      r == SetReg(regs, c.s0, Wrap(regs[c.s0] + 4))
  IN /\ c.opc = "ret"
     /\ DataOk(o, 4)
     /\ Ran(SetReg(r, c.dst, Wrap(GetCell(ddata, o, 4) + r[c.s1] + c.imm)),
            {c.s0, c.dst})
     /\ Silent

-----------------------------------------------------------------------------
(* InterpretCommand and the advance behind it, for the command c.          *)
Interpret(c) ==
  /\ \/ Hlt(c) \/ Reserved(c) \/ Nop(c)
     \/ Arith(c) \/ Trap(c) \/ CondMove(c)
     \/ Load(c) \/ Store(c) \/ AccessFault(c)
     \/ Copy(c) \/ Compare(c) \/ Wild(c)
     \/ CallNone(c) \/ CallPut(c) \/ CallGet(c)
     \/ ZCall(c) \/ ZCallFault(c) \/ Ret(c)
  /\ UNCHANGED <<code, funcs>>
=============================================================================
