------------------------------ MODULE ZhvmExec ------------------------------
(***************************************************************************)
(* Execute: the machine run one instruction at a time.  This is what the   *)
(* prefetching interpreter of ZhvmBurst has to look like from outside.     *)
(***************************************************************************)
EXTENDS ZhvmInterpreter

(* GetCode throws before Invoke drops the flag: nothing else changes.      *)
CodeFault ==
  /\ status' = "codefault"
  /\ UNCHANGED <<regs, sflag, code, ddata, funcs>>
  /\ console' = << >>

Pc == Offset(regs[RP])

FetchFault == ~CodeOk(Pc) /\ CodeFault

FetchAndInterpret == CodeOk(Pc) /\ Interpret(code[Pc])

Step == status = "run" /\ (FetchFault \/ FetchAndInterpret)

(* "while (result == IR_RUN) result = Step(mem)": nothing but a result     *)
(* other than IR_RUN or an exception ends the loop, so it is weakly fair.  *)
ExecSpec == VMInit /\ [][Step]_vmvars /\ WF_vmvars(Step)

-----------------------------------------------------------------------------
(***************************************************************************)
(* Properties.                                                             *)
(***************************************************************************)
(* The command Step is about to interpret, when it gets that far.          *)
Fetching == status = "run" /\ CodeOk(Pc)
Current  == code[Pc]

(* An instruction that throws leaves the data and every register as they   *)
(* were, so that the machine can be inspected and resumed.  The one        *)
(* exception is the stack pointer of a refused zcl, which InterpretCommand *)
(* moves before SetLong checks the address; even then the register zcl was *)
(* to load, $d, is not lost.                                               *)
FaultKeepsMachine ==
  [][ status' \in {"codefault", "datafault"} =>
        /\ ddata' = ddata
        /\ \A x \in Reg :
             regs'[x] # regs[x] =>
               Fetching /\ Current.opc = "zcl" /\ x = Current.s0 ]_vmvars

(* The registers an instruction may write, read off the command alone.     *)
MayWrite(c) ==
  CASE c.opc \in ArithOps \cup {"cmz", "cmn", "ldb", "lds", "ldl", "ldq", "cmp"}
         -> {c.dst}
    [] c.opc \in {"zcl", "ret"} -> {c.dst, c.s0}
    [] c.opc = "ccl" -> {RA}
    [] OTHER -> {}

(* Whatever the set flag held before (a loaded image brings its own), an   *)
(* instruction that ran changes no register but those it names, and moves  *)
(* the program counter by exactly one command unless it names RP.  In      *)
(* particular a write to $z neither sticks nor holds the counter back.     *)
WritesOnlyNamed ==
  [][ Fetching /\ status' = "run" =>
        \A x \in Reg \ MayWrite(Current) :
          regs'[x] = IF x = RP THEN Wrap(regs[RP] + 4) ELSE regs[x] ]_vmvars

(* cpy and cmp between addresses of the segment, its end included, are     *)
(* defined for every length, also a negative one that arrives as a huge    *)
(* size_t: the clipped block stays in the segment, and cpy leaves every    *)
(* byte in front of its destination, and behind the length asked for,      *)
(* alone.                                                                  *)
BlocksStayInSegment ==
  [][ /\ Fetching
      /\ Current.opc \in {"cpy", "cmp"}
      /\ {Offset(regs[Current.dst]), Offset(regs[Current.s0])} \subseteq 0 .. DSize
      => /\ status' = "run"
         /\ \A a \in DataAddr : ddata'[a] # ddata[a] =>
              /\ a >= Offset(regs[Current.dst])
              /\ Operand(regs, Current) >= 0 =>
                   a < Offset(regs[Current.dst]) + Operand(regs, Current) ]_vmvars

-----------------------------------------------------------------------------
(***************************************************************************)
(* Properties of the word algebra, for the words the registers hold.       *)
(***************************************************************************)
Held == {regs[r] : r \in Reg}

(* / truncates toward zero and % takes the sign of the dividend, for every *)
(* pair of signs and at both ends of the range.                            *)
DivisionTruncates ==
  \A x, y \in Held : ~MayTrap("div", x, y) =>
    LET q == Alu("div", x, y)
        r == Alu("mod", x, y)
    IN /\ x = q * y + r
       /\ Abs(r) < Abs(y)
       /\ r = 0 \/ (r < 0) = (x < 0)

(* A cell read back is the value stored, sign-extended from the cell's     *)
(* width, at every offset a store may use; a quad is its two longs, low    *)
(* one first; a store into the upper half leaves the lower one alone.      *)
CellsRoundTrip ==
  \A x, y \in Held, o \in {Offset(z) : z \in Held} : DataOk(o, 8) =>
    LET m8 == SetCell(ddata, o, 8, x)
    IN /\ GetCell(m8, o, 8) = x
       /\ GetCell(m8, o + 4, 4) * (2 * Half4) + U4(m8, o) = x
       /\ \A n \in {1, 2, 4} :
            LET half == CASE n = 1 -> Half1 [] n = 2 -> Half2 [] n = 4 -> Half4
                m    == SetCell(m8, o + 4, n, y)
                v    == GetCell(m, o + 4, n)
            IN /\ v \in -half .. half - 1
               /\ (v - y) % (2 * half) = 0
               /\ GetCell(m, o, 4) = GetCell(m8, o, 4)
=============================================================================
