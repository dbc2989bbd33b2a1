---------------------------- MODULE ZhvmAssembly ----------------------------
(***************************************************************************)
(* What an assembly text means, line by line and without a parser: the     *)
(* textbook assembler of two passes.  The first pass knows where every     *)
(* line's code or data goes, the second puts values for labels.  It is     *)
(* the specification the assembler of ZhvmCmplv2 is checked against.       *)
(*                                                                         *)
(* A statement is a record: kind says which fields count.                  *)
(*   "cmd"     opc, dst, s0, s1, and imm or, when it has one, the label    *)
(*   "label"   label is defined here                                       *)
(*   "code"    labels are code offsets from here on                        *)
(*   "data"    labels are data offsets from here on                        *)
(*   "cell"    imm goes to the next width bytes of data                    *)
(*   "set"     register dst starts as imm or, when it has one, the label   *)
(*   "other"   not a statement of the language                             *)
(***************************************************************************)
EXTENDS ZhvmWord, Sequences, FiniteSetsExt

CONSTANTS
  ImmHalf,   \* immediates are below ImmHalf; 8192
  CSize,     \* bytes of code
  DSize,     \* bytes of data
  Reg,       \* registers texts use
  NoLabel    \* the label of a statement that has none

ASSUME ImmAssumption  == ImmHalf \in Nat \ {0}
ASSUME SizeAssumption == CSize \in Nat /\ DSize \in Nat
ASSUME RegAssumption  == Reg \subseteq 0 .. 15 /\ 0 \in Reg

RZ == 0

ImmMax == ImmHalf
ImmMin == -ImmHalf

(* fault: the immediate is not cut to its bits *)
Packed_Whole(x) == x

(* An immediate as PackCommand stores it and UnpackCommand reads it.       *)
Packed(x) == Signed(x % (2 * ImmHalf), ImmHalf)

(* Commands before line i, and bytes of data: four for each command, and   *)
(* for each cell its width.                                                *)
Bytes(p, i) ==
  {b \in (1 .. i - 1) \X (1 .. 8) : p[b[1]].kind = "cell" /\ b[2] <= p[b[1]].width}

CodeUpTo(p, i) == 4 * Cardinality({j \in 1 .. i - 1 : p[j].kind = "cmd"})
DataUpTo(p, i) == Cardinality(Bytes(p, i))

(* First pass: where line i stands, in the section it is in.               *)
Switches(p, i) == {j \in 1 .. i - 1 : p[j].kind \in {"code", "data"}}
InData(p, i)   == Switches(p, i) # {} /\ p[Max(Switches(p, i))].kind = "data"

Place1(p, i, c0, d0) ==
  IF InData(p, i) THEN d0 + DataUpTo(p, i) ELSE c0 + CodeUpTo(p, i)

Definitions(p, l) == {i \in DOMAIN p : p[i].kind = "label" /\ p[i].label = l}
LabelAt(p, l, c0, d0) == Place1(p, CHOOSE i \in Definitions(p, l) : TRUE, c0, d0)

(* The value of the operand of line i.                                     *)
Value(p, i, c0, d0) ==
  IF p[i].label = NoLabel THEN p[i].imm ELSE LabelAt(p, p[i].label, c0, d0)

(* A label is defined once, anywhere if a command uses it and before if a  *)
(* register does; what a command uses passes the range test.               *)
Legal(p, c0, d0) ==
  \A i \in DOMAIN p :
    /\ p[i].kind = "cmd" =>
         /\ p[i].label # NoLabel => Definitions(p, p[i].label) # {}
         /\ Value(p, i, c0, d0) \in ImmMin .. ImmMax
    /\ p[i].kind = "set" =>
         (p[i].label # NoLabel => \E j \in Definitions(p, p[i].label) : j < i)
    /\ p[i].kind = "label" => Definitions(p, p[i].label) = {i}

Room(p, c0, d0) ==
  \A i \in DOMAIN p :
    CASE p[i].kind = "cmd"  -> c0 + CodeUpTo(p, i) + 4 < CSize
      [] p[i].kind = "cell" -> d0 + DataUpTo(p, i) + p[i].width < DSize
      [] OTHER -> TRUE

(* Second pass.                                                            *)
CodeOf(p, c0, d0) ==
  LET Cmds == {i \in DOMAIN p : p[i].kind = "cmd"}
      LineAt(o) == CHOOSE i \in Cmds : c0 + CodeUpTo(p, i) = o
  IN [o \in {c0 + CodeUpTo(p, i) : i \in Cmds} |->
        LET s == p[LineAt(o)]
        IN [opc |-> s.opc, dst |-> s.dst, s0 |-> s.s0, s1 |-> s.s1,
            imm |-> Packed(Value(p, LineAt(o), c0, d0))]]

(* Every cell reads back as what was written, and nothing else has changed *)
(* in data that was all zero.                                              *)
DataIs(p, m, d0) ==
  /\ \A i \in DOMAIN p : p[i].kind = "cell" =>
       GetCell(m, d0 + DataUpTo(p, i), p[i].width) = p[i].imm
  /\ \A o \in DOMAIN m :
       o \notin d0 .. d0 + DataUpTo(p, Len(p) + 1) - 1 => m[o] = 0

(* The last line that sets a register decides.                             *)
RegsOf(p, r0, c0, d0) ==
  [r \in Reg |->
     LET Sets == {i \in DOMAIN p : p[i].kind = "set" /\ p[i].dst = r}
     IN IF r = RZ \/ Sets = {} THEN r0[r] ELSE Value(p, Max(Sets), c0, d0)]
=============================================================================
