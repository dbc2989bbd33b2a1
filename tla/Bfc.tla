--------------------------------- MODULE Bfc ---------------------------------
(***************************************************************************)
(* The brainfuck compiler, and what becomes of the text it prints: the     *)
(* assembler, in the form of its specification ZhvmAssembly, makes a       *)
(* machine of it, and ZhvmExec runs the machine.                           *)
(***************************************************************************)
EXTENDS ZhvmExec, FiniteSets

CONSTANTS
  Texts,     \* the texts bfc may be given, sequences of characters
  Segments,  \* what a new data segment may hold: NewImage does not clear it
  MaxOut     \* bound on the bytes printed

ASSUME TextsAssumption == \A t \in Texts : t \in Seq(STRING)
ASSUME SegmentsAssumption == Segments \subseteq [DataAddr -> ByteVal]

RB == 2
RC == 3
ASSUME RegistersAssumption == {RB, RC} \subseteq Reg

VARIABLES
  text,
  rest,           \* what yylex has not read yet
  counter,
  counter_stack,  \* its top is the head
  printed,        \* the statements printed, as ZhvmAssembly has them
  origin,         \* history: for each command printed, see Emit
  phase,          \* "compile", "error", "printed", "refused", "run"
  out             \* history: the bytes the machine printed

compiler == <<text, rest, counter, counter_stack, printed, origin>>
vars     == <<compiler, phase, out, vmvars>>

Commands == {">", "<", "+", "-", ".", ",", "[", "]"}
IsCommand(c) == c \in Commands
Program(t)   == SelectSeq(t, IsCommand)

-----------------------------------------------------------------------------
(***************************************************************************)
(* bfc.lex: the longest token at the head of the rest.                     *)
(***************************************************************************)
IsZero == Len(rest) >= 3 /\ rest[1] = "[" /\ rest[2] \in {"+", "-"} /\ rest[3] = "]"

(* How many of the first character there are.                              *)
count == CHOOSE n \in 1 .. Len(rest) :
           /\ \A i \in 1 .. n : rest[i] = rest[1]
           /\ n = Len(rest) \/ rest[n + 1] # rest[1]

Reading(c) == phase = "compile" /\ rest # << >> /\ rest[1] = c

-----------------------------------------------------------------------------
(***************************************************************************)
(* What is printed.                                                        *)
(***************************************************************************)
NoLabel == << >>
Cmd(opc, dst, s0, imm) ==
  [kind |-> "cmd", opc |-> opc, dst |-> dst, s0 |-> s0, s1 |-> RZ, imm |-> imm,
   label |-> NoLabel]
CmdTo(opc, dst, s0, l) == [Cmd(opc, dst, s0, 0) EXCEPT !.label = l]
LabelLine(l) == [kind |-> "label", label |-> l]
IsCmd(s) == s.kind = "cmd"

(* The word and the number written behind it; no two have one text.        *)
LabelOf(n) == << "label", n >>
EndOf(n)   == << "end", n >>

(* cmds, and behind them labels, are printed for a token of n characters;  *)
(* k commands are counted.  origin has for each the characters of the      *)
(* program done when it is reached, and whether $c holds the pointer       *)
(* there: of four, the third does what the token says and the last         *)
(* restores $a.                                                            *)
Emit(n, k, cmds, labels) ==
  /\ printed' = printed \o cmds \o labels
  /\ counter' = counter + k
  /\ rest' = SubSeq(rest, n + 1, Len(rest))
  /\ LET done == Len(Program(text)) - Len(Program(rest))
     IN  origin' = origin \o
           [i \in DOMAIN cmds |->
              [done |-> IF i = 4 THEN done + n ELSE done, saved |-> i > 2 /\ Len(cmds) = 4]]
  /\ UNCHANGED <<text, phase, out, vmvars>>

MovlN ==
  /\ Reading(">")
  /\ Emit(count, 1, << Cmd("add", RA, RA, count) >>, << >>)
  /\ UNCHANGED counter_stack

MovrN ==
  /\ Reading("<")
  /\ Emit(count, 1, << Cmd("sub", RA, RA, count) >>, << >>)
  /\ UNCHANGED counter_stack

AddN ==
  /\ Reading("+")
  /\ Emit(count, 3, << Cmd("ldb", RB, RA, 0), Cmd("add", RB, RB, count),
                       Cmd("svb", RA, RB, 0) >>, << >>)
  /\ UNCHANGED counter_stack

SubN ==
  /\ Reading("-")
  /\ Emit(count, 3, << Cmd("ldb", RB, RA, 0), Cmd("sub", RB, RB, count),
                       Cmd("svb", RA, RB, 0) >>, << >>)
  /\ UNCHANGED counter_stack

(* fault: the last command is not counted                                  *)
Put_CountsThree ==
  /\ Reading(".")
  /\ Emit(1, 3, << Cmd("add", RC, RA, 0), Cmd("ldb", RA, RA, 0),
                   Cmd("ccl", RZ, RZ, 2), Cmd("add", RA, RC, 0) >>, << >>)
  /\ UNCHANGED counter_stack

Put ==
  /\ Reading(".")
  /\ Emit(1, 4, << Cmd("add", RC, RA, 0), Cmd("ldb", RA, RA, 0),
                   Cmd("ccl", RZ, RZ, 2), Cmd("add", RA, RC, 0) >>, << >>)
  /\ UNCHANGED counter_stack

Get ==
  /\ Reading(",")
  /\ Emit(1, 4, << Cmd("add", RC, RA, 0), Cmd("ccl", RZ, RZ, 3),
                   Cmd("svb", RC, RA, 0), Cmd("add", RA, RC, 0) >>, << >>)
  /\ UNCHANGED counter_stack

Zero ==
  /\ Reading("[") /\ IsZero
  /\ Emit(3, 2, << Cmd("add", RB, RZ, 0), Cmd("svb", RA, RB, 0) >>, << >>)
  /\ UNCHANGED counter_stack

(* fault: the number kept is the offset of the loop's code                 *)
Loop_KeepsOffset ==
  /\ Reading("[") /\ ~IsZero
  /\ Emit(1, 2, << Cmd("ldb", RB, RA, 0), CmdTo("cmz", RP, RB, EndOf(counter)) >>,
                << LabelLine(LabelOf(counter)) >>)
  /\ counter_stack' = << 4 * counter >> \o counter_stack

Loop ==
  /\ Reading("[") /\ ~IsZero
  /\ Emit(1, 2, << Cmd("ldb", RB, RA, 0), CmdTo("cmz", RP, RB, EndOf(counter)) >>,
                << LabelLine(LabelOf(counter)) >>)
  /\ counter_stack' = << counter >> \o counter_stack

(* fault: a bracket closes the outermost loop                              *)
End_Outermost ==
  /\ Reading("]") /\ counter_stack # << >>
  /\ LET n == counter_stack[Len(counter_stack)]
     IN  Emit(1, 2, << Cmd("ldb", RB, RA, 0), CmdTo("cmn", RP, RB, LabelOf(n)) >>,
                    << LabelLine(EndOf(Head(counter_stack))) >>)
  /\ counter_stack' = Tail(counter_stack)

End ==
  /\ Reading("]") /\ counter_stack # << >>
  /\ Emit(1, 2, << Cmd("ldb", RB, RA, 0), CmdTo("cmn", RP, RB, LabelOf(Head(counter_stack))) >>,
                << LabelLine(EndOf(Head(counter_stack))) >>)
  /\ counter_stack' = Tail(counter_stack)

(* Any other character.                                                    *)
Ignored ==
  /\ phase = "compile" /\ rest # << >> /\ ~IsCommand(rest[1])
  /\ rest' = Tail(rest)
  /\ UNCHANGED <<text, counter, counter_stack, printed, origin, phase, out, vmvars>>

Fails ==
  /\ phase' = "error"
  /\ UNCHANGED <<compiler, out, vmvars>>

UnexpectedClosing == Reading("]") /\ counter_stack = << >> /\ Fails

ClosingExpected ==
  /\ phase = "compile" /\ rest = << >> /\ counter_stack # << >>
  /\ Fails

Finish ==
  /\ phase = "compile" /\ rest = << >> /\ counter_stack = << >>
  /\ printed' = Append(printed, Cmd("hlt", RZ, RZ, 0))
  /\ origin' = Append(origin, [done |-> Len(Program(text)), saved |-> FALSE])
  /\ phase' = "printed"
  /\ UNCHANGED <<text, rest, counter, counter_stack, out, vmvars>>

-----------------------------------------------------------------------------
(***************************************************************************)
(* The assembler and the machine.                                          *)
(***************************************************************************)
Asm == INSTANCE ZhvmAssembly WITH ImmHalf <- 8192

(* Code behind the program is left as it was; it is no command here, so    *)
(* that a machine that runs into it is noticed.                            *)
Unwritten == [opc |-> "reserved", dst |-> RZ, s0 |-> RZ, s1 |-> RZ, imm |-> 0]

Callbacks ==
  [k \in 0 .. 15 |-> CASE k = 0 -> "put" [] k = 1 -> "get"
                       [] k = 2 -> "putc" [] k = 3 -> "getc" [] OTHER -> "none"]

Accepted == Asm!Legal(printed, 0, 0) /\ Asm!Room(printed, 0, 0)

Assemble ==
  /\ phase = "printed" /\ Accepted
  /\ LET c == Asm!CodeOf(printed, 0, 0)
     IN  code' = [o \in CodeAddr |-> IF o \in DOMAIN c THEN c[o] ELSE Unwritten]
  /\ phase' = "run"
  /\ UNCHANGED <<compiler, out, regs, sflag, ddata, funcs, status, console>>

Refused ==
  /\ phase = "printed" /\ ~Accepted
  /\ phase' = "refused"
  /\ UNCHANGED <<compiler, out, vmvars>>

Run ==
  /\ phase = "run" /\ Len(out) < MaxOut
  /\ Step
  /\ out' = out \o console'
  /\ UNCHANGED <<compiler, phase>>

Init ==
  /\ text \in Texts
  /\ rest = text
  /\ counter = 0 /\ counter_stack = << >>
  /\ printed = << >> /\ origin = << >>
  /\ phase = "compile"
  /\ out = << >>
  /\ regs = [r \in Reg |-> 0] /\ sflag = {}
  /\ code = [o \in CodeAddr |-> Unwritten]
  /\ ddata \in Segments
  /\ funcs = Callbacks
  /\ status = "run" /\ console = << >>

Next ==
  \/ MovlN \/ MovrN \/ AddN \/ SubN \/ Put \/ Get \/ Zero \/ Loop \/ End
  \/ Ignored \/ UnexpectedClosing \/ ClosingExpected \/ Finish
  \/ Assemble \/ Refused \/ Run

(* Each of the three programs goes on until it has an end.                 *)
Spec == Init /\ [][Next]_vars /\ WF_vars(Next)

-----------------------------------------------------------------------------
(***************************************************************************)
(* What must hold.                                                         *)
(***************************************************************************)
(* Types, of the compiler and of the machine it ends with.                 *)
BfcTypeOK ==
  /\ VMTypeOK
  /\ counter \in Nat /\ counter_stack \in Seq(0 .. counter)
  /\ Len(origin) = Cardinality({i \in DOMAIN printed : IsCmd(printed[i])})
  /\ phase \in {"compile", "error", "printed", "refused", "run"}

(* The counter is the number of commands printed, which is what the size   *)
(* at the end of the text and the numbers of the labels rest on; so no     *)
(* label is defined twice, and of an open loop its beginning is and its    *)
(* end is not.                                                             *)
Labels == {i \in DOMAIN printed : printed[i].kind = "label"}
Defined(l) == {i \in Labels : printed[i].label = l}

LabelsOnce ==
  /\ counter = Len(origin) - (IF phase \in {"printed", "refused", "run"} THEN 1 ELSE 0)
  /\ \A i \in Labels : Defined(printed[i].label) = {i}
  /\ \A i \in DOMAIN counter_stack :
       /\ Defined(LabelOf(counter_stack[i])) # {}
       /\ Defined(EndOf(counter_stack[i])) = {}

(* A byte at o can be accessed when o + 1 < dsize, in size_t.              *)
Cells  == -1 .. DSize - 2
TapeOf(d) == [c \in Cells |-> d[c]]
At     == origin[regs[RP] \div 4 + 1]

(* The commands of a program whose code always fits.                       *)
Fits == (CSize - 5) \div 16

Language == INSTANCE Brainfuck WITH
  Programs <- {Program(t) : t \in Texts},
  Tapes    <- {TapeOf(d) : d \in Segments},
  Given    <- {ByteOf(v, 0) : v \in Readable("getc")},
  prog     <- Program(text),
  ip       <- IF phase = "run" THEN At.done + 1 ELSE 1,
  tape     <- TapeOf(ddata),
  ptr      <- IF phase # "run" THEN 0 ELSE IF At.saved THEN regs[RC] ELSE regs[RA],
  state    <- CASE phase \in {"compile", "printed"} -> "given"
                [] phase \in {"error", "refused"} -> "refused"
                [] OTHER -> IF status = "datafault" THEN "fault" ELSE status

(* The machine does what the program says, command by command, stops when  *)
(* it stops, and a text is refused only when its brackets do not match or  *)
(* its code does not fit.                                                  *)
ProgramMeans == Language!Spec
=============================================================================
