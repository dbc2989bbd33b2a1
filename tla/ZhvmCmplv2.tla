----------------------------- MODULE ZhvmCmplv2 -----------------------------
(***************************************************************************)
(* The assembler (class cmplv2): command() and macro() over the tokens of  *)
(* the lexer, the label table, the fixes, and the machine written into.    *)
(*                                                                         *)
(* A text is a sequence of lines; a line has its tokens and, for ZhvmAs-   *)
(* sembly, its meaning, which the assembler does not look at.  Blank lines *)
(* and comments give no token and are left out.  The queue of two tokens   *)
(* is the front token, at pos, and whether there is another behind it.     *)
(***************************************************************************)
EXTENDS ZhvmAssembly

CONSTANTS
  Lines,     \* lines texts are made of: [text, means]
  MaxLines,  \* bound on their number
  Starts,    \* <<$p, $d>> of the machine assembled into
  Opcodes,   \* the words GetOpcode knows
  Garbage    \* what the num of a token that is no number may hold

Numbers == {"byte", "short", "long", "quad"}
TokenType == Numbers \cup
  {"error", "reg", "set", "word", "open", "close", "comma", "minus", "plus",
   "macro", "at"}
Token == [type : TokenType, num : Word, reg : Reg, opr : STRING]

Width(t) == CASE t = "byte" -> 1 [] t = "short" -> 2 [] t = "long" -> 4 [] t = "quad" -> 8

ASSUME LinesAssumption   == \A l \in Lines : l.text \in Seq(Token) /\ l.text # << >>
ASSUME StartsAssumption  == Starts \subseteq Nat \X Nat
ASSUME GarbageAssumption == Garbage \subseteq Word /\ Garbage # {}
ASSUME MaxLinesAssumption == MaxLines \in Nat

VARIABLES
  src,       \* the text
  pos,       \* line and column of the front token
  stack,     \* the stack of states, its top first
  cmd,       \* regs, opcode, imm and signum of command()
  labels,    \* label |-> offset
  fixes,     \* <<label, offset>> of commands whose label was not defined
  codeOff,   \* code_offset
  dataOff,   \* data_offset
  cur,       \* the offset cur_offset points to
  code,      \* commands written, by offset
  data,      \* the data segment
  mregs,     \* the machine's registers
  result,    \* "run"; TT2_EOF is "ok", TT2_ERROR "error", an exception "thrown"
  start,     \* history: codeOff and dataOff of the beginning
  uses,      \* history: <<label, offset>> of every @ that was assembled
  said       \* history: has an error message been printed

tables  == <<labels, fixes, codeOff, dataOff, cur>>
memory  == <<code, data, mregs>>
vars    == <<src, pos, stack, cmd, tables, memory, result, start, uses, said>>

State == {"START", "DST", "SET", "OPERATOR", "OPEN", "ARGS", "SRC0",
          "COMMA_SRC0", "AFTER_COMMA_SRC0", "SRC1", "AFTER_SRC1", "SIGN",
          "NUMBER", "AT", "CLOSE", "FINISH", "BAD_END", "MACRO"}

NoCmd == [opc |-> "hlt", dst |-> RZ, s0 |-> RZ, s1 |-> RZ, imm |-> 0, sign |-> 1]

Init ==
  /\ \E n \in 0 .. MaxLines : src \in [1 .. n -> Lines]
  /\ start \in Starts
  /\ pos = << 1, 1 >>
  /\ stack = << "START" >>
  /\ cmd = NoCmd
  /\ labels = << >>
  /\ fixes = {}
  /\ codeOff = start[1]
  /\ dataOff = start[2]
  /\ cur = "code"
  /\ code = << >>
  /\ data = [o \in 0 .. DSize - 1 |-> 0]
  /\ mregs = [r \in Reg |-> 0]
  /\ result = IF src = << >> THEN "error" ELSE "run"
  /\ uses = {}
  /\ said = (src = << >>)

-----------------------------------------------------------------------------
(***************************************************************************)
(* Tokens.                                                                 *)
(***************************************************************************)
Behind(p) ==
  IF p[2] < Len(src[p[1]].text) THEN << p[1], p[2] + 1 >> ELSE << p[1] + 1, 1 >>

IsEof(p) == p[1] > Len(src)
At(p)    == src[p[1]].text[p[2]]
Type(p)  == IF IsEof(p) THEN "eof" ELSE At(p).type

(* nextToken moves on and is true unless the token moved to is the end.    *)
HasNext(p) == ~IsEof(Behind(p))

-----------------------------------------------------------------------------
(***************************************************************************)
(* command(): what its cases have in common.  Every case that moves on     *)
(* first replaces the state and then, at the end of the text, pushes       *)
(* BAD_END on it.                                                          *)
(***************************************************************************)
In(s) == result = "run" /\ stack # << >> /\ Head(stack) = s
Sees(types) == Type(pos) \in types

Top(s) == << s >> \o Tail(stack)

Shift(s) ==
  /\ pos' = Behind(pos)
  /\ stack' = IF HasNext(pos) THEN Top(s) ELSE << "BAD_END" >> \o Top(s)
  /\ said' = (said \/ ~HasNext(pos))

Become(s) == stack' = Top(s) /\ UNCHANGED <<pos, said>>
Enter(s)  == stack' = << s >> \o stack /\ UNCHANGED <<pos, said>>

Reject == stack' = << "BAD_END" >> \o stack /\ said' = TRUE /\ UNCHANGED pos

Apart == UNCHANGED <<src, result, start, uses, tables, memory>>

(* What each case names; anything else is its default.                     *)
Expected(s) ==
  CASE s = "START"            -> {"reg", "word", "eof", "macro"}
    [] s \in {"DST", "SRC0", "SRC1"} -> {"reg"}
    [] s = "SET"              -> {"set"}
    [] s \in {"OPERATOR", "AT"} -> {"word"}
    [] s = "OPEN"             -> {"open"}
    [] s = "ARGS"             -> {"reg", "comma", "close"}
    [] s = "COMMA_SRC0"       -> {"comma", "close"}
    [] s = "AFTER_COMMA_SRC0" -> Numbers \cup {"reg", "minus", "plus", "at", "close"}
    [] s = "AFTER_SRC1"       -> Numbers \cup {"minus", "plus", "at", "close"}
    [] s = "SIGN"             -> {"minus", "plus"}
    [] s = "CLOSE"            -> {"close"}
    [] s = "MACRO"            -> Numbers \cup {"word", "reg"}
    [] OTHER                  -> TokenType \cup {"eof"}

Unexpected ==
  /\ result = "run"
  /\ stack # << >>
  /\ Head(stack) # "MACRO"
  /\ Type(pos) \notin Expected(Head(stack))
  /\ Reject
  /\ UNCHANGED cmd
  /\ Apart

-----------------------------------------------------------------------------
(***************************************************************************)
(* command(), one action per case.                                         *)
(***************************************************************************)
(* fault: the end of the text does not take the state away *)
Start_EofStays ==
  /\ In("START")
  /\ Apart
  /\ \/ Sees({"reg"}) /\ Enter("DST") /\ UNCHANGED cmd
     \/ Sees({"word"}) /\ Enter("OPERATOR") /\ cmd' = [cmd EXCEPT !.dst = RZ]
     \/ Sees({"eof"}) /\ UNCHANGED <<stack, cmd, pos, said>>

Start ==
  /\ In("START")
  /\ Apart
  /\ \/ Sees({"reg"}) /\ Enter("DST") /\ UNCHANGED cmd
     \/ Sees({"word"}) /\ Enter("OPERATOR") /\ cmd' = [cmd EXCEPT !.dst = RZ]
     \/ /\ Sees({"eof"})
        /\ stack' = Tail(stack)
        /\ UNCHANGED <<cmd, pos, said>>

StartMacro ==
  /\ In("START")
  /\ Sees({"macro"})
  /\ pos' = Behind(pos)
  /\ IF HasNext(pos)
     THEN stack' = << "MACRO" >> \o stack /\ UNCHANGED <<result, said>>
     ELSE UNCHANGED stack /\ result' = "error" /\ said' = TRUE
  /\ UNCHANGED <<cmd, src, start, uses, tables, memory>>

Dst ==
  /\ In("DST") /\ Sees({"reg"})
  /\ cmd' = [cmd EXCEPT !.dst = At(pos).reg]
  /\ Shift("SET")
  /\ Apart

Set == In("SET") /\ Sees({"set"}) /\ Shift("OPERATOR") /\ UNCHANGED cmd /\ Apart

Operator ==
  /\ In("OPERATOR") /\ Sees({"word"})
  /\ IF At(pos).opr \in Opcodes
     THEN cmd' = [cmd EXCEPT !.opc = At(pos).opr] /\ Shift("OPEN")
     ELSE UNCHANGED cmd /\ Reject
  /\ Apart

Open == In("OPEN") /\ Sees({"open"}) /\ Shift("ARGS") /\ UNCHANGED cmd /\ Apart

Args ==
  /\ In("ARGS")
  /\ \/ Sees({"reg"}) /\ Become("SRC0") /\ UNCHANGED cmd
     \/ Sees({"comma"}) /\ Become("COMMA_SRC0") /\ cmd' = [cmd EXCEPT !.s0 = RZ]
     \/ /\ Sees({"close"})
        /\ Become("CLOSE")
        /\ cmd' = [cmd EXCEPT !.s0 = RZ, !.s1 = RZ, !.imm = 0]
  /\ Apart

Src0 ==
  /\ In("SRC0") /\ Sees({"reg"})
  /\ cmd' = [cmd EXCEPT !.s0 = At(pos).reg]
  /\ Shift("COMMA_SRC0")
  /\ Apart

CommaSrc0 ==
  /\ In("COMMA_SRC0")
  /\ \/ Sees({"comma"}) /\ Shift("AFTER_COMMA_SRC0") /\ UNCHANGED cmd
     \/ Sees({"close"}) /\ Become("CLOSE") /\ cmd' = [cmd EXCEPT !.s1 = RZ, !.imm = 0]
  /\ Apart

(* What may follow the comma, or the second source register.               *)
Tail2 ==
  \/ Sees({"minus", "plus"}) /\ Become("SIGN") /\ UNCHANGED cmd
  \/ Sees(Numbers) /\ Become("NUMBER") /\ UNCHANGED cmd
  \/ Sees({"at"}) /\ Shift("AT") /\ UNCHANGED cmd

AfterCommaSrc0 ==
  /\ In("AFTER_COMMA_SRC0")
  /\ \/ Tail2
     \/ Sees({"reg"}) /\ Become("SRC1") /\ UNCHANGED cmd
     \/ Sees({"close"}) /\ Become("CLOSE") /\ cmd' = [cmd EXCEPT !.s1 = RZ, !.imm = 0]
  /\ Apart

Src1 ==
  /\ In("SRC1") /\ Sees({"reg"})
  /\ cmd' = [cmd EXCEPT !.s1 = At(pos).reg]
  /\ Shift("AFTER_SRC1")
  /\ Apart

AfterSrc1 ==
  /\ In("AFTER_SRC1")
  /\ \/ Tail2
     \/ Sees({"close"}) /\ Become("CLOSE") /\ cmd' = [cmd EXCEPT !.imm = 0]
  /\ Apart

Sign ==
  /\ In("SIGN")
  /\ \/ Sees({"minus"}) /\ cmd' = [cmd EXCEPT !.sign = -1]
     \/ Sees({"plus"}) /\ cmd' = [cmd EXCEPT !.sign = 1]
  /\ Shift("NUMBER")
  /\ Apart

(* Behind a sign the token is not looked at: num may never have been set.  *)
NumAt(p) == IF Type(p) \in Numbers THEN {At(p).num} ELSE Garbage

Number ==
  /\ In("NUMBER")
  /\ \E v \in NumAt(pos) :
       IF v \in ImmMin .. ImmMax
       THEN cmd' = [cmd EXCEPT !.imm = v] /\ Shift("CLOSE")
       ELSE UNCHANGED cmd /\ Reject
  /\ Apart

(* fault: the fix is for the command behind this one *)
AtUndefined_Next ==
  /\ In("AT") /\ Sees({"word"})
  /\ At(pos).opr \notin DOMAIN labels
  /\ fixes' = fixes \cup {<< At(pos).opr, codeOff + 4 >>}
  /\ uses' = uses \cup {<< At(pos).opr, codeOff >>}
  /\ cmd' = [cmd EXCEPT !.imm = ImmMax]
  /\ Shift("CLOSE")
  /\ UNCHANGED <<src, result, start, labels, codeOff, dataOff, cur, memory>>

AtUndefined ==
  /\ In("AT") /\ Sees({"word"})
  /\ At(pos).opr \notin DOMAIN labels
  /\ fixes' = fixes \cup {<< At(pos).opr, codeOff >>}
  /\ uses' = uses \cup {<< At(pos).opr, codeOff >>}
  /\ cmd' = [cmd EXCEPT !.imm = ImmMax]
  /\ Shift("CLOSE")
  /\ UNCHANGED <<src, result, start, labels, codeOff, dataOff, cur, memory>>

AtDefined ==
  /\ In("AT") /\ Sees({"word"})
  /\ At(pos).opr \in DOMAIN labels
  /\ LET v == labels[At(pos).opr]
     IN IF v > ImmMax
        THEN /\ stack' = Top("BAD_END")
             /\ said' = TRUE
             /\ UNCHANGED <<pos, cmd, uses>>
        ELSE /\ cmd' = [cmd EXCEPT !.imm = v]
             /\ uses' = uses \cup {<< At(pos).opr, codeOff >>}
             /\ Shift("CLOSE")
  /\ UNCHANGED <<src, result, start, tables, memory>>

(* The result of nextToken is not looked at here.                          *)
Close ==
  /\ In("CLOSE") /\ Sees({"close"})
  /\ pos' = Behind(pos)
  /\ stack' = Top("FINISH")
  /\ UNCHANGED <<cmd, said>>
  /\ Apart

Command ==
  [opc |-> cmd.opc, dst |-> cmd.dst, s0 |-> cmd.s0, s1 |-> cmd.s1,
   imm |-> Packed(cmd.imm * cmd.sign)]

Put(f, k, v) == [x \in DOMAIN f \cup {k} |-> IF x = k THEN v ELSE f[x]]

(* fault: the sign goes on to the next command *)
Finish_KeepSign ==
  /\ In("FINISH")
  /\ codeOff + 4 < CSize
  /\ code' = Put(code, codeOff, Command)
  /\ codeOff' = codeOff + 4
  /\ cmd' = [NoCmd EXCEPT !.sign = cmd.sign]
  /\ stack' = Tail(stack)
  /\ UNCHANGED <<src, pos, labels, fixes, dataOff, cur, data, mregs, result, start, uses, said>>

Finish ==
  /\ In("FINISH")
  /\ codeOff + 4 < CSize
  /\ code' = Put(code, codeOff, Command)
  /\ codeOff' = codeOff + 4
  /\ cmd' = NoCmd
  /\ stack' = Tail(stack)
  /\ UNCHANGED <<src, pos, labels, fixes, dataOff, cur, data, mregs, result, start, uses, said>>

Throw ==
  /\ result' = "thrown"
  /\ UNCHANGED <<src, pos, stack, cmd, tables, memory, start, uses, said>>

FinishThrows == In("FINISH") /\ codeOff + 4 >= CSize /\ Throw

BadEnd ==
  /\ In("BAD_END")
  /\ stack' = << >>
  /\ result' = "error"
  /\ UNCHANGED <<src, pos, cmd, tables, memory, start, uses, said>>

-----------------------------------------------------------------------------
(***************************************************************************)
(* macro(), which is running while "MACRO" is on top.  When it fails,      *)
(* command() pushes BAD_END and at once overwrites it with START: the      *)
(* error is forgotten, and the token that was not liked is in front.       *)
(***************************************************************************)
MacroFails == stack' = Top("START") /\ said' = TRUE

(* The last nextToken of a macro: p is the token it moves from.            *)
MacroEnds(p) ==
  /\ pos' = Behind(p)
  /\ IF HasNext(p) THEN stack' = Tail(stack) /\ UNCHANGED said ELSE MacroFails

MacroUnexpected ==
  /\ In("MACRO")
  /\ ~Sees(Expected("MACRO"))
  /\ MacroFails
  /\ UNCHANGED <<pos, cmd>>
  /\ Apart

MacroNumber ==
  /\ In("MACRO") /\ Sees(Numbers)
  /\ LET n == Width(Type(pos))
     IN /\ dataOff + n < DSize
        /\ data' = SetCell(data, dataOff, n, At(pos).num)
        /\ dataOff' = dataOff + n
  /\ MacroEnds(pos)
  /\ UNCHANGED <<src, cmd, labels, fixes, codeOff, cur, code, mregs, result, start, uses>>

MacroThrows ==
  /\ In("MACRO") /\ Sees(Numbers)
  /\ dataOff + Width(Type(pos)) >= DSize
  /\ Throw

MacroSection ==
  /\ In("MACRO") /\ Sees({"word"})
  /\ At(pos).opr \in {"code", "data"}
  /\ cur' = At(pos).opr
  /\ MacroEnds(pos)
  /\ UNCHANGED <<src, cmd, labels, fixes, codeOff, dataOff, memory, result, start, uses>>

MacroLabel ==
  /\ In("MACRO") /\ Sees({"word"})
  /\ At(pos).opr \notin {"code", "data"}
  /\ IF At(pos).opr \in DOMAIN labels
     THEN MacroFails /\ UNCHANGED <<pos, labels>>
     ELSE /\ labels' = Put(labels, At(pos).opr, IF cur = "code" THEN codeOff ELSE dataOff)
          /\ MacroEnds(pos)
  /\ UNCHANGED <<src, cmd, fixes, codeOff, dataOff, cur, memory, result, start, uses>>

(* memory::Set *)
SetReg(r, v) == mregs' = IF r = RZ THEN mregs ELSE [mregs EXCEPT ![r] = v]

(* A register, and behind it a number or a label that is already defined.  *)
MacroRegister ==
  /\ In("MACRO") /\ Sees({"reg"})
  /\ LET r == At(pos).reg
         q == Behind(pos)
     IN \/ /\ Type(q) \in Numbers
           /\ SetReg(r, At(q).num)
           /\ MacroEnds(q)
        \/ /\ Type(q) = "word"
           /\ At(q).opr \in DOMAIN labels
           /\ SetReg(r, labels[At(q).opr])
           /\ MacroEnds(q)
        \/ /\ Type(q) \in Numbers \cup {"word"} => Type(q) = "word" /\ At(q).opr \notin DOMAIN labels
           /\ pos' = q
           /\ MacroFails
           /\ UNCHANGED mregs
  /\ UNCHANGED <<src, cmd, tables, code, data, result, start, uses>>

-----------------------------------------------------------------------------
(***************************************************************************)
(* The fixes, in the order of an unordered map.                            *)
(***************************************************************************)
Fixing == result = "run" /\ stack = << >>

Fix ==
  /\ Fixing
  /\ \E f \in fixes :
       /\ f[1] \in DOMAIN labels
       /\ labels[f[1]] <= ImmMax
       /\ code' = [code EXCEPT ![f[2]].imm = Packed(labels[f[1]])]
       /\ fixes' = fixes \ {f}
  /\ UNCHANGED <<src, pos, stack, cmd, labels, codeOff, dataOff, cur, data, mregs, result, start, uses, said>>

FixFails ==
  /\ Fixing
  /\ \E f \in fixes : f[1] \in DOMAIN labels => labels[f[1]] > ImmMax
  /\ result' = "error"
  /\ said' = TRUE
  /\ UNCHANGED <<src, pos, stack, cmd, tables, memory, start, uses>>

Accept ==
  /\ Fixing
  /\ fixes = {}
  /\ result' = "ok"
  /\ UNCHANGED <<src, pos, stack, cmd, tables, memory, start, uses, said>>

Next ==
  \/ Start \/ StartMacro \/ Dst \/ Set \/ Operator \/ Open \/ Args \/ Src0
  \/ CommaSrc0 \/ AfterCommaSrc0 \/ Src1 \/ AfterSrc1 \/ Sign \/ Number
  \/ AtUndefined \/ AtDefined \/ Close \/ Finish \/ FinishThrows \/ BadEnd
  \/ Unexpected
  \/ MacroUnexpected \/ MacroNumber \/ MacroThrows \/ MacroSection
  \/ MacroLabel \/ MacroRegister
  \/ Fix \/ FixFails \/ Accept

Spec == Init /\ [][Next]_vars /\ WF_vars(Next)

-----------------------------------------------------------------------------
(***************************************************************************)
(* The language: what the tokens of a line say, from token k on.           *)
(***************************************************************************)
Has(t, k, types) == k \in DOMAIN t /\ t[k].type \in types

Closes(t, k) == Len(t) = k /\ Has(t, k, {"close"})

SaysNumber(t, k, v) == Has(t, k, Numbers) /\ t[k].num = v /\ Closes(t, k + 1)

SaysOperand(t, k, m) ==
  IF m.label # NoLabel
  THEN /\ Has(t, k, {"at"})
       /\ Has(t, k + 1, {"word"}) /\ t[k + 1].opr = m.label
       /\ Closes(t, k + 2)
  ELSE \/ m.imm = 0 /\ Closes(t, k)
       \/ SaysNumber(t, k, m.imm)
       \/ Has(t, k, {"plus"}) /\ SaysNumber(t, k + 1, m.imm)
       \/ Has(t, k, {"minus"}) /\ SaysNumber(t, k + 1, -m.imm)

SaysSecond(t, k, m) ==
  \/ Has(t, k, {"reg"}) /\ t[k].reg = m.s1 /\ SaysOperand(t, k + 1, m)
  \/ m.s1 = RZ /\ SaysOperand(t, k, m)

SaysComma(t, k, m) ==
  \/ Has(t, k, {"comma"}) /\ SaysSecond(t, k + 1, m)
  \/ m.s1 = RZ /\ m.imm = 0 /\ m.label = NoLabel /\ Closes(t, k)

SaysFirst(t, k, m) ==
  \/ Has(t, k, {"reg"}) /\ t[k].reg = m.s0 /\ SaysComma(t, k + 1, m)
  \/ m.s0 = RZ /\ SaysComma(t, k, m)

SaysOperator(t, k, m) ==
  /\ Has(t, k, {"word"}) /\ t[k].opr = m.opc /\ m.opc \in Opcodes
  /\ Has(t, k + 1, {"open"})
  /\ SaysFirst(t, k + 2, m)

SaysCommand(t, m) ==
  \/ Has(t, 1, {"reg"}) /\ t[1].reg = m.dst /\ Has(t, 2, {"set"}) /\ SaysOperator(t, 3, m)
  \/ m.dst = RZ /\ SaysOperator(t, 1, m)

(* A number in data is what a cell of its width makes of it.               *)
InCell(n, v) == GetCell(SetCell([o \in 0 .. 7 |-> 0], 0, n, v), 0, n)

SaysMacro(t, m) ==
  /\ Has(t, 1, {"macro"})
  /\ \/ /\ m.kind = "label" /\ m.label \notin {"code", "data"}
        /\ Len(t) = 2 /\ Has(t, 2, {"word"}) /\ t[2].opr = m.label
     \/ /\ m.kind \in {"code", "data"}
        /\ Len(t) = 2 /\ Has(t, 2, {"word"}) /\ t[2].opr = m.kind
     \/ /\ m.kind = "cell"
        /\ Len(t) = 2 /\ Has(t, 2, Numbers)
        /\ m.width = Width(t[2].type) /\ m.imm = InCell(m.width, t[2].num)
     \/ /\ m.kind = "set"
        /\ Len(t) = 3 /\ Has(t, 2, {"reg"}) /\ t[2].reg = m.dst
        /\ IF m.label = NoLabel THEN Has(t, 3, Numbers) /\ t[3].num = m.imm
           ELSE Has(t, 3, {"word"}) /\ t[3].opr = m.label

(* The lines that are statements are written as they are meant.            *)
ASSUME SaysAssumption ==
  \A l \in Lines : l.means.kind # "other" =>
    /\ l.means.imm \in Int
    /\ IF l.means.kind = "cmd" THEN SaysCommand(l.text, l.means)
       ELSE SaysMacro(l.text, l.means)

-----------------------------------------------------------------------------
(***************************************************************************)
(* Properties.                                                             *)
(***************************************************************************)
CommandType == [opc : Opcodes \cup {"hlt"}, dst : Reg, s0 : Reg, s1 : Reg,
                imm : -ImmHalf .. ImmHalf - 1]

(* The type invariant; with it, commands in memory unpack to what was      *)
(* packed (14 bits), offsets stay in the segments' words, and $z is 0.     *)
TypeOK ==
  /\ pos \in Nat \X Nat
  /\ stack \in Seq(State)
  /\ cmd \in [opc : Opcodes \cup {"hlt"}, dst : Reg, s0 : Reg, s1 : Reg,
              imm : ImmMin .. ImmMax, sign : {-1, 1}]
  /\ \A l \in DOMAIN labels : labels[l] \in Nat
  /\ codeOff \in Nat /\ dataOff \in Nat /\ cur \in {"code", "data"}
  /\ \A f \in fixes \cup uses : f[2] \in Nat
  /\ \A o \in DOMAIN code : o \in Nat /\ code[o] \in CommandType
  /\ data \in [0 .. DSize - 1 -> ByteVal]
  /\ mregs \in [Reg -> Int] /\ mregs[RZ] = 0
  /\ result \in {"run", "ok", "error", "thrown"}
  /\ said \in BOOLEAN

(* In an accepted program every command that names a label carries that    *)
(* label's value, whether it stood before the definition or behind it, and *)
(* whatever the lines in between did wrong.                                *)
LabelsResolved ==
  result = "ok" => \A u \in uses :
    u[1] \in DOMAIN labels /\ code[u[2]].imm = Packed(labels[u[1]])

Meaning == [i \in DOMAIN src |-> src[i].means]

(* The assembler accepts what the two-pass assembler accepts, and leaves   *)
(* the same code, data and registers.                                      *)
AgreesWithTwoPass ==
  LET p == Meaning
      c0 == start[1]
      d0 == start[2]
  IN result # "run" /\ src # << >> /\ (\A i \in DOMAIN p : p[i].kind # "other") =>
       /\ result = "ok" <=> Legal(p, c0, d0) /\ Room(p, c0, d0)
       /\ result = "ok" =>
            /\ code = CodeOf(p, c0, d0)
            /\ DataIs(p, data, d0)
            /\ mregs = RegsOf(p, [r \in Reg |-> 0], c0, d0)

(* It comes to an end on every text, also where an error was forgotten.    *)
Terminates == <>(result # "run")

-----------------------------------------------------------------------------
(***************************************************************************)
(* What the code says of itself and does not do.                           *)
(***************************************************************************)
(* "@return TT2_EOF if no error, TT2_ERROR otherwise" (cmplv2.class.h).    *)
ErrorsReported == result = "ok" => ~said
=============================================================================
