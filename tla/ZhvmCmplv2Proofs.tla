-------------------------- MODULE ZhvmCmplv2Proofs --------------------------
(***************************************************************************)
(* Theorems about the assembler: for texts of every length over any lines, *)
(* any segment sizes, any width of the immediate and any word size.        *)
(***************************************************************************)
EXTENDS ZhvmCmplv2, ZhvmWordProofs, FiniteSetTheorems

(* The position is that of a token or behind the last line.                *)
Position(p) ==
  /\ p \in Nat \X Nat
  /\ p[1] >= 1
  /\ ~IsEof(p) => p[2] \in 1 .. Len(src[p[1]].text)

Typed ==
  /\ TypeOK
  /\ src \in Seq(Lines)
  /\ Position(pos)

(* Under the state that is running there are only STARTs, unless that      *)
(* state is BAD_END.                                                       *)
Shape ==
  stack # << >> /\ Head(stack) # "BAD_END" =>
    \A i \in 2 .. Len(stack) : stack[i] = "START"

(* A sign is kept only until the command is packed.                        *)
SignReset ==
  stack # << >> /\ Head(stack) \notin {"NUMBER", "CLOSE", "FINISH", "BAD_END"} =>
    cmd.sign = 1

(* A number is looked for where there is a token.                          *)
Reading == stack # << >> /\ Head(stack) = "NUMBER" => ~IsEof(pos)

Doomed == result \in {"error", "thrown"} \/ (stack # << >> /\ Head(stack) = "BAD_END")

(* The operands of a command are read, and the command is not yet packed.  *)
Busy == stack # << >> /\ Head(stack) \in {"CLOSE", "FINISH"}

Pending(u) ==
  /\ Busy
  /\ u[2] = codeOff
  /\ u \notin fixes =>
       u[1] \in DOMAIN labels /\ cmd.imm = labels[u[1]] /\ cmd.sign = 1

Written(u) ==
  /\ u[2] \in DOMAIN code
  /\ u \notin fixes => u[1] \in DOMAIN labels /\ code[u[2]].imm = Packed(labels[u[1]])

UsesKept  == Doomed \/ \A u \in uses : Pending(u) \/ Written(u)
OneUse    == Doomed \/ \A u, v \in uses : u[2] = v[2] => u = v
FixesUsed == fixes \subseteq uses
UsePairs  == \A u \in uses : u = << u[1], u[2] >>
CodeBelow == \A o \in DOMAIN code : o < codeOff
Ended     == result = "ok" => stack = << >> /\ fixes = {}

IInv == Typed /\ Shape /\ Reading /\ SignReset /\ UsesKept /\ OneUse /\ FixesUsed /\ UsePairs
        /\ CodeBelow /\ Ended

-----------------------------------------------------------------------------
(***************************************************************************)
(* Constants and tokens.                                                   *)
(***************************************************************************)
LEMMA RegZero == RZ \in Reg
BY RegAssumption DEF RZ

LEMMA ImmRange == 0 \in ImmMin .. ImmMax /\ ImmMax \in ImmMin .. ImmMax
BY ImmAssumption DEF ImmMin, ImmMax

LEMMA PackedRange ==
  ASSUME NEW x \in Int
  PROVE  Packed(x) \in -ImmHalf .. ImmHalf - 1
<1>1. 2 * ImmHalf \in Nat \ {0}
  BY ImmAssumption
<1>2. x % (2 * ImmHalf) \in 0 .. 2 * ImmHalf - 1
  BY <1>1, ModRange
<1> QED
  BY <1>2, ImmAssumption DEF Packed, Signed

LEMMA TokenAt ==
  ASSUME Typed, ~IsEof(pos)
  PROVE  At(pos) \in Token /\ Type(pos) = At(pos).type /\ Type(pos) \in TokenType
<1>1. pos[1] \in 1 .. Len(src) /\ src[pos[1]] \in Lines
  BY DEF Typed, Position, IsEof
<1>2. src[pos[1]].text \in Seq(Token)
  BY <1>1, LinesAssumption
<1>3. pos[2] \in 1 .. Len(src[pos[1]].text)
  BY DEF Typed, Position
<1>4. At(pos) \in Token
  BY <1>2, <1>3 DEF At
<1> QED
  BY <1>4 DEF Type, Token

LEMMA SeenToken ==
  ASSUME Typed, NEW T, Sees(T), T \subseteq TokenType
  PROVE  ~IsEof(pos) /\ At(pos) \in Token /\ At(pos).type \in T
<1>1. "eof" \notin TokenType
  BY DEF TokenType, Numbers
<1>2. ~IsEof(pos)
  BY <1>1 DEF Sees, Type
<1> QED
  BY <1>2, TokenAt DEF Sees

(* Moving on from a token leaves a position.                               *)
LEMMA BehindPosition ==
  ASSUME Typed, NEW p, Position(p), ~IsEof(p)
  PROVE  Position(Behind(p))
<1>1. p[1] \in 1 .. Len(src) /\ p[1] \in Nat /\ p[2] \in Nat
  BY DEF Position, IsEof, Typed
<1>2. src[p[1]] \in Lines /\ src[p[1]].text \in Seq(Token)
  BY <1>1, LinesAssumption DEF Typed
<1>3. CASE p[2] < Len(src[p[1]].text)
  BY <1>1, <1>2, <1>3 DEF Behind, Position, IsEof
<1>4. CASE ~(p[2] < Len(src[p[1]].text))
  <2>1. Behind(p) = << p[1] + 1, 1 >>
    BY <1>4 DEF Behind
  <2>2. p[1] + 1 <= Len(src) =>
          src[p[1] + 1].text \in Seq(Token) /\ src[p[1] + 1].text # << >>
    <3> SUFFICES ASSUME p[1] + 1 <= Len(src)
                 PROVE  src[p[1] + 1] \in Lines
      BY LinesAssumption
    <3> QED
      BY <1>1 DEF Typed
  <2> QED
    BY <1>1, <2>1, <2>2 DEF Position, IsEof
<1> QED
  BY <1>3, <1>4

-----------------------------------------------------------------------------
(***************************************************************************)
(* The stack of states.                                                    *)
(***************************************************************************)
LEMMA StackFacts ==
  ASSUME NEW st \in Seq(State), NEW s \in State
  PROVE  /\ << s >> \o st \in Seq(State) /\ << s >> \o st # << >>
         /\ Head(<< s >> \o st) = s
         /\ Len(<< s >> \o st) = Len(st) + 1
         /\ \A i \in 1 .. Len(st) : (<< s >> \o st)[i + 1] = st[i]
OBVIOUS

LEMMA TailFacts ==
  ASSUME NEW st \in Seq(State), st # << >>
  PROVE  /\ Tail(st) \in Seq(State) /\ Len(Tail(st)) = Len(st) - 1
         /\ \A i \in 1 .. Len(st) - 1 : Tail(st)[i] = st[i + 1]
         /\ Head(st) = st[1]
OBVIOUS

AllStart(st) == \A i \in 1 .. Len(st) : st[i] = "START"

(* What a state change does to the stack, if the states below are STARTs.  *)
LEMMA PushShape ==
  ASSUME NEW st \in Seq(State), AllStart(st), NEW s \in State
  PROVE  \A i \in 2 .. Len(<< s >> \o st) : (<< s >> \o st)[i] = "START"
<1> SUFFICES ASSUME NEW i \in 2 .. Len(st) + 1
             PROVE  (<< s >> \o st)[i] = "START"
  BY StackFacts
<1>1. i - 1 \in 1 .. Len(st) /\ (i - 1) + 1 = i
  OBVIOUS
<1>2. st[i - 1] = "START"
  BY <1>1 DEF AllStart
<1> QED
  BY <1>1, <1>2, StackFacts

LEMMA PushStart ==
  ASSUME NEW st \in Seq(State), AllStart(st)
  PROVE  << "START" >> \o st \in Seq(State) /\ AllStart(<< "START" >> \o st)
<1> DEFINE t == << "START" >> \o st
<1>1. "START" \in State
  BY DEF State
<1>2. t \in Seq(State) /\ t # << >> /\ Head(t) = "START"
  BY <1>1, StackFacts
<1>3. \A i \in 2 .. Len(t) : t[i] = "START"
  BY <1>1, PushShape
<1> HIDE DEF t
<1>4. t[1] = "START"
  BY <1>2
<1>5. AllStart(t)
  BY <1>2, <1>3, <1>4 DEF AllStart
<1> QED
  BY <1>2, <1>5 DEF t

LEMMA TailStart ==
  ASSUME Typed, Shape, stack # << >>, Head(stack) # "BAD_END"
  PROVE  Tail(stack) \in Seq(State) /\ AllStart(Tail(stack))
<1>1. stack \in Seq(State)
  BY DEF Typed, TypeOK
<1>2. \A i \in 1 .. Len(stack) - 1 : stack[i + 1] = "START"
  <2> SUFFICES ASSUME NEW i \in 1 .. Len(stack) - 1
               PROVE  stack[i + 1] = "START"
    OBVIOUS
  <2>1. i + 1 \in 2 .. Len(stack)
    BY <1>1
  <2> QED
    BY <2>1 DEF Shape
<1> QED
  BY <1>1, <1>2, TailFacts DEF AllStart

CmdType == [opc : Opcodes \cup {"hlt"}, dst : Reg, s0 : Reg, s1 : Reg,
            imm : ImmMin .. ImmMax, sign : {-1, 1}]

(* The step leads to one of the states S or to BAD_END.                    *)
Moved(S) ==
  /\ Position(pos)'
  /\ stack' \in Seq(State) /\ stack' # << >>
  /\ Head(stack') \in S \cup {"BAD_END"}
  /\ Shape' /\ Reading'
  /\ said' \in BOOLEAN

LEMMA BadEndState == "BAD_END" \in State /\ "START" \in State
BY DEF State

(* Pushing BAD_END is in order whatever is below.                          *)
LEMMA PushBadEnd ==
  ASSUME NEW st \in Seq(State), stack' = << "BAD_END" >> \o st
  PROVE  stack' \in Seq(State) /\ stack' # << >> /\ Head(stack') = "BAD_END" /\ Shape'
BY StackFacts, BadEndState DEF Shape

LEMMA TopShape ==
  ASSUME Typed, Shape, stack # << >>, Head(stack) # "BAD_END", NEW s \in State,
         stack' = Top(s)
  PROVE  stack' \in Seq(State) /\ stack' # << >> /\ Head(stack') = s /\ Shape'
<1>1. Tail(stack) \in Seq(State) /\ AllStart(Tail(stack))
  BY TailStart
<1> QED
  BY <1>1, StackFacts, PushShape DEF Top, Shape

LEMMA RejectMoves ==
  ASSUME Typed, Reject, src' = src, NEW S
  PROVE  Moved(S)
<1>1. stack \in Seq(State)
  BY DEF Typed, TypeOK
<1> QED
  BY <1>1, PushBadEnd DEF Reject, Moved, Typed, Position, IsEof, Reading

LEMMA BecomeMoves ==
  ASSUME Typed, Shape, stack # << >>, Head(stack) # "BAD_END",
         NEW s \in State, Become(s), src' = src, s = "NUMBER" => ~IsEof(pos)
  PROVE  Moved({s})
BY TopShape DEF Become, Moved, Typed, TypeOK, Position, IsEof, Reading

LEMMA EnterMoves ==
  ASSUME Typed, Shape, In("START"), NEW s \in State, Enter(s), src' = src,
         s # "NUMBER"
  PROVE  Moved({s})
<1>1. stack \in Seq(State) /\ stack # << >> /\ Head(stack) = "START"
  BY DEF Typed, TypeOK, In
<1>2. AllStart(stack)
  BY <1>1, TailFacts DEF AllStart, Shape
<1>3. stack' = << s >> \o stack
  BY DEF Enter
<1>4. stack' \in Seq(State) /\ stack' # << >> /\ Head(stack') = s /\ Shape'
  BY <1>1, <1>2, <1>3, StackFacts, PushShape DEF Shape
<1> QED
  BY <1>4 DEF Enter, Moved, Typed, TypeOK, Position, IsEof, Reading

LEMMA ShiftMoves ==
  ASSUME Typed, Shape, stack # << >>, Head(stack) # "BAD_END", ~IsEof(pos),
         NEW s \in State, Shift(s), src' = src
  PROVE  Moved({s})
<1>1. Position(Behind(pos))
  BY BehindPosition DEF Typed
<1>2. Position(pos)'
  BY <1>1 DEF Shift, Position, IsEof
<1>3. said' \in BOOLEAN
  BY DEF Shift
<1>4. CASE HasNext(pos)
  <2>1. stack' = Top(s)
    BY <1>4 DEF Shift
  <2>2. ~IsEof(pos)'
    BY <1>4 DEF HasNext, Shift, IsEof
  <2> QED
    BY <1>2, <1>3, <2>1, <2>2, TopShape DEF Moved, Reading
<1>5. CASE ~HasNext(pos)
  <2>1. stack' = << "BAD_END" >> \o Top(s)
    BY <1>5 DEF Shift
  <2>2. Top(s) \in Seq(State)
    BY TailStart, StackFacts DEF Top
  <2> QED
    BY <1>2, <1>3, <2>1, <2>2, PushBadEnd DEF Moved, Reading
<1> QED
  BY <1>4, <1>5

-----------------------------------------------------------------------------
(***************************************************************************)
(* A step that leaves the tables and the machine alone.                    *)
(***************************************************************************)
LEMMA QuietTyped ==
  ASSUME Typed, Apart, Position(pos)', stack' \in Seq(State), cmd' \in CmdType,
         said' \in BOOLEAN
  PROVE  Typed'
<1>1. /\ src' = src /\ result' = result /\ uses' = uses /\ labels' = labels
      /\ fixes' = fixes /\ codeOff' = codeOff /\ dataOff' = dataOff /\ cur' = cur
      /\ code' = code /\ data' = data /\ mregs' = mregs
  BY DEF Apart, tables, memory
<1>2. pos' \in Nat \X Nat
  BY DEF Position
<1>3. cmd' \in [opc : Opcodes \cup {"hlt"}, dst : Reg, s0 : Reg, s1 : Reg,
                imm : ImmMin .. ImmMax, sign : {-1, 1}]
  BY DEF CmdType
<1>4. TypeOK
  BY DEF Typed
<1>5. TypeOK'
  BY <1>1, <1>2, <1>3, <1>4 DEF TypeOK, CommandType
<1> QED
  BY <1>1, <1>5 DEF Typed

LEMMA QuietStep ==
  ASSUME IInv, result = "run", stack # << >>, Apart,
         NEW S, Moved(S), cmd' \in CmdType,
         Head(stack) # "BAD_END" \/ Head(stack') = "BAD_END",
         Head(stack) \in {"CLOSE", "FINISH"} /\ Head(stack') # "BAD_END" =>
           Head(stack') \in {"CLOSE", "FINISH"} /\ cmd' = cmd,
         Head(stack') \notin {"NUMBER", "CLOSE", "FINISH", "BAD_END"} => cmd'.sign = 1
  PROVE  IInv'
<1>1. Typed'
  BY QuietTyped DEF IInv, Moved
<1>2. Shape' /\ Reading' /\ SignReset'
  BY DEF Moved, SignReset
<1>3. UsesKept'
  <2>1. CASE Head(stack') = "BAD_END"
    BY <2>1 DEF UsesKept, Doomed, Moved
  <2>2. CASE Head(stack') # "BAD_END"
    <3>1. ~Doomed
      BY <2>2 DEF Doomed
    <3>2. \A u \in uses : Pending(u) \/ Written(u)
      BY <3>1 DEF IInv, UsesKept
    <3>3. \A u \in uses : Pending(u)' \/ Written(u)'
      <4> SUFFICES ASSUME NEW u \in uses
                   PROVE  Pending(u)' \/ Written(u)'
        OBVIOUS
      <4>1. CASE Pending(u)
        BY <2>2, <4>1 DEF Pending, Busy, Apart, tables, memory, Moved
      <4>2. CASE Written(u)
        BY <4>2 DEF Written, Apart, tables, memory
      <4> QED
        BY <3>2, <4>1, <4>2
    <3> QED
      BY <3>3 DEF UsesKept, Apart
  <2> QED
    BY <2>1, <2>2
<1>4. OneUse'
  <2>1. Doomed => Doomed'
    BY DEF Doomed, Apart, Moved
  <2> QED
    BY <2>1 DEF IInv, OneUse, Apart
<1>5. FixesUsed' /\ UsePairs' /\ CodeBelow' /\ Ended'
  BY DEF IInv, FixesUsed, UsePairs, CodeBelow, Ended, Apart, tables, memory
<1> QED
  BY <1>1, <1>2, <1>3, <1>4, <1>5 DEF IInv

(***************************************************************************)
(* The cases of command() that only look at tokens.                        *)
(***************************************************************************)
LEMMA StateNames ==
  {"START", "DST", "SET", "OPERATOR", "OPEN", "ARGS", "SRC0", "COMMA_SRC0",
   "AFTER_COMMA_SRC0", "SRC1", "AFTER_SRC1", "SIGN", "NUMBER", "AT", "CLOSE",
   "FINISH", "BAD_END", "MACRO"} \subseteq State
BY DEF State

LEMMA InState ==
  ASSUME NEW s, In(s)
  PROVE  result = "run" /\ stack # << >> /\ Head(stack) = s
BY DEF In

LEMMA Unpacked ==
  ASSUME IInv
  PROVE  /\ Typed /\ Shape /\ cmd \in CmdType
         /\ stack # << >> /\ Head(stack) \notin {"NUMBER", "CLOSE", "FINISH", "BAD_END"} =>
              cmd.sign = 1
BY DEF IInv, Typed, TypeOK, CmdType, SignReset

LEMMA ApartSrc ==
  ASSUME Apart
  PROVE  src' = src
BY DEF Apart

LEMMA DstStep ==
  ASSUME IInv, Dst
  PROVE  IInv'
<1>1. In("DST") /\ Apart
  BY DEF Dst
<1>2. result = "run" /\ stack # << >> /\ Head(stack) = "DST" /\ src' = src
  BY <1>1, InState, ApartSrc
<1>3. Typed /\ Shape /\ cmd \in CmdType /\ cmd.sign = 1
  BY <1>2, Unpacked
<1>4. Sees({"reg"})
  BY DEF Dst
<1>5. ~IsEof(pos) /\ At(pos) \in Token
  BY <1>3, <1>4, SeenToken DEF TokenType
<1>6. Moved({"SET"})
  BY <1>2, <1>3, <1>5, ShiftMoves, StateNames DEF Dst
<1>7. cmd' \in CmdType /\ cmd'.sign = 1
  BY <1>3, <1>5 DEF Dst, CmdType, Token
<1> QED
  BY <1>1, <1>2, <1>6, <1>7, QuietStep

LEMMA SetStep ==
  ASSUME IInv, Set
  PROVE  IInv'
<1>1. In("SET") /\ Apart
  BY DEF Set
<1>2. result = "run" /\ stack # << >> /\ Head(stack) = "SET" /\ src' = src
  BY <1>1, InState, ApartSrc
<1>3. Typed /\ Shape /\ cmd \in CmdType /\ cmd.sign = 1
  BY <1>2, Unpacked
<1>4. Sees({"set"})
  BY DEF Set
<1>5. ~IsEof(pos) /\ At(pos) \in Token
  BY <1>3, <1>4, SeenToken DEF TokenType
<1>6. Moved({"OPERATOR"})
  BY <1>2, <1>3, <1>5, ShiftMoves, StateNames DEF Set
<1>7. cmd' \in CmdType /\ cmd'.sign = 1
  BY <1>3, <1>5 DEF Set, CmdType, Token
<1> QED
  BY <1>1, <1>2, <1>6, <1>7, QuietStep

LEMMA OpenStep ==
  ASSUME IInv, Open
  PROVE  IInv'
<1>1. In("OPEN") /\ Apart
  BY DEF Open
<1>2. result = "run" /\ stack # << >> /\ Head(stack) = "OPEN" /\ src' = src
  BY <1>1, InState, ApartSrc
<1>3. Typed /\ Shape /\ cmd \in CmdType /\ cmd.sign = 1
  BY <1>2, Unpacked
<1>4. Sees({"open"})
  BY DEF Open
<1>5. ~IsEof(pos) /\ At(pos) \in Token
  BY <1>3, <1>4, SeenToken DEF TokenType
<1>6. Moved({"ARGS"})
  BY <1>2, <1>3, <1>5, ShiftMoves, StateNames DEF Open
<1>7. cmd' \in CmdType /\ cmd'.sign = 1
  BY <1>3, <1>5 DEF Open, CmdType, Token
<1> QED
  BY <1>1, <1>2, <1>6, <1>7, QuietStep

LEMMA Src0Step ==
  ASSUME IInv, Src0
  PROVE  IInv'
<1>1. In("SRC0") /\ Apart
  BY DEF Src0
<1>2. result = "run" /\ stack # << >> /\ Head(stack) = "SRC0" /\ src' = src
  BY <1>1, InState, ApartSrc
<1>3. Typed /\ Shape /\ cmd \in CmdType /\ cmd.sign = 1
  BY <1>2, Unpacked
<1>4. Sees({"reg"})
  BY DEF Src0
<1>5. ~IsEof(pos) /\ At(pos) \in Token
  BY <1>3, <1>4, SeenToken DEF TokenType
<1>6. Moved({"COMMA_SRC0"})
  BY <1>2, <1>3, <1>5, ShiftMoves, StateNames DEF Src0
<1>7. cmd' \in CmdType /\ cmd'.sign = 1
  BY <1>3, <1>5 DEF Src0, CmdType, Token
<1> QED
  BY <1>1, <1>2, <1>6, <1>7, QuietStep

LEMMA Src1Step ==
  ASSUME IInv, Src1
  PROVE  IInv'
<1>1. In("SRC1") /\ Apart
  BY DEF Src1
<1>2. result = "run" /\ stack # << >> /\ Head(stack) = "SRC1" /\ src' = src
  BY <1>1, InState, ApartSrc
<1>3. Typed /\ Shape /\ cmd \in CmdType /\ cmd.sign = 1
  BY <1>2, Unpacked
<1>4. Sees({"reg"})
  BY DEF Src1
<1>5. ~IsEof(pos) /\ At(pos) \in Token
  BY <1>3, <1>4, SeenToken DEF TokenType
<1>6. Moved({"AFTER_SRC1"})
  BY <1>2, <1>3, <1>5, ShiftMoves, StateNames DEF Src1
<1>7. cmd' \in CmdType /\ cmd'.sign = 1
  BY <1>3, <1>5 DEF Src1, CmdType, Token
<1> QED
  BY <1>1, <1>2, <1>6, <1>7, QuietStep

LEMMA OperatorStep ==
  ASSUME IInv, Operator
  PROVE  IInv'
<1>1. In("OPERATOR") /\ Apart
  BY DEF Operator
<1>2. result = "run" /\ stack # << >> /\ Head(stack) = "OPERATOR" /\ src' = src
  BY <1>1, InState, ApartSrc
<1>3. Typed /\ Shape /\ cmd \in CmdType /\ cmd.sign = 1
  BY <1>2, Unpacked
<1>4. Sees({"word"})
  BY DEF Operator
<1>5. ~IsEof(pos)
  BY <1>3, <1>4, SeenToken DEF TokenType
<1>6. CASE At(pos).opr \in Opcodes
  <2>1. Moved({"OPEN"})
    BY <1>2, <1>3, <1>5, <1>6, ShiftMoves, StateNames DEF Operator
  <2>2. cmd' \in CmdType /\ cmd'.sign = 1
    BY <1>3, <1>6 DEF Operator, CmdType
  <2> QED
    BY <1>1, <1>2, <2>1, <2>2, QuietStep
<1>7. CASE At(pos).opr \notin Opcodes
  <2>1. Moved({}) /\ cmd' = cmd
    BY <1>2, <1>3, <1>7, RejectMoves DEF Operator
  <2> QED
    BY <1>1, <1>2, <1>3, <2>1, QuietStep DEF Moved
<1> QED
  BY <1>6, <1>7

LEMMA ArgsStep ==
  ASSUME IInv, Args
  PROVE  IInv'
<1>1. In("ARGS") /\ Apart
  BY DEF Args
<1>2. result = "run" /\ stack # << >> /\ Head(stack) = "ARGS" /\ src' = src
  BY <1>1, InState, ApartSrc
<1>3. Typed /\ Shape /\ cmd \in CmdType /\ cmd.sign = 1
  BY <1>2, Unpacked
<1>4. Moved({"SRC0", "COMMA_SRC0", "CLOSE"})
  <2>1. Become("SRC0") \/ Become("COMMA_SRC0") \/ Become("CLOSE")
    BY DEF Args
  <2> QED
    BY <1>2, <1>3, <2>1, BecomeMoves, StateNames DEF Moved
<1>5. cmd' \in CmdType /\ cmd'.sign = 1
  BY <1>3, RegZero, ImmRange DEF Args, CmdType
<1> QED
  BY <1>1, <1>2, <1>4, <1>5, QuietStep

LEMMA CommaSrc0Step ==
  ASSUME IInv, CommaSrc0
  PROVE  IInv'
<1>1. In("COMMA_SRC0") /\ Apart
  BY DEF CommaSrc0
<1>2. result = "run" /\ stack # << >> /\ Head(stack) = "COMMA_SRC0" /\ src' = src
  BY <1>1, InState, ApartSrc
<1>3. Typed /\ Shape /\ cmd \in CmdType /\ cmd.sign = 1
  BY <1>2, Unpacked
<1>4. CASE Sees({"comma"}) /\ Shift("AFTER_COMMA_SRC0") /\ UNCHANGED cmd
  <2>1. ~IsEof(pos)
    BY <1>3, <1>4, SeenToken DEF TokenType
  <2>2. Moved({"AFTER_COMMA_SRC0"})
    BY <1>2, <1>3, <1>4, <2>1, ShiftMoves, StateNames
  <2> QED
    BY <1>1, <1>2, <1>3, <1>4, <2>2, QuietStep
<1>5. CASE Become("CLOSE") /\ cmd' = [cmd EXCEPT !.s1 = RZ, !.imm = 0]
  <2>1. Moved({"CLOSE"})
    BY <1>2, <1>3, <1>5, BecomeMoves, StateNames
  <2>2. cmd' \in CmdType /\ cmd'.sign = 1
    BY <1>3, <1>5, RegZero, ImmRange DEF CmdType
  <2> QED
    BY <1>1, <1>2, <2>1, <2>2, QuietStep
<1> QED
  BY <1>4, <1>5 DEF CommaSrc0

(* What may follow the comma, or the second source register.               *)
LEMMA Tail2Moves ==
  ASSUME Typed, Shape, stack # << >>, Head(stack) # "BAD_END", src' = src, Tail2
  PROVE  Moved({"SIGN", "NUMBER", "AT"}) /\ cmd' = cmd
<1>1. CASE Become("SIGN") /\ UNCHANGED cmd
  BY <1>1, BecomeMoves, StateNames DEF Moved
<1>2. CASE Sees(Numbers) /\ Become("NUMBER") /\ UNCHANGED cmd
  <2>1. ~IsEof(pos)
    BY <1>2, SeenToken DEF TokenType
  <2> QED
    BY <1>2, <2>1, BecomeMoves, StateNames DEF Moved
<1>3. CASE Sees({"at"}) /\ Shift("AT") /\ UNCHANGED cmd
  <2>1. ~IsEof(pos)
    BY <1>3, SeenToken DEF TokenType
  <2> QED
    BY <1>3, <2>1, ShiftMoves, StateNames DEF Moved
<1> QED
  BY <1>1, <1>2, <1>3 DEF Tail2

LEMMA AfterCommaSrc0Step ==
  ASSUME IInv, AfterCommaSrc0
  PROVE  IInv'
<1>1. In("AFTER_COMMA_SRC0") /\ Apart
  BY DEF AfterCommaSrc0
<1>2. result = "run" /\ stack # << >> /\ Head(stack) = "AFTER_COMMA_SRC0" /\ src' = src
  BY <1>1, InState, ApartSrc
<1>3. Typed /\ Shape /\ cmd \in CmdType /\ cmd.sign = 1
  BY <1>2, Unpacked
<1>4. CASE Tail2
  <2>1. Moved({"SIGN", "NUMBER", "AT"}) /\ cmd' = cmd
    BY <1>2, <1>3, <1>4, Tail2Moves
  <2> QED
    BY <1>1, <1>2, <1>3, <2>1, QuietStep
<1>5. CASE Become("CLOSE") /\ (cmd' = [cmd EXCEPT !.s1 = RZ, !.imm = 0] \/ cmd' = [cmd EXCEPT !.imm = 0])
  <2>1. Moved({"CLOSE"})
    BY <1>2, <1>3, <1>5, BecomeMoves, StateNames
  <2>2. cmd' \in CmdType /\ cmd'.sign = 1
    BY <1>3, <1>5, RegZero, ImmRange DEF CmdType
  <2> QED
    BY <1>1, <1>2, <2>1, <2>2, QuietStep
<1>6. CASE Become("SRC1") /\ UNCHANGED cmd
  <2>1. Moved({"SRC1"})
    BY <1>2, <1>3, <1>6, BecomeMoves, StateNames
  <2> QED
    BY <1>1, <1>2, <1>3, <1>6, <2>1, QuietStep
<1> QED
  BY <1>4, <1>5, <1>6 DEF AfterCommaSrc0

LEMMA AfterSrc1Step ==
  ASSUME IInv, AfterSrc1
  PROVE  IInv'
<1>1. In("AFTER_SRC1") /\ Apart
  BY DEF AfterSrc1
<1>2. result = "run" /\ stack # << >> /\ Head(stack) = "AFTER_SRC1" /\ src' = src
  BY <1>1, InState, ApartSrc
<1>3. Typed /\ Shape /\ cmd \in CmdType /\ cmd.sign = 1
  BY <1>2, Unpacked
<1>4. CASE Tail2
  <2>1. Moved({"SIGN", "NUMBER", "AT"}) /\ cmd' = cmd
    BY <1>2, <1>3, <1>4, Tail2Moves
  <2> QED
    BY <1>1, <1>2, <1>3, <2>1, QuietStep
<1>5. CASE Become("CLOSE") /\ (cmd' = [cmd EXCEPT !.s1 = RZ, !.imm = 0] \/ cmd' = [cmd EXCEPT !.imm = 0])
  <2>1. Moved({"CLOSE"})
    BY <1>2, <1>3, <1>5, BecomeMoves, StateNames
  <2>2. cmd' \in CmdType /\ cmd'.sign = 1
    BY <1>3, <1>5, RegZero, ImmRange DEF CmdType
  <2> QED
    BY <1>1, <1>2, <2>1, <2>2, QuietStep
<1> QED
  BY <1>4, <1>5 DEF AfterSrc1

LEMMA SignStep ==
  ASSUME IInv, Sign
  PROVE  IInv'
<1>1. In("SIGN") /\ Apart
  BY DEF Sign
<1>2. result = "run" /\ stack # << >> /\ Head(stack) = "SIGN" /\ src' = src
  BY <1>1, InState, ApartSrc
<1>3. Typed /\ Shape /\ cmd \in CmdType /\ cmd.sign = 1
  BY <1>2, Unpacked
<1>4. Sees({"minus", "plus"}) /\ Shift("NUMBER")
  BY DEF Sign, Sees
<1>5. ~IsEof(pos)
  BY <1>3, <1>4, SeenToken DEF TokenType
<1>6. Moved({"NUMBER"})
  BY <1>2, <1>3, <1>4, <1>5, ShiftMoves, StateNames
<1>7. cmd' \in CmdType
  BY <1>3 DEF Sign, CmdType
<1> QED
  BY <1>1, <1>2, <1>6, <1>7, QuietStep DEF Moved

LEMMA NumberStep ==
  ASSUME IInv, Number
  PROVE  IInv'
<1>1. In("NUMBER") /\ Apart
  BY DEF Number
<1>2. result = "run" /\ stack # << >> /\ Head(stack) = "NUMBER" /\ src' = src
  BY <1>1, InState, ApartSrc
<1>3. Typed /\ Shape /\ cmd \in CmdType
  BY <1>2, Unpacked
<1>4. PICK v \in NumAt(pos) :
         IF v \in ImmMin .. ImmMax
         THEN cmd' = [cmd EXCEPT !.imm = v] /\ Shift("CLOSE")
         ELSE UNCHANGED cmd /\ Reject
  BY DEF Number
<1>5. CASE v \in ImmMin .. ImmMax
  <2>1. ~IsEof(pos)
    BY <1>2 DEF IInv, Reading
  <2>2. Moved({"CLOSE"})
    BY <1>2, <1>3, <1>4, <1>5, <2>1, ShiftMoves, StateNames
  <2>3. cmd' \in CmdType
    BY <1>3, <1>4, <1>5 DEF CmdType
  <2> QED
    BY <1>1, <1>2, <2>2, <2>3, QuietStep DEF Moved
<1>6. CASE v \notin ImmMin .. ImmMax
  <2>1. Moved({}) /\ cmd' = cmd
    BY <1>2, <1>3, <1>4, <1>6, RejectMoves
  <2> QED
    BY <1>1, <1>2, <1>3, <2>1, QuietStep DEF Moved
<1> QED
  BY <1>5, <1>6

LEMMA UnexpectedStep ==
  ASSUME IInv, Unexpected
  PROVE  IInv'
<1>1. Reject /\ Apart /\ cmd' = cmd /\ result = "run" /\ stack # << >>
  BY DEF Unexpected
<1>2. Typed /\ cmd \in CmdType /\ src' = src
  BY <1>1, Unpacked, ApartSrc
<1>3. Moved({})
  BY <1>1, <1>2, RejectMoves
<1>4. Head(stack') = "BAD_END"
  BY <1>3 DEF Moved
<1> QED
  BY <1>1, <1>2, <1>3, <1>4, QuietStep

(* Only STARTs are left: that is in order in any case.                     *)
LEMMA AllStartFacts ==
  ASSUME stack' \in Seq(State), AllStart(stack'), cmd'.sign = 1
  PROVE  Shape' /\ Reading' /\ SignReset'
<1>1. stack' = << >> \/ Head(stack') = "START"
  BY DEF AllStart
<1>2. \A i \in 2 .. Len(stack') : stack'[i] = "START"
  BY DEF AllStart
<1> QED
  BY <1>1, <1>2 DEF Shape, Reading, SignReset

(* A step taken where no command is being packed keeps the uses as they    *)
(* are, if it keeps code, fixes and the labels that are defined.           *)
LEMMA UsesStay ==
  ASSUME IInv, result = "run", stack # << >>,
         Head(stack) \notin {"CLOSE", "FINISH", "BAD_END"},
         uses' = uses, fixes' = fixes, code' = code, codeOff' = codeOff,
         \A l \in DOMAIN labels : l \in DOMAIN labels' /\ labels'[l] = labels[l],
         result' # "ok"
  PROVE  UsesKept' /\ OneUse' /\ FixesUsed' /\ UsePairs' /\ CodeBelow' /\ Ended'
<1>1. ~Doomed /\ ~Busy
  BY DEF Doomed, Busy
<1>2. \A u \in uses : Written(u)
  BY <1>1 DEF IInv, UsesKept, Pending
<1>3. \A u \in uses : Written(u)'
  BY <1>2 DEF Written
<1>4. UsesKept'
  BY <1>3 DEF UsesKept
<1>5. OneUse'
  BY <1>1 DEF IInv, OneUse
<1> QED
  BY <1>4, <1>5 DEF IInv, FixesUsed, UsePairs, CodeBelow, Ended

LEMMA StartStep ==
  ASSUME IInv, Start
  PROVE  IInv'
<1>1. In("START") /\ Apart
  BY DEF Start
<1>2. result = "run" /\ stack # << >> /\ Head(stack) = "START" /\ src' = src
  BY <1>1, InState, ApartSrc
<1>3. Typed /\ Shape /\ cmd \in CmdType /\ cmd.sign = 1
  BY <1>2, Unpacked
<1>4. CASE Enter("DST") /\ UNCHANGED cmd
  <2>1. Moved({"DST"})
    BY <1>1, <1>2, <1>3, <1>4, EnterMoves, StateNames
  <2> QED
    BY <1>1, <1>2, <1>3, <1>4, <2>1, QuietStep
<1>5. CASE Enter("OPERATOR") /\ cmd' = [cmd EXCEPT !.dst = RZ]
  <2>1. Moved({"OPERATOR"})
    BY <1>1, <1>2, <1>3, <1>5, EnterMoves, StateNames
  <2>2. cmd' \in CmdType /\ cmd'.sign = 1
    BY <1>3, <1>5, RegZero DEF CmdType
  <2> QED
    BY <1>1, <1>2, <2>1, <2>2, QuietStep
<1>6. CASE stack' = Tail(stack) /\ UNCHANGED <<cmd, pos, said>>
  <2>1. stack' \in Seq(State) /\ AllStart(stack')
    BY <1>2, <1>3, <1>6, TailStart
  <2>2. Shape' /\ Reading' /\ SignReset'
    BY <1>3, <1>6, <2>1, AllStartFacts
  <2>3. Position(pos)' /\ said' \in BOOLEAN /\ cmd' \in CmdType
    BY <1>2, <1>3, <1>6 DEF Typed, TypeOK, Position, IsEof
  <2>4. Typed'
    BY <1>1, <1>3, <2>1, <2>3, QuietTyped
  <2>5. UsesKept' /\ OneUse' /\ FixesUsed' /\ UsePairs' /\ CodeBelow' /\ Ended'
    BY <1>1, <1>2, UsesStay DEF Apart, tables, memory
  <2> QED
    BY <2>2, <2>4, <2>5 DEF IInv
<1> QED
  BY <1>4, <1>5, <1>6 DEF Start

LEMMA CloseStep ==
  ASSUME IInv, Close
  PROVE  IInv'
<1>1. In("CLOSE") /\ Apart /\ Sees({"close"})
  BY DEF Close
<1>2. result = "run" /\ stack # << >> /\ Head(stack) = "CLOSE" /\ src' = src
  BY <1>1, InState, ApartSrc
<1>3. Typed /\ Shape /\ cmd \in CmdType
  BY <1>2, Unpacked
<1>4. ~IsEof(pos)
  BY <1>1, <1>3, SeenToken DEF TokenType
<1>5. Position(Behind(pos))
  BY <1>3, <1>4, BehindPosition DEF Typed
<1>6. Position(pos)' /\ said' \in BOOLEAN /\ cmd' = cmd
  BY <1>2, <1>3, <1>5 DEF Close, Position, IsEof, Typed, TypeOK
<1>7. stack' \in Seq(State) /\ stack' # << >> /\ Head(stack') = "FINISH" /\ Shape'
  BY <1>2, <1>3, TopShape, StateNames DEF Close
<1>8. Moved({"FINISH"})
  BY <1>6, <1>7 DEF Moved, Reading
<1> QED
  BY <1>1, <1>2, <1>3, <1>6, <1>7, <1>8, QuietStep

-----------------------------------------------------------------------------
(***************************************************************************)
(* Steps that end the assembly with an error.                              *)
(***************************************************************************)
LEMMA ErrorEnds ==
  ASSUME IInv, result = "run", result' \in {"error", "thrown"}, said' \in BOOLEAN,
         stack' \in Seq(State), Shape', Reading', SignReset',
         UNCHANGED <<src, cmd, tables, memory, uses>>, Position(pos)'
  PROVE  IInv'
<1>1. /\ src' = src /\ cmd' = cmd /\ uses' = uses /\ labels' = labels /\ fixes' = fixes
      /\ codeOff' = codeOff /\ dataOff' = dataOff /\ cur' = cur
      /\ code' = code /\ data' = data /\ mregs' = mregs
  BY DEF tables, memory
<1>2. pos' \in Nat \X Nat
  BY DEF Position
<1>3. Typed'
  BY <1>1, <1>2 DEF IInv, Typed, TypeOK, CommandType
<1>4. UsesKept' /\ OneUse'
  BY DEF UsesKept, OneUse, Doomed
<1>5. FixesUsed' /\ UsePairs' /\ CodeBelow' /\ Ended'
  BY <1>1 DEF IInv, FixesUsed, UsePairs, CodeBelow, Ended
<1> QED
  BY <1>3, <1>4, <1>5 DEF IInv

LEMMA ThrowStep ==
  ASSUME IInv, result = "run", Throw
  PROVE  IInv'
<1>1. stack' = stack /\ pos' = pos /\ src' = src /\ cmd' = cmd /\ said' = said
  BY DEF Throw
<1>2. stack' \in Seq(State) /\ Shape' /\ Reading' /\ SignReset' /\ Position(pos)' /\ said' \in BOOLEAN
  BY <1>1 DEF IInv, Typed, TypeOK, Shape, Reading, SignReset, Position, IsEof
<1> QED
  BY <1>1, <1>2, ErrorEnds DEF Throw

LEMMA BadEndStep ==
  ASSUME IInv, BadEnd
  PROVE  IInv'
<1>1. stack' = << >> /\ pos' = pos /\ src' = src /\ cmd' = cmd /\ said' = said /\ result = "run"
  BY DEF BadEnd, In
<1>2. cmd' = cmd /\ stack' \in Seq(State) /\ Shape' /\ Reading' /\ Position(pos)' /\ said' \in BOOLEAN
  BY <1>1 DEF IInv, Typed, TypeOK, Shape, Reading, Position, IsEof
<1> QED
  BY <1>1, <1>2, ErrorEnds DEF BadEnd, SignReset

LEMMA StartMacroStep ==
  ASSUME IInv, StartMacro
  PROVE  IInv'
<1>1. In("START") /\ Sees({"macro"})
  BY DEF StartMacro
<1>2. /\ result = "run" /\ stack # << >> /\ Head(stack) = "START"
      /\ src' = src /\ cmd' = cmd /\ UNCHANGED <<tables, memory, uses>>
  BY <1>1, InState DEF StartMacro
<1>3. Typed /\ Shape /\ cmd \in CmdType /\ cmd.sign = 1
  BY <1>2, Unpacked
<1>4. ~IsEof(pos) /\ Position(Behind(pos))
  BY <1>1, <1>3, SeenToken, BehindPosition DEF TokenType, Typed
<1>5. Position(pos)'
  BY <1>2, <1>4 DEF StartMacro, Position, IsEof
<1>6. CASE HasNext(pos)
  <2>1. stack' = << "MACRO" >> \o stack /\ result' = result /\ said' = said
    BY <1>6 DEF StartMacro
  <2>2. stack \in Seq(State) /\ AllStart(stack)
    BY <1>2, <1>3, TailFacts DEF AllStart, Shape, Typed, TypeOK
  <2>3. stack' \in Seq(State) /\ stack' # << >> /\ Head(stack') = "MACRO" /\ Shape'
    BY <2>1, <2>2, StackFacts, PushShape, StateNames DEF Shape
  <2>4. Moved({"MACRO"})
    BY <1>3, <1>5, <2>1, <2>3 DEF Moved, Reading, Typed, TypeOK
  <2>5. Apart
    BY <1>2, <2>1 DEF Apart, StartMacro
  <2> QED
    BY <1>2, <1>3, <2>3, <2>4, <2>5, QuietStep
<1>7. CASE ~HasNext(pos)
  <2>1. stack' = stack /\ result' = "error" /\ said' = TRUE
    BY <1>7 DEF StartMacro
  <2>2. stack' \in Seq(State) /\ Shape' /\ Reading' /\ SignReset'
    BY <1>2, <1>3, <2>1 DEF Typed, TypeOK, Shape, Reading, SignReset
  <2> QED
    BY <1>2, <1>5, <2>1, <2>2, ErrorEnds
<1> QED
  BY <1>6, <1>7

-----------------------------------------------------------------------------
(***************************************************************************)
(* Commands that name a label.                                             *)
(***************************************************************************)
(* Before the operand is read, every use is of a command already written,  *)
(* and so of another offset.                                               *)
LEMMA UsesBelow ==
  ASSUME IInv, In("AT")
  PROVE  /\ \A u \in uses : Written(u) /\ u[2] # codeOff
         /\ \A u, v \in uses : u[2] = v[2] => u = v
<1>1. ~Doomed /\ ~Busy
  BY InState DEF Doomed, Busy
<1>2. \A u \in uses : Written(u)
  BY <1>1 DEF IInv, UsesKept, Pending
<1>3. \A u \in uses : u[2] < codeOff
  BY <1>2 DEF IInv, CodeBelow, Written
<1>4. codeOff \in Nat
  BY DEF IInv, Typed, TypeOK
<1>5. \A u \in uses : u[2] # codeOff
  BY <1>3, <1>4
<1> QED
  BY <1>1, <1>2, <1>5 DEF IInv, OneUse

(* The use of label l by the command at codeOff, which is now CLOSE's.     *)
LEMMA NewUse ==
  ASSUME IInv, In("AT"), NEW l,
         uses' = uses \cup {<< l, codeOff >>},
         fixes' = fixes \/ fixes' = fixes \cup {<< l, codeOff >>},
         << l, codeOff >> \notin fixes' => l \in DOMAIN labels /\ cmd'.imm = labels[l] /\ cmd'.sign = 1,
         labels' = labels, codeOff' = codeOff, code' = code, result' = result,
         stack' # << >>, Head(stack') \in {"CLOSE", "BAD_END"}
  PROVE  UsesKept' /\ OneUse' /\ FixesUsed' /\ UsePairs' /\ CodeBelow' /\ Ended'
<1> DEFINE n == << l, codeOff >>
<1>1. /\ \A u \in uses : Written(u) /\ u[2] # codeOff
      /\ \A u, v \in uses : u[2] = v[2] => u = v
  BY UsesBelow
<1>2. UsesKept'
  <2>1. CASE Head(stack') = "BAD_END"
    BY <2>1 DEF UsesKept, Doomed
  <2>2. CASE Head(stack') = "CLOSE"
    <3>1. Pending(n)'
      BY <2>2 DEF Pending, Busy
    <3>2. \A u \in uses : Written(u)'
      <4> SUFFICES ASSUME NEW u \in uses
                   PROVE  Written(u)'
        OBVIOUS
      <4>1. u # n
        BY <1>1
      <4>2. u \notin fixes' => u \notin fixes
        BY <4>1
      <4> QED
        BY <1>1, <4>2 DEF Written
    <3> QED
      BY <3>1, <3>2 DEF UsesKept
  <2> QED
    BY <2>1, <2>2
<1>3. OneUse'
  <2> SUFFICES ASSUME NEW u \in uses', NEW v \in uses', u[2] = v[2]
               PROVE  u = v
    BY DEF OneUse
  <2>1. (u \in uses /\ v \in uses) \/ u = n \/ v = n
    OBVIOUS
  <2> QED
    BY <1>1, <2>1
<1>4. FixesUsed' /\ UsePairs' /\ CodeBelow'
  BY DEF IInv, FixesUsed, UsePairs, CodeBelow
<1>5. Ended'
  BY InState DEF Ended
<1> QED
  BY <1>2, <1>3, <1>4, <1>5

LEMMA AtUndefinedStep ==
  ASSUME IInv, AtUndefined
  PROVE  IInv'
<1>1. In("AT") /\ Sees({"word"}) /\ Shift("CLOSE")
  BY DEF AtUndefined
<1>2. /\ result = "run" /\ stack # << >> /\ Head(stack) = "AT" /\ src' = src
      /\ labels' = labels /\ codeOff' = codeOff /\ dataOff' = dataOff /\ cur' = cur
      /\ code' = code /\ data' = data /\ mregs' = mregs /\ result' = result
  BY <1>1, InState DEF AtUndefined, memory
<1>3. Typed /\ Shape /\ cmd \in CmdType /\ cmd.sign = 1
  BY <1>2, Unpacked
<1>4. ~IsEof(pos) /\ At(pos) \in Token
  BY <1>1, <1>3, SeenToken DEF TokenType
<1>5. Moved({"CLOSE"})
  BY <1>1, <1>2, <1>3, <1>4, ShiftMoves, StateNames
<1> DEFINE l == At(pos).opr
<1>6. /\ uses' = uses \cup {<< l, codeOff >>} /\ fixes' = fixes \cup {<< l, codeOff >>}
      /\ cmd' = [cmd EXCEPT !.imm = ImmMax]
  BY DEF AtUndefined
<1> HIDE DEF l
<1>7. UsesKept' /\ OneUse' /\ FixesUsed' /\ UsePairs' /\ CodeBelow' /\ Ended'
  BY <1>1, <1>2, <1>5, <1>6, NewUse DEF Moved
<1>8. cmd' \in CmdType
  BY <1>3, <1>6, ImmRange DEF CmdType
<1>9. Typed'
  <2>1. TypeOK /\ codeOff \in Nat
    BY <1>3 DEF Typed, TypeOK
  <2>2. \A f \in fixes' \cup uses' : f[2] \in Nat
    BY <1>6, <2>1 DEF TypeOK
  <2>3. pos' \in Nat \X Nat /\ stack' \in Seq(State) /\ said' \in BOOLEAN
    BY <1>5 DEF Moved, Position
  <2>4. TypeOK'
    BY <1>2, <1>8, <2>1, <2>2, <2>3 DEF TypeOK, CmdType, CommandType
  <2> QED
    BY <1>2, <1>3, <1>5, <2>4 DEF Typed, Moved
<1>10. Shape' /\ Reading' /\ SignReset'
  BY <1>5 DEF Moved, SignReset
<1> QED
  BY <1>7, <1>9, <1>10 DEF IInv

LEMMA AtDefinedStep ==
  ASSUME IInv, AtDefined
  PROVE  IInv'
<1> DEFINE l == At(pos).opr
           v == labels[l]
<1>1. In("AT") /\ Sees({"word"}) /\ l \in DOMAIN labels
  BY DEF AtDefined
<1>2. /\ result = "run" /\ stack # << >> /\ Head(stack) = "AT" /\ src' = src
      /\ labels' = labels /\ fixes' = fixes /\ codeOff' = codeOff /\ dataOff' = dataOff
      /\ cur' = cur /\ code' = code /\ data' = data /\ mregs' = mregs /\ result' = result
  BY <1>1, InState DEF AtDefined, tables, memory
<1>3. Typed /\ Shape /\ cmd \in CmdType /\ cmd.sign = 1
  BY <1>2, Unpacked
<1>4. ~IsEof(pos)
  BY <1>1, <1>3, SeenToken DEF TokenType
<1>5. CASE v > ImmMax
  <2>1. stack' = Top("BAD_END") /\ said' = TRUE /\ pos' = pos /\ cmd' = cmd /\ uses' = uses
    BY <1>5 DEF AtDefined
  <2>2. stack' \in Seq(State) /\ stack' # << >> /\ Head(stack') = "BAD_END" /\ Shape'
    BY <1>2, <1>3, <2>1, TopShape, StateNames
  <2>3. Moved({})
    BY <1>2, <1>3, <2>1, <2>2 DEF Moved, Reading, Position, IsEof, Typed
  <2>4. Apart
    BY <1>2, <2>1 DEF Apart, tables, memory, AtDefined
  <2> QED
    BY <1>2, <1>3, <2>1, <2>2, <2>3, <2>4, QuietStep
<1>6. CASE ~(v > ImmMax)
  <2>1. /\ cmd' = [cmd EXCEPT !.imm = v] /\ uses' = uses \cup {<< l, codeOff >>}
        /\ Shift("CLOSE")
    BY <1>6 DEF AtDefined
  <2>2. Moved({"CLOSE"})
    BY <1>2, <1>3, <1>4, <2>1, ShiftMoves, StateNames
  <2>3. v \in Nat /\ codeOff \in Nat
    BY <1>1, <1>3 DEF Typed, TypeOK
  <2>4. v \in ImmMin .. ImmMax
    BY <1>6, <2>3, ImmAssumption DEF ImmMin, ImmMax
  <2> HIDE DEF l
  <2>5. cmd' \in CmdType /\ cmd'.imm = labels[l] /\ cmd'.sign = 1
    BY <1>3, <2>1, <2>4 DEF CmdType
  <2>6. UsesKept' /\ OneUse' /\ FixesUsed' /\ UsePairs' /\ CodeBelow' /\ Ended'
    BY <1>1, <1>2, <2>1, <2>2, <2>5, NewUse DEF Moved
  <2>7. Typed'
    <3>1. \A f \in fixes' \cup uses' : f[2] \in Nat
      BY <1>2, <1>3, <2>1, <2>3 DEF Typed, TypeOK
    <3>2. pos' \in Nat \X Nat /\ stack' \in Seq(State) /\ said' \in BOOLEAN
      BY <2>2 DEF Moved, Position
    <3>3. TypeOK
      BY <1>3 DEF Typed
    <3>4. TypeOK'
      BY <1>2, <2>5, <3>1, <3>2, <3>3 DEF TypeOK, CmdType, CommandType
    <3> QED
      BY <1>2, <1>3, <2>2, <3>4 DEF Typed, Moved
  <2>8. Shape' /\ Reading' /\ SignReset'
    BY <2>2, <2>5 DEF Moved, SignReset
  <2> QED
    BY <2>6, <2>7, <2>8 DEF IInv
<1> QED
  BY <1>5, <1>6

LEMMA NoCmdType == NoCmd \in CmdType /\ NoCmd.sign = 1
BY RegZero, ImmRange DEF NoCmd, CmdType

(* A command is packed with the operand that was read for it.              *)
LEMMA CommandPacked ==
  ASSUME cmd \in CmdType
  PROVE  Command \in CommandType /\ (cmd.sign = 1 => Command.imm = Packed(cmd.imm))
<1>1. ImmMin .. ImmMax \subseteq Int
  OBVIOUS
<1>2. cmd.imm \in Int /\ cmd.sign \in {-1, 1}
  BY <1>1 DEF CmdType
<1>3. cmd.imm * cmd.sign \in Int /\ (cmd.sign = 1 => cmd.imm * cmd.sign = cmd.imm)
  BY <1>2
<1>4. Packed(cmd.imm * cmd.sign) \in -ImmHalf .. ImmHalf - 1
  BY <1>3, PackedRange
<1>5. Command \in CommandType
  BY <1>4 DEF Command, CommandType, CmdType
<1>6. Command.imm = Packed(cmd.imm * cmd.sign)
  BY DEF Command
<1> QED
  BY <1>3, <1>5, <1>6

LEMMA FinishStep ==
  ASSUME IInv, Finish
  PROVE  IInv'
<1>1. In("FINISH")
  BY DEF Finish
<1>2. /\ result = "run" /\ stack # << >> /\ Head(stack) = "FINISH" /\ src' = src /\ pos' = pos
      /\ labels' = labels /\ fixes' = fixes /\ codeOff' = codeOff + 4 /\ dataOff' = dataOff
      /\ cur' = cur /\ data' = data /\ mregs' = mregs /\ result' = result /\ uses' = uses
      /\ said' = said /\ cmd' = NoCmd /\ stack' = Tail(stack)
      /\ code' = Put(code, codeOff, Command)
  BY <1>1, InState DEF Finish
<1>3. Typed /\ Shape /\ cmd \in CmdType /\ TypeOK /\ codeOff \in Nat
  BY <1>2, Unpacked DEF Typed, TypeOK
<1>4. stack' \in Seq(State) /\ AllStart(stack')
  BY <1>2, <1>3, TailStart
<1>5. Shape' /\ Reading' /\ SignReset'
  BY <1>2, <1>4, NoCmdType, AllStartFacts
<1>6. /\ DOMAIN code' = DOMAIN code \cup {codeOff} /\ code'[codeOff] = Command
      /\ \A o \in DOMAIN code : o # codeOff => code'[o] = code[o]
  BY <1>2 DEF Put
<1>7. \A o \in DOMAIN code : o < codeOff
  BY DEF IInv, CodeBelow
<1>8. Typed'
  <2>1. \A o \in DOMAIN code' : o \in Nat /\ code'[o] \in CommandType
    BY <1>3, <1>6, CommandPacked DEF TypeOK
  <2>2. cmd' \in CmdType /\ codeOff' \in Nat
    BY <1>2, <1>3, NoCmdType
  <2>3. TypeOK'
    BY <1>2, <1>3, <1>4, <2>1, <2>2 DEF TypeOK, CmdType
  <2> QED
    BY <1>2, <1>3, <2>3 DEF Typed, Position, IsEof
<1>9. CodeBelow'
  BY <1>2, <1>3, <1>6, <1>7 DEF CodeBelow, TypeOK
<1>10. ~Doomed /\ ~Doomed'
  <2>1. stack' = << >> \/ Head(stack') = "START"
    BY <1>4 DEF AllStart
  <2> QED
    BY <1>2, <2>1 DEF Doomed
<1>11. UsesKept'
  <2> SUFFICES ASSUME NEW u \in uses
               PROVE  Written(u)'
    BY <1>2 DEF UsesKept
  <2>1. CASE Pending(u)
    BY <1>2, <1>3, <1>6, <2>1, CommandPacked DEF Pending, Written
  <2>2. CASE Written(u)
    <3>1. u[2] # codeOff
      BY <1>3, <1>7, <2>2 DEF Written
    <3> QED
      BY <1>2, <1>6, <2>2, <3>1 DEF Written
  <2> QED
    BY <1>10, <2>1, <2>2 DEF IInv, UsesKept
<1>12. OneUse' /\ FixesUsed' /\ UsePairs' /\ Ended'
  BY <1>2, <1>10 DEF IInv, OneUse, FixesUsed, UsePairs, Ended
<1> QED
  BY <1>5, <1>8, <1>9, <1>11, <1>12 DEF IInv

-----------------------------------------------------------------------------
(***************************************************************************)
(* Macros.                                                                 *)
(***************************************************************************)
LEMMA MacroEndsFacts ==
  ASSUME Typed, Shape, In("MACRO"), NEW p, Position(p), ~IsEof(p), src' = src,
         MacroEnds(p)
  PROVE  Position(pos)' /\ stack' \in Seq(State) /\ AllStart(stack') /\ said' \in BOOLEAN
<1>1. stack # << >> /\ Head(stack) = "MACRO"
  BY InState
<1>2. Tail(stack) \in Seq(State) /\ AllStart(Tail(stack))
  BY <1>1, TailStart
<1>3. Position(pos)'
  BY BehindPosition DEF MacroEnds, Position, IsEof
<1>4. CASE HasNext(p)
  BY <1>2, <1>3, <1>4 DEF MacroEnds, Typed, TypeOK
<1>5. CASE ~HasNext(p)
  <2>1. stack' = Top("START") /\ said' = TRUE
    BY <1>5 DEF MacroEnds, MacroFails
  <2>2. stack' = << "START" >> \o Tail(stack)
    BY <2>1 DEF Top
  <2> QED
    BY <1>2, <1>3, <2>1, <2>2, PushStart
<1> QED
  BY <1>4, <1>5

LEMMA MacroFailsFacts ==
  ASSUME Typed, Shape, In("MACRO"), MacroFails
  PROVE  stack' \in Seq(State) /\ AllStart(stack') /\ said' \in BOOLEAN
<1>1. stack # << >> /\ Head(stack) = "MACRO"
  BY InState
<1>2. Tail(stack) \in Seq(State) /\ AllStart(Tail(stack))
  BY <1>1, TailStart
<1>3. stack' = << "START" >> \o Tail(stack) /\ said' = TRUE
  BY DEF MacroFails, Top
<1> QED
  BY <1>2, <1>3, PushStart

(* What every step of a macro has to keep.                                 *)
LEMMA MacroKeeps ==
  ASSUME IInv, In("MACRO"), Position(pos)', stack' \in Seq(State), AllStart(stack'),
         said' \in BOOLEAN, cmd' = cmd, src' = src, uses' = uses, fixes' = fixes,
         code' = code, codeOff' = codeOff, result' = result,
         dataOff' \in Nat, cur' \in {"code", "data"},
         data' \in [0 .. DSize - 1 -> ByteVal],
         mregs' \in [Reg -> Int], mregs'[RZ] = 0,
         \A l \in DOMAIN labels' : labels'[l] \in Nat,
         \A l \in DOMAIN labels : l \in DOMAIN labels' /\ labels'[l] = labels[l]
  PROVE  IInv'
<1>1. result = "run" /\ stack # << >> /\ Head(stack) = "MACRO"
  BY InState
<1>2. Typed /\ TypeOK /\ cmd.sign = 1
  BY <1>1, Unpacked DEF Typed
<1>3. pos' \in Nat \X Nat
  BY DEF Position
<1>4. Typed'
  BY <1>2, <1>3 DEF Typed, TypeOK, CommandType
<1>5. Shape' /\ Reading' /\ SignReset'
  BY <1>2, AllStartFacts
<1>6. UsesKept' /\ OneUse' /\ FixesUsed' /\ UsePairs' /\ CodeBelow' /\ Ended'
  BY <1>1, UsesStay
<1> QED
  BY <1>4, <1>5, <1>6 DEF IInv

LEMMA TokenOf ==
  ASSUME Typed, NEW q, Position(q), ~IsEof(q)
  PROVE  At(q) \in Token
<1>1. q[1] \in 1 .. Len(src) /\ src[q[1]] \in Lines
  BY DEF Typed, Position, IsEof
<1>2. src[q[1]].text \in Seq(Token)
  BY <1>1, LinesAssumption
<1> QED
  BY <1>2 DEF At, Position

LEMMA SetRegType ==
  ASSUME TypeOK, NEW r, NEW v \in Int, SetReg(r, v)
  PROVE  mregs' \in [Reg -> Int] /\ mregs'[RZ] = 0
<1>1. mregs \in [Reg -> Int] /\ mregs[RZ] = 0
  BY DEF TypeOK
<1>2. CASE r = RZ
  BY <1>1, <1>2 DEF SetReg
<1>3. CASE r # RZ
  <2>1. mregs' = [mregs EXCEPT ![r] = v]
    BY <1>3 DEF SetReg
  <2>2. RZ \in DOMAIN mregs
    BY <1>1, RegZero
  <2>3. mregs'[RZ] = 0
    BY <1>1, <1>3, <2>1, <2>2
  <2> QED
    BY <1>1, <2>1, <2>3
<1> QED
  BY <1>2, <1>3

LEMMA WidthOf ==
  ASSUME NEW t \in Numbers
  PROVE  Width(t) \in {1, 2, 4, 8}
BY DEF Numbers, Width

LEMMA MacroStep ==
  ASSUME IInv, In("MACRO"),
         MacroUnexpected \/ MacroNumber \/ MacroSection \/ MacroLabel \/ MacroRegister
  PROVE  IInv'
<1>1. result = "run" /\ stack # << >> /\ Head(stack) = "MACRO"
  BY InState
<1>2. Typed /\ Shape /\ TypeOK /\ Position(pos)
  BY <1>1, Unpacked DEF Typed
<1>3. /\ dataOff \in Nat /\ codeOff \in Nat /\ cur \in {"code", "data"}
      /\ data \in [0 .. DSize - 1 -> ByteVal] /\ mregs \in [Reg -> Int] /\ mregs[RZ] = 0
      /\ \A l \in DOMAIN labels : labels[l] \in Nat
  BY <1>2 DEF TypeOK
<1>4. CASE MacroUnexpected
  <2>1. stack' \in Seq(State) /\ AllStart(stack') /\ said' \in BOOLEAN
    BY <1>2, <1>4, MacroFailsFacts DEF MacroUnexpected
  <2>2. pos' = pos /\ cmd' = cmd /\ Apart
    BY <1>4 DEF MacroUnexpected
  <2>3. Position(pos)'
    BY <1>2, <2>2 DEF Position, IsEof, Apart
  <2> QED
    BY <1>3, <2>1, <2>2, <2>3, MacroKeeps DEF Apart, tables, memory
<1>5. CASE MacroNumber
  <2>1. Sees(Numbers) /\ MacroEnds(pos) /\ src' = src
    BY <1>5 DEF MacroNumber
  <2>2. ~IsEof(pos) /\ At(pos) \in Token /\ Type(pos) \in Numbers
    BY <1>2, <2>1, SeenToken DEF TokenType, Sees
  <2>3. Position(pos)' /\ stack' \in Seq(State) /\ AllStart(stack') /\ said' \in BOOLEAN
    BY <1>2, <2>1, <2>2, MacroEndsFacts
  <2> DEFINE n == Width(Type(pos))
  <2>4. data' = SetCell(data, dataOff, n, At(pos).num) /\ dataOff' = dataOff + n
    BY <1>5 DEF MacroNumber
  <2>5. n \in {1, 2, 4, 8} /\ At(pos).num \in Int
    BY <2>2, WidthOf, WordInt DEF Token
  <2> HIDE DEF n
  <2>6. data' \in [0 .. DSize - 1 -> ByteVal]
    <3>1. dataOff \in Int /\ data \in [0 .. DSize - 1 -> ByteVal]
      BY <1>3
    <3>2. SetCell(data, dataOff, n, At(pos).num) \in [0 .. DSize - 1 -> ByteVal]
      BY <2>5, <3>1, SetCellType
    <3> QED
      BY <2>4, <3>2
  <2>7. dataOff' \in Nat
    BY <1>3, <2>4, <2>5
  <2> QED
    BY <1>3, <1>5, <2>3, <2>6, <2>7, MacroKeeps DEF MacroNumber
<1>6. CASE MacroSection
  <2>1. Sees({"word"}) /\ MacroEnds(pos) /\ src' = src /\ cur' \in {"code", "data"}
    BY <1>6 DEF MacroSection
  <2>2. ~IsEof(pos)
    BY <1>2, <2>1, SeenToken DEF TokenType
  <2>3. Position(pos)' /\ stack' \in Seq(State) /\ AllStart(stack') /\ said' \in BOOLEAN
    BY <1>2, <2>1, <2>2, MacroEndsFacts
  <2> QED
    BY <1>3, <1>6, <2>1, <2>3, MacroKeeps DEF MacroSection, memory
<1>7. CASE MacroLabel
  <2> DEFINE l == At(pos).opr
             o == IF cur = "code" THEN codeOff ELSE dataOff
  <2>1. Sees({"word"}) /\ src' = src
    BY <1>7 DEF MacroLabel
  <2>2. ~IsEof(pos)
    BY <1>2, <2>1, SeenToken DEF TokenType
  <2>3. CASE l \in DOMAIN labels
    <3>1. MacroFails /\ pos' = pos /\ labels' = labels
      BY <1>7, <2>3 DEF MacroLabel
    <3>2. stack' \in Seq(State) /\ AllStart(stack') /\ said' \in BOOLEAN
      BY <1>2, <3>1, MacroFailsFacts
    <3>3. Position(pos)'
      BY <1>2, <2>1, <3>1 DEF Position, IsEof
    <3> QED
      BY <1>3, <1>7, <3>1, <3>2, <3>3, MacroKeeps DEF MacroLabel, memory
  <2>4. CASE l \notin DOMAIN labels
    <3>1. labels' = Put(labels, l, o) /\ MacroEnds(pos)
      BY <1>7, <2>4 DEF MacroLabel
    <3>2. Position(pos)' /\ stack' \in Seq(State) /\ AllStart(stack') /\ said' \in BOOLEAN
      BY <1>2, <2>1, <2>2, <3>1, MacroEndsFacts
    <3>3. o \in Nat
      BY <1>3
    <3> HIDE DEF l, o
    <3>4. /\ \A k \in DOMAIN labels' : labels'[k] \in Nat
          /\ \A k \in DOMAIN labels : k \in DOMAIN labels' /\ labels'[k] = labels[k]
      BY <1>3, <2>4, <3>1, <3>3 DEF Put
    <3> QED
      BY <1>3, <1>7, <3>2, <3>4, MacroKeeps DEF MacroLabel, memory
  <2> QED
    BY <2>3, <2>4
<1>8. CASE MacroRegister
  <2> DEFINE q == Behind(pos)
  <2>1. Sees({"reg"}) /\ src' = src
    BY <1>8 DEF MacroRegister
  <2>2. ~IsEof(pos)
    BY <1>2, <2>1, SeenToken DEF TokenType
  <2>3. Position(q)
    BY <1>2, <2>2, BehindPosition
  <2>4. ASSUME ~IsEof(q), MacroEnds(q)
        PROVE  Position(pos)' /\ stack' \in Seq(State) /\ AllStart(stack') /\ said' \in BOOLEAN
    BY <1>2, <2>1, <2>3, <2>4, MacroEndsFacts
  <2>5. ASSUME pos' = q, MacroFails
        PROVE  Position(pos)' /\ stack' \in Seq(State) /\ AllStart(stack') /\ said' \in BOOLEAN
    <3>1. Position(pos)'
      BY <2>1, <2>3, <2>5 DEF Position, IsEof
    <3> QED
      BY <1>2, <2>5, <3>1, MacroFailsFacts
  <2>6. Type(q) \in Numbers \cup {"word"} => ~IsEof(q)
    BY DEF Type, Numbers
  <2>7. Position(pos)' /\ stack' \in Seq(State) /\ AllStart(stack') /\ said' \in BOOLEAN
    <3>1. (~IsEof(q) /\ MacroEnds(q)) \/ (pos' = q /\ MacroFails)
      BY <1>8, <2>6 DEF MacroRegister
    <3> QED
      BY <2>4, <2>5, <3>1
  <2>8. mregs' \in [Reg -> Int] /\ mregs'[RZ] = 0
    <3>1. CASE mregs' = mregs
      BY <1>3, <3>1
    <3>2. CASE Type(q) \in Numbers /\ SetReg(At(pos).reg, At(q).num)
      <4>1. At(q) \in Token
        BY <1>2, <2>3, <2>6, <3>2, TokenOf
      <4>2. At(q).num \in Int
        BY <4>1, WordInt DEF Token
      <4> QED
        BY <1>2, <3>2, <4>2, SetRegType
    <3>3. CASE Type(q) = "word" /\ At(q).opr \in DOMAIN labels /\ SetReg(At(pos).reg, labels[At(q).opr])
      <4>1. labels[At(q).opr] \in Int
        BY <1>3, <3>3
      <4> QED
        BY <1>2, <3>3, <4>1, SetRegType
    <3> QED
      BY <1>8, <3>1, <3>2, <3>3 DEF MacroRegister
  <2> QED
    BY <1>3, <1>8, <2>7, <2>8, MacroKeeps DEF MacroRegister, tables
<1> QED
  BY <1>4, <1>5, <1>6, <1>7, <1>8
LEMMA MacroThrowsStep ==
  ASSUME IInv, MacroThrows \/ FinishThrows
  PROVE  IInv'
BY ThrowStep DEF MacroThrows, FinishThrows, In

-----------------------------------------------------------------------------
(***************************************************************************)
(* Fixes, and the end.                                                     *)
(***************************************************************************)
(* With every state gone, every use is of a command already written.       *)
LEMMA FixingWritten ==
  ASSUME IInv, Fixing
  PROVE  ~Doomed /\ \A u \in uses : Written(u)
<1>1. result = "run" /\ stack = << >>
  BY DEF Fixing
<1>2. ~Doomed /\ ~Busy
  BY <1>1 DEF Doomed, Busy
<1> QED
  BY <1>2 DEF IInv, UsesKept, Pending

LEMMA FixStep ==
  ASSUME IInv, Fix
  PROVE  IInv'
<1>1. Fixing
  BY DEF Fix
<1>2. PICK f \in fixes :
        /\ f[1] \in DOMAIN labels
        /\ code' = [code EXCEPT ![f[2]].imm = Packed(labels[f[1]])]
        /\ fixes' = fixes \ {f}
  BY DEF Fix
<1>3. /\ src' = src /\ pos' = pos /\ stack' = stack /\ cmd' = cmd /\ labels' = labels
      /\ codeOff' = codeOff /\ dataOff' = dataOff /\ cur' = cur /\ data' = data
      /\ mregs' = mregs /\ result' = result /\ uses' = uses /\ said' = said
  BY DEF Fix
<1>4. TypeOK /\ stack = << >> /\ result = "run" /\ f \in uses
  BY <1>1 DEF Fixing, IInv, Typed, FixesUsed
<1>5. ~Doomed /\ \A u \in uses : Written(u)
  BY <1>1, FixingWritten
<1>6. \A u, v \in uses : u[2] = v[2] => u = v
  BY <1>5 DEF IInv, OneUse
<1> DEFINE o == f[2]
           i == Packed(labels[f[1]])
<1>7. o \in DOMAIN code /\ o \in Nat /\ code[o] \in CommandType
  BY <1>4, <1>5 DEF Written, TypeOK
<1>8. i \in -ImmHalf .. ImmHalf - 1
  <2>1. labels[f[1]] \in Int
    BY <1>2, <1>4 DEF TypeOK
  <2> QED
    BY <2>1, PackedRange
<1>9. /\ DOMAIN code' = DOMAIN code
      /\ code'[o] = [code[o] EXCEPT !.imm = i]
      /\ \A a \in DOMAIN code : a # o => code'[a] = code[a]
  BY <1>2, <1>7
<1>10. code'[o] \in CommandType /\ code'[o].imm = i
  <2> HIDE DEF i, o
  <2> QED
    BY <1>7, <1>8, <1>9 DEF CommandType
<1>11. Typed'
  <2>1. \A a \in DOMAIN code' : a \in Nat /\ code'[a] \in CommandType
    BY <1>4, <1>9, <1>10 DEF TypeOK
  <2>2. TypeOK'
    BY <1>2, <1>3, <1>4, <2>1 DEF TypeOK
  <2> QED
    BY <1>3, <2>2 DEF IInv, Typed, Position, IsEof
<1>12. Shape' /\ Reading' /\ SignReset' /\ Ended'
  BY <1>3, <1>4 DEF Shape, Reading, SignReset, Ended
<1>13. UsesKept'
  <2> SUFFICES ASSUME NEW u \in uses
               PROVE  Written(u)'
    BY <1>3 DEF UsesKept
  <2>1. CASE u = f
    BY <1>2, <1>3, <1>7, <1>9, <1>10, <2>1 DEF Written
  <2>2. CASE u # f
    <3>1. u[2] # o /\ Written(u)
      BY <1>4, <1>5, <1>6, <2>2
    <3>2. u \notin fixes' => u \notin fixes
      BY <1>2, <2>2
    <3> QED
      BY <1>3, <1>9, <3>1, <3>2 DEF Written
  <2> QED
    BY <2>1, <2>2
<1>14. OneUse' /\ FixesUsed' /\ UsePairs' /\ CodeBelow'
  BY <1>2, <1>3, <1>6, <1>9 DEF IInv, OneUse, FixesUsed, UsePairs, CodeBelow
<1> QED
  BY <1>11, <1>12, <1>13, <1>14 DEF IInv

LEMMA FixFailsStep ==
  ASSUME IInv, FixFails
  PROVE  IInv'
<1>1. /\ result = "run" /\ result' = "error" /\ said' = TRUE
      /\ UNCHANGED <<src, pos, stack, cmd, tables, memory, uses>>
  BY DEF FixFails, Fixing
<1>2. stack' \in Seq(State) /\ Shape' /\ Reading' /\ SignReset' /\ Position(pos)'
  BY <1>1 DEF IInv, Typed, TypeOK, Shape, Reading, SignReset, Position, IsEof
<1> QED
  BY <1>1, <1>2, ErrorEnds

LEMMA AcceptStep ==
  ASSUME IInv, Accept
  PROVE  IInv'
<1>1. /\ stack = << >> /\ fixes = {} /\ result' = "ok" /\ Fixing
      /\ src' = src /\ pos' = pos /\ stack' = stack /\ cmd' = cmd /\ labels' = labels
      /\ fixes' = fixes /\ codeOff' = codeOff /\ dataOff' = dataOff /\ cur' = cur
      /\ code' = code /\ data' = data /\ mregs' = mregs /\ uses' = uses /\ said' = said
  BY DEF Accept, Fixing, tables, memory
<1>2. ~Doomed /\ \A u \in uses : Written(u)
  BY <1>1, FixingWritten
<1>3. Typed'
  BY <1>1 DEF IInv, Typed, TypeOK, CommandType, Position, IsEof
<1>4. Shape' /\ Reading' /\ SignReset' /\ Ended'
  BY <1>1 DEF Shape, Reading, SignReset, Ended
<1>5. UsesKept' /\ OneUse'
  BY <1>1, <1>2 DEF IInv, UsesKept, OneUse, Written
<1>6. FixesUsed' /\ UsePairs' /\ CodeBelow'
  BY <1>1 DEF IInv, FixesUsed, UsePairs, CodeBelow
<1> QED
  BY <1>3, <1>4, <1>5, <1>6 DEF IInv

-----------------------------------------------------------------------------
(***************************************************************************)
(* The invariant.                                                          *)
(***************************************************************************)
LEMMA InitInv ==
  ASSUME Init
  PROVE  IInv
<1>1. /\ pos = << 1, 1 >> /\ stack = << "START" >> /\ cmd = NoCmd /\ labels = << >>
      /\ fixes = {} /\ codeOff = start[1] /\ dataOff = start[2] /\ cur = "code"
      /\ code = << >> /\ data = [o \in 0 .. DSize - 1 |-> 0]
      /\ mregs = [r \in Reg |-> 0] /\ uses = {} /\ said \in BOOLEAN
      /\ result \in {"run", "error"} /\ start \in Starts
  BY DEF Init
<1>2. PICK n \in 0 .. MaxLines : src \in [1 .. n -> Lines]
  BY DEF Init
<1>3. src \in Seq(Lines)
  BY <1>2, MaxLinesAssumption
<1>4. codeOff \in Nat /\ dataOff \in Nat
  BY <1>1, StartsAssumption
<1>5. "START" \in State /\ stack \in Seq(State) /\ Len(stack) = 1 /\ Head(stack) = "START"
  BY <1>1, BadEndState
<1>6. data \in [0 .. DSize - 1 -> ByteVal]
  BY <1>1, HalfByteAssumption DEF ByteVal, Base
<1>7. mregs \in [Reg -> Int] /\ mregs[RZ] = 0
  BY <1>1, RegZero
<1>8. DOMAIN labels = {} /\ DOMAIN code = {}
  BY <1>1
<1>9. Position(pos)
  <2>1. 1 <= Len(src) => src[1].text \in Seq(Token) /\ src[1].text # << >>
    <3> SUFFICES ASSUME 1 <= Len(src)
                 PROVE  src[1] \in Lines
      BY LinesAssumption
    <3> QED
      BY <1>3
  <2> QED
    BY <1>1, <2>1 DEF Position, IsEof
<1>10. Typed
  <2>1. TypeOK
    BY <1>1, <1>4, <1>5, <1>6, <1>7, <1>8, NoCmdType DEF TypeOK, CmdType
  <2> QED
    BY <1>3, <1>9, <2>1 DEF Typed
<1>11. Shape /\ Reading /\ SignReset /\ UsesKept /\ OneUse /\ FixesUsed /\ UsePairs
       /\ CodeBelow /\ Ended
  BY <1>1, <1>5, <1>8, NoCmdType
  DEF Shape, Reading, SignReset, UsesKept, OneUse, FixesUsed, UsePairs, CodeBelow, Ended
<1> QED
  BY <1>10, <1>11 DEF IInv

LEMMA StutterInv ==
  ASSUME IInv, UNCHANGED vars
  PROVE  IInv'
<1>1. /\ src' = src /\ pos' = pos /\ stack' = stack /\ cmd' = cmd /\ labels' = labels
      /\ fixes' = fixes /\ codeOff' = codeOff /\ dataOff' = dataOff /\ cur' = cur
      /\ code' = code /\ data' = data /\ mregs' = mregs /\ result' = result
      /\ uses' = uses /\ said' = said
  BY DEF vars, tables, memory
<1>2. Typed'
  BY <1>1 DEF IInv, Typed, TypeOK, CommandType, Position, IsEof
<1>3. Shape' /\ Reading' /\ SignReset' /\ Ended'
  BY <1>1 DEF IInv, Shape, Reading, SignReset, Ended, IsEof
<1>4. UsesKept' /\ OneUse' /\ FixesUsed' /\ UsePairs' /\ CodeBelow'
  BY <1>1 DEF IInv, UsesKept, OneUse, FixesUsed, UsePairs, CodeBelow, Doomed, Pending,
              Busy, Written
<1> QED
  BY <1>2, <1>3, <1>4 DEF IInv

LEMMA NextInv ==
  ASSUME IInv, Next
  PROVE  IInv'
<1>1. CASE Start \/ StartMacro \/ Unexpected
  BY <1>1, StartStep, StartMacroStep, UnexpectedStep
<1>2. CASE Dst \/ Set \/ Operator \/ Open \/ Args
  BY <1>2, DstStep, SetStep, OperatorStep, OpenStep, ArgsStep
<1>3. CASE Src0 \/ CommaSrc0 \/ AfterCommaSrc0 \/ Src1 \/ AfterSrc1
  BY <1>3, Src0Step, CommaSrc0Step, AfterCommaSrc0Step, Src1Step, AfterSrc1Step
<1>4. CASE Sign \/ Number \/ AtUndefined \/ AtDefined
  BY <1>4, SignStep, NumberStep, AtUndefinedStep, AtDefinedStep
<1>5. CASE Close \/ Finish \/ FinishThrows \/ BadEnd
  BY <1>5, CloseStep, FinishStep, MacroThrowsStep, BadEndStep
<1>6. CASE MacroUnexpected \/ MacroNumber \/ MacroSection \/ MacroLabel \/ MacroRegister
  <2>1. In("MACRO")
    BY <1>6 DEF MacroUnexpected, MacroNumber, MacroSection, MacroLabel, MacroRegister
  <2> QED
    BY <1>6, <2>1, MacroStep
<1>7. CASE MacroThrows \/ Fix \/ FixFails \/ Accept
  BY <1>7, MacroThrowsStep, FixStep, FixFailsStep, AcceptStep
<1> QED
  BY <1>1, <1>2, <1>3, <1>4, <1>5, <1>6, <1>7 DEF Next

(* The inductive invariant holds of every state that is reached.           *)
THEOREM AlwaysIInv == Spec => []IInv
<1>1. Init => IInv
  BY InitInv
<1>2. IInv /\ [Next]_vars => IInv'
  BY NextInv, StutterInv
<1> QED
  BY <1>1, <1>2, PTL DEF Spec

(* Whatever the text says, the assembler stays within its types: every     *)
(* command in memory has a register for every register field and an        *)
(* immediate that 14 bits hold, $z stays 0, and no offset is negative.     *)
THEOREM AssemblerTyped == Spec => []TypeOK
<1>1. IInv => TypeOK
  BY DEF IInv, Typed
<1> QED
  BY <1>1, AlwaysIInv, PTL

(* In an accepted program every command that named a label carries the     *)
(* label's value: no text, with whatever forgotten errors between the use  *)
(* and the definition, makes a fix go to another command or get lost.      *)
THEOREM LabelsAlwaysResolved == Spec => []LabelsResolved
<1>1. IInv => LabelsResolved
  <2> SUFFICES ASSUME IInv, result = "ok", NEW u \in uses
               PROVE  u[1] \in DOMAIN labels /\ code[u[2]].imm = Packed(labels[u[1]])
    BY DEF LabelsResolved
  <2>1. stack = << >> /\ fixes = {}
    BY DEF IInv, Ended
  <2>2. ~Doomed /\ ~Busy
    BY <2>1 DEF Doomed, Busy
  <2>3. Written(u)
    BY <2>2 DEF IInv, UsesKept, Pending
  <2> QED
    BY <2>1, <2>3 DEF Written
<1> QED
  BY <1>1, AlwaysIInv, PTL

-----------------------------------------------------------------------------
(***************************************************************************)
(* The first pass.                                                         *)
(***************************************************************************)
CommandsBefore(p, i) == {j \in 1 .. i - 1 : p[j].kind = "cmd"}

LEMMA UpToFinite ==
  /\ \A k \in Nat : IsFiniteSet(1 .. k) /\ Cardinality(1 .. k) = k
  /\ \A i \in Nat : IsFiniteSet(1 .. i - 1)
  /\ IsFiniteSet(1 .. 8)
<1>1. ASSUME NEW k \in Nat
      PROVE  IsFiniteSet(1 .. k) /\ Cardinality(1 .. k) = k
  <2>1. 1 \in Int /\ k \in Int /\ (1 > k => k = 0) /\ (k - 1) + 1 = k
    OBVIOUS
  <2>2. IsFiniteSet(1 .. k) /\ Cardinality(1 .. k) = IF 1 > k THEN 0 ELSE k - 1 + 1
    BY <2>1, FS_Interval, Zenon
  <2> QED
    BY <2>1, <2>2
<1>2. ASSUME NEW i \in Nat
      PROVE  IsFiniteSet(1 .. i - 1)
  <2>1. 1 \in Int /\ i - 1 \in Int
    OBVIOUS
  <2> QED
    BY <2>1, FS_Interval, Zenon
<1>3. IsFiniteSet(1 .. 8)
  <2>1. 8 \in Nat
    OBVIOUS
  <2> QED
    BY <1>1, <2>1, Zenon
<1> QED
  BY <1>1, <1>2, <1>3, Zenon

LEMMA BeforeFinite ==
  ASSUME NEW p, NEW i \in Nat
  PROVE  IsFiniteSet(CommandsBefore(p, i)) /\ IsFiniteSet(Bytes(p, i))
<1>1. IsFiniteSet(1 .. i - 1) /\ IsFiniteSet(1 .. 8)
  BY UpToFinite
<1>2. IsFiniteSet((1 .. i - 1) \X (1 .. 8))
  BY <1>1, FS_Product
<1>3. CommandsBefore(p, i) \in SUBSET (1 .. i - 1)
  BY DEF CommandsBefore
<1>4. Bytes(p, i) \in SUBSET ((1 .. i - 1) \X (1 .. 8))
  BY DEF Bytes
<1>5. IsFiniteSet(CommandsBefore(p, i))
  BY <1>1, <1>3, FS_Subset
<1>6. IsFiniteSet(Bytes(p, i))
  <2> DEFINE all == (1 .. i - 1) \X (1 .. 8)
  <2>1. IsFiniteSet(all) /\ Bytes(p, i) \in SUBSET all
    BY <1>2, <1>4
  <2> HIDE DEF all
  <2> QED
    BY <2>1, FS_Subset
<1> QED
  BY <1>5, <1>6

LEMMA UpToNat ==
  ASSUME NEW p, NEW i \in Nat
  PROVE  CodeUpTo(p, i) \in Nat /\ DataUpTo(p, i) \in Nat
<1>1. Cardinality(CommandsBefore(p, i)) \in Nat /\ Cardinality(Bytes(p, i)) \in Nat
  BY BeforeFinite, FS_CardinalityType
<1> QED
  BY <1>1 DEF CodeUpTo, DataUpTo, CommandsBefore

LEMMA UpToFirst ==
  ASSUME NEW p
  PROVE  CodeUpTo(p, 1) = 0 /\ DataUpTo(p, 1) = 0 /\ ~InData(p, 1)
<1>1. 1 .. 1 - 1 = {}
  OBVIOUS
<1>2. CommandsBefore(p, 1) = {} /\ Bytes(p, 1) = {} /\ Switches(p, 1) = {}
  BY <1>1 DEF CommandsBefore, Bytes, Switches
<1>3. Cardinality({}) = 0
  BY FS_EmptySet
<1> QED
  BY <1>2, <1>3 DEF CodeUpTo, DataUpTo, CommandsBefore, InData

LEMMA CodeUpToNext ==
  ASSUME NEW p, NEW n \in Nat, n >= 1
  PROVE  CodeUpTo(p, n + 1) = CodeUpTo(p, n) + IF p[n].kind = "cmd" THEN 4 ELSE 0
<1>1. IsFiniteSet(CommandsBefore(p, n)) /\ n \notin CommandsBefore(p, n)
  <2>1. n \notin 1 .. n - 1
    OBVIOUS
  <2> QED
    BY <2>1, BeforeFinite DEF CommandsBefore
<1>2. Cardinality(CommandsBefore(p, n)) \in Nat
  BY <1>1, FS_CardinalityType
<1>0. (n + 1) - 1 = n /\ \A j : j \in 1 .. n <=> j \in 1 .. n - 1 \/ j = n
  OBVIOUS
<1>3. CommandsBefore(p, n + 1) =
        IF p[n].kind = "cmd" THEN CommandsBefore(p, n) \cup {n} ELSE CommandsBefore(p, n)
  <2>1. \A j : j \in CommandsBefore(p, n + 1) <=> j \in 1 .. n /\ p[j].kind = "cmd"
    BY <1>0 DEF CommandsBefore
  <2>2. \A j : j \in CommandsBefore(p, n) <=> j \in 1 .. n - 1 /\ p[j].kind = "cmd"
    BY DEF CommandsBefore
  <2> QED
    BY <1>0, <2>1, <2>2
<1>4. Cardinality(CommandsBefore(p, n) \cup {n}) = Cardinality(CommandsBefore(p, n)) + 1
  BY <1>1, FS_AddElement
<1>5. Cardinality(CommandsBefore(p, n + 1)) =
        Cardinality(CommandsBefore(p, n)) + IF p[n].kind = "cmd" THEN 1 ELSE 0
  BY <1>2, <1>3, <1>4
<1>6. /\ CodeUpTo(p, n) = 4 * Cardinality(CommandsBefore(p, n))
      /\ CodeUpTo(p, n + 1) = 4 * Cardinality(CommandsBefore(p, n + 1))
  BY DEF CodeUpTo, CommandsBefore
<1> QED
  BY <1>2, <1>5, <1>6

LEMMA CodeUpToGrows ==
  ASSUME NEW p, NEW j \in Nat, NEW k \in Nat, 1 <= j, j < k
  PROVE  CodeUpTo(p, j) + (IF p[j].kind = "cmd" THEN 4 ELSE 0) <= CodeUpTo(p, k)
<1>1. CommandsBefore(p, j + 1) \in SUBSET CommandsBefore(p, k)
  BY DEF CommandsBefore
<1>2. IsFiniteSet(CommandsBefore(p, k)) /\ j + 1 \in Nat
  BY BeforeFinite
<1>3. Cardinality(CommandsBefore(p, j + 1)) <= Cardinality(CommandsBefore(p, k))
  BY <1>1, <1>2, FS_Subset
<1>4. Cardinality(CommandsBefore(p, k)) \in Nat /\ Cardinality(CommandsBefore(p, j + 1)) \in Nat
  BY <1>2, BeforeFinite, FS_CardinalityType
<1>5. CodeUpTo(p, j + 1) <= CodeUpTo(p, k)
  BY <1>3, <1>4 DEF CodeUpTo, CommandsBefore
<1> QED
  BY <1>5, CodeUpToNext

LEMMA DataUpToNext ==
  ASSUME NEW p, NEW n \in Nat, n >= 1, p[n].kind = "cell" => p[n].width \in {1, 2, 4, 8}
  PROVE  DataUpTo(p, n + 1) = DataUpTo(p, n) + IF p[n].kind = "cell" THEN p[n].width ELSE 0
<1> DEFINE old == Bytes(p, n)
<1>1. IsFiniteSet(old) /\ Cardinality(old) \in Nat
  BY BeforeFinite, FS_CardinalityType
<1>2. CASE p[n].kind # "cell"
  <2>1. \A b \in (1 .. (n + 1) - 1) \X (1 .. 8) :
          p[b[1]].kind = "cell" => b \in (1 .. n - 1) \X (1 .. 8)
    <3> SUFFICES ASSUME NEW b \in (1 .. (n + 1) - 1) \X (1 .. 8), p[b[1]].kind = "cell"
                 PROVE  b \in (1 .. n - 1) \X (1 .. 8)
      OBVIOUS
    <3>1. b[1] # n /\ b[1] \in 1 .. n /\ b[2] \in 1 .. 8 /\ b = << b[1], b[2] >>
      BY <1>2
    <3>2. b[1] \in 1 .. n - 1
      BY <3>1
    <3> QED
      BY <3>1, <3>2
  <2>2. (1 .. n - 1) \X (1 .. 8) \subseteq (1 .. (n + 1) - 1) \X (1 .. 8)
    OBVIOUS
  <2>3. Bytes(p, n + 1) = Bytes(p, n)
    BY <2>1, <2>2 DEF Bytes
  <2> QED
    BY <1>1, <1>2, <2>3 DEF DataUpTo
<1>3. CASE p[n].kind = "cell"
  <2> DEFINE w == p[n].width
             new == {n} \X (1 .. w)
  <2>1. w \in 1 .. 8 /\ w \in Nat
    BY <1>3
  <2>2. IsFiniteSet({n}) /\ Cardinality({n}) = 1
    BY FS_Singleton
  <2>3. IsFiniteSet(1 .. w) /\ Cardinality(1 .. w) = w
    <3> HIDE DEF w
    <3> QED
      BY <2>1, UpToFinite
  <2>4. IsFiniteSet(new) /\ Cardinality(new) = w
    <3> DEFINE S == {n}
               T == 1 .. w
    <3>1. IsFiniteSet(S) /\ Cardinality(S) = 1 /\ IsFiniteSet(T) /\ Cardinality(T) = w
      BY <2>2, <2>3
    <3> HIDE DEF S, T
    <3>2. IsFiniteSet(S \X T) /\ Cardinality(S \X T) = Cardinality(S) * Cardinality(T)
      BY <3>1, FS_Product
    <3>3. Cardinality(S \X T) = w
      <4> HIDE DEF w
      <4> QED
        BY <2>1, <3>1, <3>2
    <3> QED
      BY <3>2, <3>3 DEF S, T
  <2>5. old \cap new = {}
    BY DEF Bytes
  <2>6. Bytes(p, n + 1) = old \cup new
    <3>1. ASSUME NEW b \in Bytes(p, n + 1)
          PROVE  b \in old \cup new
      <4>1. /\ b[1] \in 1 .. n /\ b[2] \in 1 .. 8 /\ b = << b[1], b[2] >>
            /\ p[b[1]].kind = "cell" /\ b[2] <= p[b[1]].width
        BY <3>1 DEF Bytes
      <4>2. CASE b[1] = n
        <5>1. b[2] \in 1 .. w
          BY <2>1, <4>1, <4>2
        <5> QED
          BY <4>1, <4>2, <5>1
      <4>3. CASE b[1] # n
        <5>1. b[1] \in 1 .. n - 1
          BY <4>1, <4>3
        <5> QED
          BY <4>1, <5>1 DEF Bytes
      <4> QED
        BY <4>2, <4>3
    <3>2. ASSUME NEW b \in old
          PROVE  b \in Bytes(p, n + 1)
      <4>1. 1 .. n - 1 \subseteq 1 .. (n + 1) - 1
        OBVIOUS
      <4> QED
        BY <3>2, <4>1 DEF Bytes
    <3>3. ASSUME NEW b \in new
          PROVE  b \in Bytes(p, n + 1)
      <4>1. b[1] = n /\ b[2] \in 1 .. w /\ b = << b[1], b[2] >>
        OBVIOUS
      <4>2. b[1] \in 1 .. (n + 1) - 1 /\ b[2] \in 1 .. 8 /\ b[2] <= w
        BY <2>1, <4>1
      <4> QED
        BY <1>3, <4>1, <4>2 DEF Bytes
    <3> QED
      BY <3>1, <3>2, <3>3
  <2>7. Cardinality(old \cup new) = Cardinality(old) + w - Cardinality(old \cap new)
    <3> HIDE DEF old, new, w
    <3> QED
      BY <1>1, <2>4, FS_Union
  <2>8. Cardinality(old \cap new) = 0
    BY <2>5, FS_EmptySet
  <2>9. Cardinality(Bytes(p, n + 1)) = Cardinality(Bytes(p, n)) + w
    <3>1. Cardinality(Bytes(p, n + 1)) = Cardinality(old \cup new)
      BY <2>6, Zenon
    <3> HIDE DEF new, w, old
    <3>2. Cardinality(old \cup new) = Cardinality(old) + w
      BY <1>1, <2>1, <2>7, <2>8
    <3> QED
      BY <3>1, <3>2, Zenon DEF old
  <2> QED
    BY <1>3, <2>9 DEF DataUpTo
<1> QED
  BY <1>2, <1>3

LEMMA DataUpToGrows ==
  ASSUME NEW p, NEW j \in Nat, NEW k \in Nat, 1 <= j, j < k,
         p[j].kind = "cell" => p[j].width \in {1, 2, 4, 8}
  PROVE  DataUpTo(p, j) + (IF p[j].kind = "cell" THEN p[j].width ELSE 0) <= DataUpTo(p, k)
<1>0. (1 .. (j + 1) - 1) \X (1 .. 8) \subseteq (1 .. k - 1) \X (1 .. 8)
  OBVIOUS
<1>1. Bytes(p, j + 1) \in SUBSET Bytes(p, k)
  BY <1>0 DEF Bytes
<1>2. IsFiniteSet(Bytes(p, k)) /\ j + 1 \in Nat
  BY BeforeFinite
<1>3. Cardinality(Bytes(p, j + 1)) <= Cardinality(Bytes(p, k))
  BY <1>1, <1>2, FS_Subset
<1> QED
  BY <1>3, DataUpToNext DEF DataUpTo

LEMMA MaxIs ==
  ASSUME NEW S \in SUBSET Int, NEW x \in S, \A y \in S : y <= x
  PROVE  Max(S) = x
<1>1. \A z \in S : (\A y \in S : z >= y) <=> z = x
  OBVIOUS
<1> QED
  BY <1>1 DEF Max

LEMMA InDataNext ==
  ASSUME NEW p, NEW n \in Nat, n >= 1
  PROVE  InData(p, n + 1) <=>
           p[n].kind = "data" \/ (p[n].kind # "code" /\ InData(p, n))
<1>1. CASE p[n].kind \in {"code", "data"}
  <2>1. Switches(p, n + 1) \in SUBSET Int /\ n \in Switches(p, n + 1)
        /\ \A y \in Switches(p, n + 1) : y <= n
    BY <1>1 DEF Switches
  <2>2. Max(Switches(p, n + 1)) = n
    BY <2>1, MaxIs
  <2> QED
    BY <1>1, <2>1, <2>2 DEF InData
<1>2. CASE p[n].kind \notin {"code", "data"}
  <2>1. Switches(p, n + 1) = Switches(p, n)
    BY <1>2 DEF Switches
  <2> QED
    BY <1>2, <2>1 DEF InData
<1> QED
  BY <1>1, <1>2

-----------------------------------------------------------------------------
(***************************************************************************)
(* The two passes.  Before line n all is as they leave it, but for the     *)
(* labels that are not defined yet; or they do not accept the text, and    *)
(* the assembler has seen it or will before it goes on behind the line.    *)
(***************************************************************************)
P  == Meaning
C0 == start[1]
D0 == start[2]

IsKind(k, kind) == P[k].kind = kind
CodeAt(k) == C0 + CodeUpTo(P, k)
DataAt(k) == D0 + DataUpTo(P, k)

Clean == src # << >> /\ \A k \in DOMAIN src : P[k].kind # "other"

Wrong == ~(Legal(P, C0, D0) /\ Room(P, C0, D0))

CommandOf(m, v) == [opc |-> m.opc, dst |-> m.dst, s0 |-> m.s0, s1 |-> m.s1, imm |-> v]

(* What a command without a label carries, and one with it.                *)
Exact(k, v) == P[k].imm \in ImmMin .. ImmMax /\ v = Packed(P[k].imm)
Named(k, v) ==
  \/ << P[k].label, CodeAt(k) >> \in fixes
  \/ /\ P[k].label \in DOMAIN labels
     /\ labels[P[k].label] <= ImmMax
     /\ v = Packed(labels[P[k].label])

Laid(k) ==
  /\ CodeAt(k) \in DOMAIN code
  /\ code[CodeAt(k)] = CommandOf(P[k], code[CodeAt(k)].imm)
  /\ IF P[k].label = NoLabel THEN Exact(k, code[CodeAt(k)].imm)
     ELSE Named(k, code[CodeAt(k)].imm)
  /\ CodeAt(k) + 4 < CSize

OffsetsOf(n) ==
  /\ codeOff = CodeAt(n)
  /\ dataOff = DataAt(n)
  /\ cur = IF InData(P, n) THEN "data" ELSE "code"

LabelsOf(n) ==
  /\ \A l \in DOMAIN labels : \E k \in 1 .. n - 1 : IsKind(k, "label") /\ P[k].label = l
  /\ \A k \in 1 .. n - 1 : IsKind(k, "label") =>
       /\ P[k].label \in DOMAIN labels
       /\ labels[P[k].label] = Place1(P, k, C0, D0)
       /\ \A j \in 1 .. n - 1 : IsKind(j, "label") /\ P[j].label = P[k].label => j = k

CodeOfLines(n) ==
  /\ \A o \in DOMAIN code : \E k \in 1 .. n - 1 : IsKind(k, "cmd") /\ o = CodeAt(k)
  /\ \A k \in 1 .. n - 1 : IsKind(k, "cmd") => Laid(k)

FixesOfLines ==
  \A f \in fixes : \E k \in DOMAIN src :
    IsKind(k, "cmd") /\ P[k].label # NoLabel /\ f = << P[k].label, CodeAt(k) >>

DataOfLines(n) ==
  /\ \A k \in 1 .. n - 1 : IsKind(k, "cell") =>
       /\ GetCell(data, DataAt(k), P[k].width) = P[k].imm
       /\ DataAt(k) + P[k].width < DSize
  /\ \A o \in DOMAIN data : o \notin D0 .. DataAt(n) - 1 => data[o] = 0

SetsOf(r, n) == {k \in 1 .. n - 1 : IsKind(k, "set") /\ P[k].dst = r}
SetTo(k)     == IF P[k].label = NoLabel THEN P[k].imm ELSE labels[P[k].label]

(* The last line before n that sets r is k.                                *)
LastSet(r, n, k) == k \in SetsOf(r, n) /\ \A j \in SetsOf(r, n) : j <= k

RegsOfLines(n) ==
  /\ \A k \in 1 .. n - 1 : IsKind(k, "set") /\ P[k].label # NoLabel =>
       \E j \in 1 .. k - 1 : IsKind(j, "label") /\ P[j].label = P[k].label
  /\ \A r \in Reg :
       IF r = RZ \/ SetsOf(r, n) = {} THEN mregs[r] = 0
       ELSE \E k \in 1 .. n - 1 : LastSet(r, n, k) /\ mregs[r] = SetTo(k)

Before(n) ==
  /\ OffsetsOf(n) /\ LabelsOf(n) /\ CodeOfLines(n) /\ FixesOfLines
  /\ DataOfLines(n) /\ RegsOfLines(n)

(* The command as far as it is read.                                       *)
Got(c, opc, dst, s0, s1) ==
  c = [opc |-> opc, dst |-> dst, s0 |-> s0, s1 |-> s1, imm |-> 0, sign |-> 1]

Operands(c, m) == c.opc = m.opc /\ c.dst = m.dst /\ c.s0 = m.s0 /\ c.s1 = m.s1

(* What is behind token j of line t, in each state, if the line means m.   *)
Midway(s, t, j, m, c) ==
  /\ m.kind = "cmd"
  /\ CASE s = "DST" ->
            /\ Has(t, j, {"reg"}) /\ t[j].reg = m.dst /\ Has(t, j + 1, {"set"})
            /\ SaysOperator(t, j + 2, m) /\ c = NoCmd
       [] s = "SET" ->
            Has(t, j, {"set"}) /\ SaysOperator(t, j + 1, m) /\ Got(c, "hlt", m.dst, RZ, RZ)
       [] s = "OPERATOR" -> SaysOperator(t, j, m) /\ Got(c, "hlt", m.dst, RZ, RZ)
       [] s = "OPEN" ->
            Has(t, j, {"open"}) /\ SaysFirst(t, j + 1, m) /\ Got(c, m.opc, m.dst, RZ, RZ)
       [] s = "ARGS" -> SaysFirst(t, j, m) /\ Got(c, m.opc, m.dst, RZ, RZ)
       [] s = "SRC0" ->
            /\ Has(t, j, {"reg"}) /\ t[j].reg = m.s0
            /\ SaysComma(t, j + 1, m) /\ Got(c, m.opc, m.dst, RZ, RZ)
       [] s = "COMMA_SRC0" -> SaysComma(t, j, m) /\ Got(c, m.opc, m.dst, m.s0, RZ)
       [] s = "AFTER_COMMA_SRC0" -> SaysSecond(t, j, m) /\ Got(c, m.opc, m.dst, m.s0, RZ)
       [] s = "SRC1" ->
            /\ Has(t, j, {"reg"}) /\ t[j].reg = m.s1
            /\ SaysOperand(t, j + 1, m) /\ Got(c, m.opc, m.dst, m.s0, RZ)
       [] s = "AFTER_SRC1" -> SaysOperand(t, j, m) /\ Got(c, m.opc, m.dst, m.s0, m.s1)
       [] s = "SIGN" ->
            /\ m.label = NoLabel /\ Got(c, m.opc, m.dst, m.s0, m.s1)
            /\ \/ Has(t, j, {"plus"}) /\ SaysNumber(t, j + 1, m.imm)
               \/ Has(t, j, {"minus"}) /\ SaysNumber(t, j + 1, -m.imm)
       [] s = "NUMBER" ->
            /\ m.label = NoLabel /\ Operands(c, m)
            /\ SaysNumber(t, j, IF c.sign = 1 THEN m.imm ELSE -m.imm)
       [] s = "AT" ->
            /\ m.label # NoLabel /\ Got(c, m.opc, m.dst, m.s0, m.s1)
            /\ Has(t, j, {"word"}) /\ t[j].opr = m.label /\ Closes(t, j + 1)
       [] s = "CLOSE" -> Closes(t, j) /\ Operands(c, m)
       [] OTHER -> FALSE

-----------------------------------------------------------------------------
(***************************************************************************)
(* A line that is written as it is meant, token by token.                  *)
(***************************************************************************)
LEMMA ClosesLast ==
  ASSUME NEW t, NEW j, Closes(t, j)
  PROVE  Len(t) = j /\ j \in DOMAIN t /\ t[j].type = "close"
BY DEF Closes, Has

LEMMA OperandStarts ==
  ASSUME NEW t, NEW j, NEW m, SaysOperand(t, j, m)
  PROVE  /\ j \in DOMAIN t
         /\ t[j].type \in Numbers \cup {"minus", "plus", "at", "close"}
         /\ t[j].type = "close" => Closes(t, j) /\ m.imm = 0 /\ m.label = NoLabel
         /\ t[j].type = "at" => m.label # NoLabel /\ Has(t, j + 1, {"word"})
                                /\ t[j + 1].opr = m.label /\ Closes(t, j + 2)
         /\ t[j].type \in Numbers => m.label = NoLabel /\ SaysNumber(t, j, m.imm)
         /\ t[j].type = "plus" => m.label = NoLabel /\ SaysNumber(t, j + 1, m.imm)
         /\ t[j].type = "minus" => m.label = NoLabel /\ SaysNumber(t, j + 1, -m.imm)
BY ClosesLast DEF SaysOperand, SaysNumber, Has, Numbers

LEMMA SecondStarts ==
  ASSUME NEW t, NEW j, NEW m, SaysSecond(t, j, m)
  PROVE  /\ j \in DOMAIN t
         /\ t[j].type \in Numbers \cup {"reg", "minus", "plus", "at", "close"}
         /\ t[j].type = "reg" => t[j].reg = m.s1 /\ SaysOperand(t, j + 1, m)
         /\ t[j].type # "reg" => m.s1 = RZ /\ SaysOperand(t, j, m)
BY OperandStarts DEF SaysSecond, Has, Numbers

LEMMA CommaStarts ==
  ASSUME NEW t, NEW j, NEW m, SaysComma(t, j, m)
  PROVE  /\ j \in DOMAIN t
         /\ t[j].type \in {"comma", "close"}
         /\ t[j].type = "comma" => SaysSecond(t, j + 1, m)
         /\ t[j].type = "close" =>
              m.s1 = RZ /\ m.imm = 0 /\ m.label = NoLabel /\ Closes(t, j)
BY ClosesLast DEF SaysComma, Has

LEMMA FirstStarts ==
  ASSUME NEW t, NEW j, NEW m, SaysFirst(t, j, m)
  PROVE  /\ j \in DOMAIN t
         /\ t[j].type \in {"reg", "comma", "close"}
         /\ t[j].type = "reg" => t[j].reg = m.s0 /\ SaysComma(t, j + 1, m)
         /\ t[j].type # "reg" => m.s0 = RZ /\ SaysComma(t, j, m)
BY CommaStarts DEF SaysFirst, Has

LEMMA NumberStarts ==
  ASSUME NEW t, NEW j, NEW v, SaysNumber(t, j, v)
  PROVE  j \in DOMAIN t /\ t[j].type \in Numbers /\ t[j].num = v /\ Closes(t, j + 1)
BY DEF SaysNumber, Has

(* In every state of command() the token in front is one the state names.  *)
LEMMA MidwayExpected ==
  ASSUME NEW s, NEW t, NEW j, NEW m, NEW c, Midway(s, t, j, m, c)
  PROVE  /\ j \in DOMAIN t
         /\ s \notin {"NUMBER", "FINISH", "BAD_END", "MACRO"} =>
              t[j].type \in Expected(s)
         /\ s \notin {"START", "FINISH", "BAD_END", "MACRO"}
<1>1. s \notin {"START", "FINISH", "BAD_END", "MACRO"}
  BY DEF Midway
<1>2. CASE s \in {"DST", "SET", "OPERATOR", "OPEN", "SRC0", "SRC1"}
  BY <1>2 DEF Midway, Has, Expected, SaysOperator
<1>3. CASE s = "ARGS"
  BY <1>3, FirstStarts DEF Midway, Expected
<1>4. CASE s = "COMMA_SRC0"
  BY <1>4, CommaStarts DEF Midway, Expected
<1>5. CASE s = "AFTER_COMMA_SRC0"
  BY <1>5, SecondStarts DEF Midway, Expected
<1>6. CASE s = "AFTER_SRC1"
  BY <1>6, OperandStarts DEF Midway, Expected
<1>7. CASE s \in {"SIGN", "AT"}
  BY <1>7 DEF Midway, Has, Expected
<1>8. CASE s = "NUMBER"
  BY <1>8, NumberStarts DEF Midway
<1>9. CASE s = "CLOSE"
  BY <1>9, ClosesLast DEF Midway, Expected
<1>10. s \in {"DST", "SET", "OPERATOR", "OPEN", "ARGS", "SRC0", "COMMA_SRC0",
              "AFTER_COMMA_SRC0", "SRC1", "AFTER_SRC1", "SIGN", "NUMBER", "AT", "CLOSE"}
  BY DEF Midway
<1> QED
  BY <1>1, <1>2, <1>3, <1>4, <1>5, <1>6, <1>7, <1>8, <1>9, <1>10

-----------------------------------------------------------------------------
(***************************************************************************)
(* What each case of command() makes of it.                                *)
(***************************************************************************)
LEMMA CommandStarts ==
  ASSUME NEW t, NEW m, m.kind = "cmd", SaysCommand(t, m)
  PROVE  /\ 1 \in DOMAIN t /\ t[1].type \in {"reg", "word"}
         /\ t[1].type = "reg" => Midway("DST", t, 1, m, NoCmd)
         /\ t[1].type = "word" =>
              Midway("OPERATOR", t, 1, m, [NoCmd EXCEPT !.dst = RZ])
<1>1. CASE /\ Has(t, 1, {"reg"}) /\ t[1].reg = m.dst /\ Has(t, 2, {"set"})
           /\ SaysOperator(t, 3, m)
  <2>1. 1 \in DOMAIN t /\ t[1].type = "reg"
    BY <1>1 DEF Has
  <2> QED
    BY <1>1, <2>1 DEF Midway
<1>2. CASE m.dst = RZ /\ SaysOperator(t, 1, m)
  <2>1. 1 \in DOMAIN t /\ t[1].type = "word"
    BY <1>2 DEF Has, SaysOperator
  <2> QED
    BY <1>2, <2>1 DEF Midway, Got, NoCmd
<1> QED
  BY <1>1, <1>2 DEF SaysCommand

LEMMA ParseDst ==
  ASSUME NEW t, NEW j \in Nat, NEW m, NEW c, Midway("DST", t, j, m, c)
  PROVE  Midway("SET", t, j + 1, m, [c EXCEPT !.dst = t[j].reg])
<1>1. (j + 1) + 1 = j + 2
  OBVIOUS
<1> QED
  BY <1>1 DEF Midway, Got, NoCmd

LEMMA ParseSet ==
  ASSUME NEW t, NEW j, NEW m, NEW c, Midway("SET", t, j, m, c)
  PROVE  Midway("OPERATOR", t, j + 1, m, c)
BY DEF Midway

LEMMA ParseOperator ==
  ASSUME NEW t, NEW j \in Nat, NEW m, NEW c, Midway("OPERATOR", t, j, m, c)
  PROVE  t[j].opr \in Opcodes /\ Midway("OPEN", t, j + 1, m, [c EXCEPT !.opc = t[j].opr])
<1>1. (j + 1) + 1 = j + 2
  OBVIOUS
<1> QED
  BY <1>1 DEF Midway, Got, SaysOperator

LEMMA ParseOpen ==
  ASSUME NEW t, NEW j, NEW m, NEW c, Midway("OPEN", t, j, m, c)
  PROVE  Midway("ARGS", t, j + 1, m, c)
BY DEF Midway

LEMMA ParseArgs ==
  ASSUME NEW t, NEW j, NEW m, NEW c, Midway("ARGS", t, j, m, c)
  PROVE  /\ t[j].type = "reg" => Midway("SRC0", t, j, m, c)
         /\ t[j].type = "comma" => Midway("COMMA_SRC0", t, j, m, [c EXCEPT !.s0 = RZ])
         /\ t[j].type = "close" =>
              /\ Midway("CLOSE", t, j, m, [c EXCEPT !.s0 = RZ, !.s1 = RZ, !.imm = 0])
              /\ m.imm = 0 /\ m.label = NoLabel
<1>1. m.kind = "cmd" /\ SaysFirst(t, j, m) /\ Got(c, m.opc, m.dst, RZ, RZ)
  BY DEF Midway
<1>2. ASSUME t[j].type = "reg"
      PROVE  Midway("SRC0", t, j, m, c)
  BY <1>1, <1>2, FirstStarts DEF Midway, Has
<1>3. ASSUME t[j].type = "comma"
      PROVE  Midway("COMMA_SRC0", t, j, m, [c EXCEPT !.s0 = RZ])
  BY <1>1, <1>3, FirstStarts DEF Midway, Got
<1>4. ASSUME t[j].type = "close"
      PROVE  /\ Midway("CLOSE", t, j, m, [c EXCEPT !.s0 = RZ, !.s1 = RZ, !.imm = 0])
             /\ m.imm = 0 /\ m.label = NoLabel
  <2>1. m.s0 = RZ /\ SaysComma(t, j, m)
    BY <1>1, <1>4, FirstStarts
  <2>2. m.s1 = RZ /\ m.imm = 0 /\ m.label = NoLabel /\ Closes(t, j)
    BY <1>4, <2>1, CommaStarts
  <2> QED
    BY <1>1, <2>1, <2>2 DEF Midway, Got, Operands
<1> QED
  BY <1>2, <1>3, <1>4

LEMMA ParseSrc0 ==
  ASSUME NEW t, NEW j, NEW m, NEW c, Midway("SRC0", t, j, m, c)
  PROVE  Midway("COMMA_SRC0", t, j + 1, m, [c EXCEPT !.s0 = t[j].reg])
BY DEF Midway, Got

LEMMA ParseCommaSrc0 ==
  ASSUME NEW t, NEW j, NEW m, NEW c, Midway("COMMA_SRC0", t, j, m, c)
  PROVE  /\ t[j].type = "comma" => Midway("AFTER_COMMA_SRC0", t, j + 1, m, c)
         /\ t[j].type = "close" =>
              /\ Midway("CLOSE", t, j, m, [c EXCEPT !.s1 = RZ, !.imm = 0])
              /\ m.imm = 0 /\ m.label = NoLabel
<1>1. m.kind = "cmd" /\ SaysComma(t, j, m) /\ Got(c, m.opc, m.dst, m.s0, RZ)
  BY DEF Midway
<1>2. ASSUME t[j].type = "comma"
      PROVE  Midway("AFTER_COMMA_SRC0", t, j + 1, m, c)
  BY <1>1, <1>2, CommaStarts DEF Midway
<1>3. ASSUME t[j].type = "close"
      PROVE  /\ Midway("CLOSE", t, j, m, [c EXCEPT !.s1 = RZ, !.imm = 0])
             /\ m.imm = 0 /\ m.label = NoLabel
  <2>1. m.s1 = RZ /\ m.imm = 0 /\ m.label = NoLabel /\ Closes(t, j)
    BY <1>1, <1>3, CommaStarts
  <2> QED
    BY <1>1, <2>1 DEF Midway, Got, Operands
<1> QED
  BY <1>2, <1>3

(* An operand behind the registers, as Tail2 takes it.                     *)
LEMMA ParseOperand ==
  ASSUME NEW t, NEW j \in Nat, NEW m, NEW c, m.kind = "cmd", SaysOperand(t, j, m),
         Got(c, m.opc, m.dst, m.s0, m.s1)
  PROVE  /\ t[j].type \in {"minus", "plus"} => Midway("SIGN", t, j, m, c)
         /\ t[j].type \in Numbers => Midway("NUMBER", t, j, m, c)
         /\ t[j].type = "at" => Midway("AT", t, j + 1, m, c)
         /\ t[j].type = "close" =>
              /\ Midway("CLOSE", t, j, m, [c EXCEPT !.imm = 0])
              /\ m.imm = 0 /\ m.label = NoLabel
<1>1. j \in DOMAIN t /\ (j + 1) + 1 = j + 2
  BY OperandStarts
<1>2. ASSUME t[j].type \in {"minus", "plus"}
      PROVE  Midway("SIGN", t, j, m, c)
  BY <1>1, <1>2, OperandStarts DEF Midway, Has
<1>3. ASSUME t[j].type \in Numbers
      PROVE  Midway("NUMBER", t, j, m, c)
  <2>1. m.label = NoLabel /\ SaysNumber(t, j, m.imm)
    BY <1>3, OperandStarts
  <2> QED
    BY <2>1 DEF Midway, Got, Operands
<1>4. ASSUME t[j].type = "at"
      PROVE  Midway("AT", t, j + 1, m, c)
  BY <1>1, <1>4, OperandStarts DEF Midway, Has
<1>5. ASSUME t[j].type = "close"
      PROVE  /\ Midway("CLOSE", t, j, m, [c EXCEPT !.imm = 0])
             /\ m.imm = 0 /\ m.label = NoLabel
  <2>1. m.imm = 0 /\ m.label = NoLabel /\ Closes(t, j)
    BY <1>5, OperandStarts
  <2> QED
    BY <2>1 DEF Midway, Got, Operands
<1> QED
  BY <1>2, <1>3, <1>4, <1>5

LEMMA ParseAfterCommaSrc0 ==
  ASSUME NEW t, NEW j \in Nat, NEW m, NEW c, Midway("AFTER_COMMA_SRC0", t, j, m, c)
  PROVE  /\ t[j].type = "reg" => Midway("SRC1", t, j, m, c)
         /\ t[j].type # "reg" =>
              SaysOperand(t, j, m) /\ Got(c, m.opc, m.dst, m.s0, m.s1)
         /\ t[j].type = "close" =>
              /\ Midway("CLOSE", t, j, m, [c EXCEPT !.s1 = RZ, !.imm = 0])
              /\ m.imm = 0 /\ m.label = NoLabel
<1>1. m.kind = "cmd" /\ SaysSecond(t, j, m) /\ Got(c, m.opc, m.dst, m.s0, RZ)
  BY DEF Midway
<1>2. ASSUME t[j].type = "reg"
      PROVE  Midway("SRC1", t, j, m, c)
  BY <1>1, <1>2, SecondStarts DEF Midway, Has
<1>3. ASSUME t[j].type # "reg"
      PROVE  m.s1 = RZ /\ SaysOperand(t, j, m) /\ Got(c, m.opc, m.dst, m.s0, m.s1)
  BY <1>1, <1>3, SecondStarts
<1>4. ASSUME t[j].type = "close"
      PROVE  /\ Midway("CLOSE", t, j, m, [c EXCEPT !.s1 = RZ, !.imm = 0])
             /\ m.imm = 0 /\ m.label = NoLabel
  <2>1. m.s1 = RZ /\ SaysOperand(t, j, m)
    BY <1>3, <1>4
  <2>2. m.imm = 0 /\ m.label = NoLabel /\ Closes(t, j)
    BY <1>4, <2>1, OperandStarts
  <2> QED
    BY <1>1, <2>1, <2>2 DEF Midway, Got, Operands
<1> QED
  BY <1>2, <1>3, <1>4

LEMMA ParseSrc1 ==
  ASSUME NEW t, NEW j, NEW m, NEW c, Midway("SRC1", t, j, m, c)
  PROVE  Midway("AFTER_SRC1", t, j + 1, m, [c EXCEPT !.s1 = t[j].reg])
BY DEF Midway, Got

LEMMA ParseAfterSrc1 ==
  ASSUME NEW t, NEW j, NEW m, NEW c, Midway("AFTER_SRC1", t, j, m, c)
  PROVE  m.kind = "cmd" /\ SaysOperand(t, j, m) /\ Got(c, m.opc, m.dst, m.s0, m.s1)
BY DEF Midway

LEMMA ParseSign ==
  ASSUME NEW t, NEW j, NEW m, NEW c, Midway("SIGN", t, j, m, c)
  PROVE  /\ t[j].type = "minus" => Midway("NUMBER", t, j + 1, m, [c EXCEPT !.sign = -1])
         /\ t[j].type = "plus" => Midway("NUMBER", t, j + 1, m, [c EXCEPT !.sign = 1])
<1>1. /\ m.kind = "cmd" /\ m.label = NoLabel /\ Got(c, m.opc, m.dst, m.s0, m.s1)
      /\ t[j].type = "plus" => SaysNumber(t, j + 1, m.imm)
      /\ t[j].type = "minus" => SaysNumber(t, j + 1, -m.imm)
  BY DEF Midway, Has
<1>2. ASSUME t[j].type = "minus"
      PROVE  Midway("NUMBER", t, j + 1, m, [c EXCEPT !.sign = -1])
  BY <1>1, <1>2 DEF Midway, Got, Operands
<1>3. ASSUME t[j].type = "plus"
      PROVE  Midway("NUMBER", t, j + 1, m, [c EXCEPT !.sign = 1])
  BY <1>1, <1>3 DEF Midway, Got, Operands
<1> QED
  BY <1>2, <1>3

LEMMA ParseNumber ==
  ASSUME NEW t, NEW j, NEW m, NEW c, Midway("NUMBER", t, j, m, c), m.imm \in Int,
         c \in CmdType
  PROVE  /\ t[j].type \in Numbers /\ m.label = NoLabel
         /\ t[j].num \in Int /\ t[j].num * c.sign = m.imm
         /\ t[j].num \in ImmMin .. ImmMax <=> m.imm \in ImmMin .. ImmMax
         /\ Midway("CLOSE", t, j + 1, m, [c EXCEPT !.imm = t[j].num])
<1>1. /\ m.kind = "cmd" /\ m.label = NoLabel /\ Operands(c, m)
      /\ SaysNumber(t, j, IF c.sign = 1 THEN m.imm ELSE -m.imm)
  BY DEF Midway
<1>2. t[j].type \in Numbers /\ t[j].num = (IF c.sign = 1 THEN m.imm ELSE -m.imm)
      /\ Closes(t, j + 1)
  BY <1>1, NumberStarts
<1>3. c.sign \in {1, -1}
  BY DEF CmdType
<1>4. t[j].num \in Int /\ t[j].num * c.sign = m.imm
  BY <1>2, <1>3
<1>5. t[j].num \in ImmMin .. ImmMax <=> m.imm \in ImmMin .. ImmMax
  BY <1>2, <1>3, ImmAssumption DEF ImmMin, ImmMax
<1>6. Midway("CLOSE", t, j + 1, m, [c EXCEPT !.imm = t[j].num])
  BY <1>1, <1>2 DEF Midway, Operands, CmdType
<1> QED
  BY <1>1, <1>2, <1>4, <1>5, <1>6

LEMMA ParseAt ==
  ASSUME NEW t, NEW j, NEW m, NEW c, Midway("AT", t, j, m, c), NEW v
  PROVE  /\ t[j].opr = m.label /\ m.label # NoLabel
         /\ Midway("CLOSE", t, j + 1, m, [c EXCEPT !.imm = v])
BY DEF Midway, Got, Operands

-----------------------------------------------------------------------------
(***************************************************************************)
(* The invariant.                                                          *)
(***************************************************************************)
(* The operand of the command of line k is known.                          *)
OperandOf(k) ==
  IF P[k].label = NoLabel
  THEN cmd.imm * cmd.sign = P[k].imm /\ P[k].imm \in ImmMin .. ImmMax
  ELSE \/ << P[k].label, CodeAt(k) >> \in fixes
       \/ /\ P[k].label \in DOMAIN labels
          /\ labels[P[k].label] <= ImmMax
          /\ cmd.imm = labels[P[k].label] /\ cmd.sign = 1

AtLine(n) ==
  /\ Head(stack) = "START" /\ pos = << n, 1 >> /\ n \in 1 .. Len(src) + 1
  /\ cmd = NoCmd /\ Before(n)

InCommand(n) ==
  /\ pos[1] = n /\ n \in 1 .. Len(src)
  /\ Midway(Head(stack), src[n].text, pos[2], P[n], cmd)
  /\ Head(stack) = "CLOSE" => OperandOf(n)
  /\ Before(n)

AfterCommand(n) ==
  /\ Head(stack) = "FINISH" /\ pos = << n + 1, 1 >> /\ n \in 1 .. Len(src)
  /\ IsKind(n, "cmd") /\ Operands(cmd, P[n]) /\ OperandOf(n) /\ Before(n)

InMacro(n) ==
  /\ Head(stack) = "MACRO" /\ pos = << n, 2 >> /\ n \in 1 .. Len(src)
  /\ SaysMacro(src[n].text, P[n]) /\ cmd = NoCmd /\ Before(n)

InLine ==
  \E n \in 1 .. Len(src) + 1 : AtLine(n) \/ InCommand(n) \/ AfterCommand(n) \/ InMacro(n)

(* Every state but the first stands on another.                            *)
Deep == Head(stack) # "START" => Len(stack) >= 2

(* The error that macro() reported and command() forgot: the last token of *)
(* the line, a word, is taken for an operator, which the next line does    *)
(* not go on with.                                                         *)
Astray ==
  \/ Head(stack) = "BAD_END"
  \/ /\ Head(stack) \in {"START", "OPERATOR"}
     /\ Type(pos) = "word" /\ pos[2] = Len(src[pos[1]].text)
  \/ Head(stack) = "OPEN" /\ pos[1] \in 1 .. Len(src) /\ pos[2] = 1

Right ==
  \/ result = "run" /\ stack # << >> /\ Deep /\ InLine
  \/ result = "run" /\ stack = << >> /\ Before(Len(src) + 1)
  \/ result = "ok" /\ fixes = {} /\ Before(Len(src) + 1)

Lost ==
  /\ Wrong
  /\ result \in {"error", "thrown"} \/ (result = "run" /\ stack # << >> /\ Astray)

(* The offsets the assembler starts at, and commands by their offsets.     *)
Based     == C0 \in Nat /\ D0 \in Nat
CodeTable == code = [o \in DOMAIN code |-> code[o]]

TwoPassInv == Based /\ CodeTable /\ (Clean => Right \/ Lost)

-----------------------------------------------------------------------------
(***************************************************************************)
(* What does not change.                                                   *)
(***************************************************************************)
LEMMA TextKept ==
  ASSUME src' = src, start' = start
  PROVE  P' = P /\ C0' = C0 /\ D0' = D0 /\ (Wrong' <=> Wrong) /\ (Clean' <=> Clean)
<1>1. P' = P /\ C0' = C0 /\ D0' = D0
  BY DEF P, Meaning, C0, D0
<1> QED
  BY <1>1 DEF Wrong, Clean

LEMMA BeforeKept ==
  ASSUME src' = src, start' = start, UNCHANGED tables, UNCHANGED memory, NEW n, Before(n)
  PROVE  Before(n)'
<1>1. P' = P /\ C0' = C0 /\ D0' = D0
  BY TextKept
<1>2. /\ labels' = labels /\ fixes' = fixes /\ codeOff' = codeOff /\ dataOff' = dataOff
      /\ cur' = cur /\ code' = code /\ data' = data /\ mregs' = mregs
  BY DEF tables, memory
<1>3. OffsetsOf(n)'
  BY <1>1, <1>2 DEF Before, OffsetsOf, CodeAt, DataAt
<1>4. LabelsOf(n)'
  BY <1>1, <1>2, Zenon DEF Before, LabelsOf, IsKind
<1>5. CodeOfLines(n)'
  BY <1>1, <1>2 DEF Before, CodeOfLines, IsKind, CodeAt, Laid, Exact, Named
<1>6. FixesOfLines'
  BY <1>1, <1>2 DEF Before, FixesOfLines, IsKind, CodeAt
<1>7. DataOfLines(n)'
  BY <1>1, <1>2 DEF Before, DataOfLines, IsKind, DataAt
<1>8. RegsOfLines(n)'
  BY <1>1, <1>2 DEF Before, RegsOfLines, IsKind, SetsOf, SetTo, LastSet
<1> QED
  BY <1>3, <1>4, <1>5, <1>6, <1>7, <1>8 DEF Before

LEMMA OperandKept ==
  ASSUME src' = src, start' = start, labels' = labels, fixes' = fixes, cmd' = cmd,
         NEW n, OperandOf(n)
  PROVE  OperandOf(n)'
<1>1. P' = P /\ C0' = C0
  BY TextKept
<1> QED
  BY <1>1 DEF OperandOf, CodeAt

-----------------------------------------------------------------------------
(***************************************************************************)
(* The line that is read.                                                  *)
(***************************************************************************)
LEMMA LineIs ==
  ASSUME Typed, Clean, NEW n \in 1 .. Len(src)
  PROVE  /\ P[n] = src[n].means /\ P[n].imm \in Int /\ P[n].kind # "other"
         /\ src[n].text \in Seq(Token) /\ src[n].text # << >>
         /\ IF P[n].kind = "cmd" THEN SaysCommand(src[n].text, P[n])
            ELSE SaysMacro(src[n].text, P[n])
<1>1. src \in Seq(Lines) /\ n \in DOMAIN src /\ src[n] \in Lines
  BY DEF Typed
<1>2. P[n] = src[n].means
  BY <1>1 DEF P, Meaning
<1>3. P[n].kind # "other"
  BY <1>1 DEF Clean
<1>4. src[n].text \in Seq(Token) /\ src[n].text # << >>
  BY <1>1, LinesAssumption
<1> QED
  BY <1>1, <1>2, <1>3, <1>4, SaysAssumption

(* The token in front of a line that is not behind the text.               *)
LEMMA FrontIs ==
  ASSUME Typed, NEW n \in 1 .. Len(src), pos[1] = n
  PROVE  /\ ~IsEof(pos) /\ At(pos) = src[n].text[pos[2]] /\ Type(pos) = At(pos).type
         /\ pos[2] \in 1 .. Len(src[n].text) /\ pos = << n, pos[2] >>
         /\ At(pos) \in Token
<1>1. ~IsEof(pos)
  BY DEF IsEof, Typed
<1>2. pos[2] \in 1 .. Len(src[n].text) /\ pos = << n, pos[2] >>
  BY <1>1 DEF Typed, Position
<1> QED
  BY <1>1, <1>2, TokenAt DEF At, Type

LEMMA CommandIn ==
  ASSUME Typed, Right, NEW s, In(s), s \notin {"START", "FINISH", "MACRO"}
  PROVE  /\ result = "run" /\ stack # << >> /\ Head(stack) = s /\ Len(stack) >= 2
         /\ \E n \in Nat \ {0} : InCommand(n)
<1>1. Len(src) \in Nat
  BY DEF Typed
<1> QED
  BY <1>1 DEF Right, In, Deep, InLine, AtLine, AfterCommand, InMacro

LEMMA ShiftRight ==
  ASSUME Typed, Clean, NEW n \in Nat \ {0}, InCommand(n), result = "run", stack # << >>,
         Len(stack) >= 2,
         NEW s \in State, Shift(s), src' = src, start' = start, result' = result,
         Midway(s, src[n].text, pos[2] + 1, P[n], cmd'), s = "CLOSE" => OperandOf(n)',
         Before(n)'
  PROVE  Right'
<1>1. n \in 1 .. Len(src) /\ pos[1] = n
  BY DEF InCommand
<1>2. pos[2] \in 1 .. Len(src[n].text) /\ src[n].text \in Seq(Token)
  BY <1>1, FrontIs, LineIs
<1>3. pos[2] + 1 \in 1 .. Len(src[n].text)
  BY <1>2, MidwayExpected
<1>4. Behind(pos) = << n, pos[2] + 1 >> /\ HasNext(pos)
  <2>1. Behind(pos) = << n, pos[2] + 1 >>
    BY <1>1, <1>2, <1>3 DEF Behind
  <2> QED
    BY <1>1, <2>1 DEF HasNext, IsEof
<1>5. pos' = << n, pos[2] + 1 >> /\ stack' = Top(s)
  BY <1>4 DEF Shift
<1>6. stack \in Seq(State)
  BY DEF Typed, TypeOK
<1>7. Tail(stack) \in Seq(State) /\ Len(Tail(stack)) = Len(stack) - 1
  BY <1>6, TailFacts
<1>8. stack' # << >> /\ Head(stack') = s /\ Len(stack') = Len(stack)
  BY <1>5, <1>6, <1>7, StackFacts DEF Top
<1>9. P' = P
  BY TextKept
<1>10. InCommand(n)'
  BY <1>1, <1>5, <1>8, <1>9 DEF InCommand
<1>11. Deep' /\ InLine'
  <2>1. n \in 1 .. Len(src') + 1
    BY <1>1 DEF Typed
  <2> QED
    BY <1>8, <1>10, <2>1 DEF Deep, InLine
<1> QED
  BY <1>8, <1>11 DEF Right

LEMMA BecomeRight ==
  ASSUME Typed, NEW n \in Nat \ {0}, InCommand(n), result = "run", stack # << >>,
         Len(stack) >= 2,
         NEW s \in State, Become(s), src' = src, start' = start, result' = result,
         Midway(s, src[n].text, pos[2], P[n], cmd'), s = "CLOSE" => OperandOf(n)',
         Before(n)'
  PROVE  Right'
<1>1. n \in 1 .. Len(src) /\ pos[1] = n
  BY DEF InCommand
<1>5. pos' = pos /\ stack' = Top(s)
  BY DEF Become
<1>6. stack \in Seq(State)
  BY DEF Typed, TypeOK
<1>7. Tail(stack) \in Seq(State) /\ Len(Tail(stack)) = Len(stack) - 1
  BY <1>6, TailFacts
<1>8. stack' # << >> /\ Head(stack') = s /\ Len(stack') = Len(stack)
  BY <1>5, <1>6, <1>7, StackFacts DEF Top
<1>9. P' = P
  BY TextKept
<1>10. InCommand(n)'
  BY <1>1, <1>5, <1>8, <1>9 DEF InCommand
<1>11. Deep' /\ InLine'
  <2>1. n \in 1 .. Len(src') + 1
    BY <1>1 DEF Typed
  <2> QED
    BY <1>8, <1>10, <2>1 DEF Deep, InLine
<1> QED
  BY <1>8, <1>11 DEF Right

(* An error while the reference does not accept the text either.           *)
LEMMA BadLost ==
  ASSUME Wrong, src' = src, start' = start, result = "run", result' = result,
         NEW st \in Seq(State), stack' = << "BAD_END" >> \o st
  PROVE  Lost'
<1>1. stack' # << >> /\ Head(stack') = "BAD_END"
  BY StackFacts, BadEndState
<1>2. Wrong'
  BY TextKept
<1> QED
  BY <1>1, <1>2 DEF Lost, Astray

LEMMA EndLost ==
  ASSUME Wrong, src' = src, start' = start, result' \in {"error", "thrown"}
  PROVE  Lost'
BY TextKept DEF Lost

-----------------------------------------------------------------------------
(***************************************************************************)
(* The cases of command(), on a line that is written as it is meant.       *)
(***************************************************************************)
(* Line n is read in state s.                                              *)
Faces(n, s) ==
  /\ InCommand(n) /\ n \in 1 .. Len(src) /\ pos[1] = n /\ pos[2] \in Nat
  /\ Midway(s, src[n].text, pos[2], P[n], cmd)
  /\ At(pos) = src[n].text[pos[2]] /\ Type(pos) = src[n].text[pos[2]].type
  /\ P[n].imm \in Int /\ Before(n)
  /\ result = "run" /\ stack # << >> /\ Head(stack) = s /\ Len(stack) >= 2

LEMMA FacesLine ==
  ASSUME Typed, Clean, Right, NEW s, In(s), s \notin {"START", "FINISH", "MACRO"}
  PROVE  \E n \in Nat \ {0} : Faces(n, s)
<1>1. PICK n \in Nat \ {0} : InCommand(n)
  BY CommandIn
<1>2. /\ n \in 1 .. Len(src) /\ pos[1] = n /\ Before(n)
      /\ Midway(Head(stack), src[n].text, pos[2], P[n], cmd)
  BY <1>1 DEF InCommand
<1>3. result = "run" /\ stack # << >> /\ Head(stack) = s /\ Len(stack) >= 2
  BY CommandIn
<1>4. pos[2] \in 1 .. Len(src[n].text) /\ src[n].text \in Seq(Token) /\ P[n].imm \in Int
  BY <1>2, FrontIs, LineIs
<1>5. pos[2] \in Nat
  BY <1>4
<1>6. At(pos) = src[n].text[pos[2]] /\ Type(pos) = src[n].text[pos[2]].type
  BY <1>2, FrontIs
<1> QED
  BY <1>1, <1>2, <1>3, <1>4, <1>5, <1>6 DEF Faces

LEMMA ApartKept ==
  ASSUME Apart
  PROVE  src' = src /\ start' = start /\ result' = result /\ UNCHANGED tables /\ UNCHANGED memory
BY DEF Apart

LEMMA ApartBefore ==
  ASSUME Apart, NEW n, Before(n)
  PROVE  Before(n)'
BY ApartKept, BeforeKept

LEMMA OperandZero ==
  ASSUME src' = src, start' = start, NEW n, P[n].label = NoLabel, P[n].imm = 0,
         cmd' \in CmdType, cmd'.imm = 0
  PROVE  OperandOf(n)'
<1>1. P' = P
  BY TextKept
<1>2. cmd'.sign \in Int
  BY DEF CmdType
<1>3. cmd'.imm * cmd'.sign = 0
  BY <1>2
<1> QED
  BY <1>1, <1>3, ImmRange DEF OperandOf

LEMMA CmdTyped ==
  ASSUME Typed
  PROVE  cmd \in CmdType
BY DEF Typed, TypeOK, CmdType

(* A case that moves on, and one that only changes the state.              *)
LEMMA FacesShift ==
  ASSUME Typed, Clean, NEW n \in Nat \ {0}, NEW s, Faces(n, s), NEW q \in State, Shift(q),
         Apart, Midway(q, src[n].text, pos[2] + 1, P[n], cmd'), q = "CLOSE" => OperandOf(n)'
  PROVE  Right'
BY ShiftRight, ApartKept, ApartBefore DEF Faces

LEMMA FacesBecome ==
  ASSUME Typed, NEW n \in Nat \ {0}, NEW s, Faces(n, s), NEW q \in State, Become(q),
         Apart, Midway(q, src[n].text, pos[2], P[n], cmd'), q = "CLOSE" => OperandOf(n)'
  PROVE  Right'
BY BecomeRight, ApartKept, ApartBefore DEF Faces


LEMMA DstRight ==
  ASSUME Typed, Clean, Right, Dst
  PROVE  Right'
<1>1. In("DST") /\ Shift("SET") /\ Apart
  BY DEF Dst
<1>2. PICK n \in Nat \ {0} : Faces(n, "DST")
  BY <1>1, FacesLine
<1>3. cmd' = [cmd EXCEPT !.dst = src[n].text[pos[2]].reg]
  BY <1>2 DEF Dst, Faces
<1>4. Midway("SET", src[n].text, pos[2] + 1, P[n], cmd')
  BY <1>2, <1>3, ParseDst DEF Faces
<1> QED
  BY <1>1, <1>2, <1>4, FacesShift, StateNames

LEMMA SetRight ==
  ASSUME Typed, Clean, Right, Set
  PROVE  Right'
<1>1. In("SET") /\ Shift("OPERATOR") /\ Apart
  BY DEF Set
<1>2. PICK n \in Nat \ {0} : Faces(n, "SET")
  BY <1>1, FacesLine
<1>3. cmd' = cmd
  BY <1>2 DEF Set, Faces
<1>4. Midway("OPERATOR", src[n].text, pos[2] + 1, P[n], cmd')
  BY <1>2, <1>3, ParseSet DEF Faces
<1> QED
  BY <1>1, <1>2, <1>4, FacesShift, StateNames

LEMMA OperatorRight ==
  ASSUME Typed, Clean, Right, Operator
  PROVE  Right'
<1>1. In("OPERATOR") /\ Apart
  BY DEF Operator
<1>2. PICK n \in Nat \ {0} : Faces(n, "OPERATOR")
  BY <1>1, FacesLine
<1>3. /\ src[n].text[pos[2]].opr \in Opcodes
      /\ Midway("OPEN", src[n].text, pos[2] + 1, P[n],
                [cmd EXCEPT !.opc = src[n].text[pos[2]].opr])
  BY <1>2, ParseOperator DEF Faces
<1>4. cmd' = [cmd EXCEPT !.opc = src[n].text[pos[2]].opr] /\ Shift("OPEN")
  BY <1>2, <1>3 DEF Operator, Faces
<1> QED
  BY <1>1, <1>2, <1>3, <1>4, FacesShift, StateNames

LEMMA OpenRight ==
  ASSUME Typed, Clean, Right, Open
  PROVE  Right'
<1>1. In("OPEN") /\ Shift("ARGS") /\ Apart
  BY DEF Open
<1>2. PICK n \in Nat \ {0} : Faces(n, "OPEN")
  BY <1>1, FacesLine
<1>3. cmd' = cmd
  BY <1>2 DEF Open, Faces
<1>4. Midway("ARGS", src[n].text, pos[2] + 1, P[n], cmd')
  BY <1>2, <1>3, ParseOpen DEF Faces
<1> QED
  BY <1>1, <1>2, <1>4, FacesShift, StateNames

LEMMA ArgsRight ==
  ASSUME Typed, Clean, Right, cmd' \in CmdType, Args
  PROVE  Right'
<1>1. In("ARGS") /\ Apart
  BY DEF Args
<1>2. PICK n \in Nat \ {0} : Faces(n, "ARGS")
  BY <1>1, FacesLine
<1> DEFINE t == src[n].text
           j == pos[2]
<1>3. /\ t[j].type = "reg" => Midway("SRC0", t, j, P[n], cmd)
      /\ t[j].type = "comma" => Midway("COMMA_SRC0", t, j, P[n], [cmd EXCEPT !.s0 = RZ])
      /\ t[j].type = "close" =>
           /\ Midway("CLOSE", t, j, P[n], [cmd EXCEPT !.s0 = RZ, !.s1 = RZ, !.imm = 0])
           /\ P[n].imm = 0 /\ P[n].label = NoLabel
  <2>1. Midway("ARGS", t, j, P[n], cmd)
    BY <1>2 DEF Faces
  <2> HIDE DEF t, j
  <2> QED
    BY <2>1, ParseArgs
<1>4. Type(pos) = t[j].type
  BY <1>2 DEF Faces
<1>5. CASE Sees({"reg"}) /\ Become("SRC0") /\ UNCHANGED cmd
  BY <1>1, <1>2, <1>3, <1>4, <1>5, FacesBecome, StateNames DEF Sees
<1>6. CASE /\ Sees({"comma"}) /\ Become("COMMA_SRC0")
           /\ cmd' = [cmd EXCEPT !.s0 = RZ]
  BY <1>1, <1>2, <1>3, <1>4, <1>6, FacesBecome, StateNames DEF Sees
<1>7. CASE /\ Sees({"close"}) /\ Become("CLOSE")
           /\ cmd' = [cmd EXCEPT !.s0 = RZ, !.s1 = RZ, !.imm = 0]
  <2>1. /\ Midway("CLOSE", t, j, P[n], cmd')
        /\ P[n].imm = 0 /\ P[n].label = NoLabel
    BY <1>3, <1>4, <1>7 DEF Sees
  <2>2. cmd'.imm = 0
    BY <1>7, CmdTyped DEF CmdType
  <2>3. OperandOf(n)'
    BY <1>1, <2>1, <2>2, OperandZero, ApartKept
  <2> QED
    BY <1>1, <1>2, <1>7, <2>1, <2>3, FacesBecome, StateNames
<1> QED
  BY <1>5, <1>6, <1>7 DEF Args

LEMMA Src0Right ==
  ASSUME Typed, Clean, Right, Src0
  PROVE  Right'
<1>1. In("SRC0") /\ Shift("COMMA_SRC0") /\ Apart
  BY DEF Src0
<1>2. PICK n \in Nat \ {0} : Faces(n, "SRC0")
  BY <1>1, FacesLine
<1>3. cmd' = [cmd EXCEPT !.s0 = src[n].text[pos[2]].reg]
  BY <1>2 DEF Src0, Faces
<1>4. Midway("COMMA_SRC0", src[n].text, pos[2] + 1, P[n], cmd')
  BY <1>2, <1>3, ParseSrc0 DEF Faces
<1> QED
  BY <1>1, <1>2, <1>4, FacesShift, StateNames

LEMMA CommaSrc0Right ==
  ASSUME Typed, Clean, Right, cmd' \in CmdType, CommaSrc0
  PROVE  Right'
<1>1. In("COMMA_SRC0") /\ Apart
  BY DEF CommaSrc0
<1>2. PICK n \in Nat \ {0} : Faces(n, "COMMA_SRC0")
  BY <1>1, FacesLine
<1> DEFINE t == src[n].text
           j == pos[2]
<1>3. /\ t[j].type = "comma" => Midway("AFTER_COMMA_SRC0", t, j + 1, P[n], cmd)
      /\ t[j].type = "close" =>
           /\ Midway("CLOSE", t, j, P[n], [cmd EXCEPT !.s1 = RZ, !.imm = 0])
           /\ P[n].imm = 0 /\ P[n].label = NoLabel
  <2>1. Midway("COMMA_SRC0", t, j, P[n], cmd)
    BY <1>2 DEF Faces
  <2> HIDE DEF t, j
  <2> QED
    BY <2>1, ParseCommaSrc0
<1>4. Type(pos) = t[j].type
  BY <1>2 DEF Faces
<1>5. CASE Sees({"comma"}) /\ Shift("AFTER_COMMA_SRC0") /\ UNCHANGED cmd
  BY <1>1, <1>2, <1>3, <1>4, <1>5, FacesShift, StateNames DEF Sees
<1>6. CASE /\ Sees({"close"}) /\ Become("CLOSE")
           /\ cmd' = [cmd EXCEPT !.s1 = RZ, !.imm = 0]
  <2>1. /\ Midway("CLOSE", t, j, P[n], cmd')
        /\ P[n].imm = 0 /\ P[n].label = NoLabel
    BY <1>3, <1>4, <1>6 DEF Sees
  <2>2. cmd'.imm = 0
    BY <1>6, CmdTyped DEF CmdType
  <2>3. OperandOf(n)'
    BY <1>1, <2>1, <2>2, OperandZero, ApartKept
  <2> QED
    BY <1>1, <1>2, <1>6, <2>1, <2>3, FacesBecome, StateNames
<1> QED
  BY <1>5, <1>6 DEF CommaSrc0

(* The operand, behind the comma or behind the second register.            *)
LEMMA Tail2Right ==
  ASSUME Typed, Clean, Apart, Tail2, NEW n \in Nat \ {0}, NEW s, Faces(n, s),
         SaysOperand(src[n].text, pos[2], P[n]),
         Got(cmd, P[n].opc, P[n].dst, P[n].s0, P[n].s1), P[n].kind = "cmd"
  PROVE  Right'
<1> DEFINE t == src[n].text
           j == pos[2]
<1>1. j \in Nat /\ Type(pos) = t[j].type
  BY DEF Faces
<1>2. /\ t[j].type \in {"minus", "plus"} => Midway("SIGN", t, j, P[n], cmd)
      /\ t[j].type \in Numbers => Midway("NUMBER", t, j, P[n], cmd)
      /\ t[j].type = "at" => Midway("AT", t, j + 1, P[n], cmd)
  BY <1>1, ParseOperand
<1>3. CASE Sees({"minus", "plus"}) /\ Become("SIGN") /\ UNCHANGED cmd
  BY <1>1, <1>2, <1>3, FacesBecome, StateNames DEF Sees
<1>4. CASE Sees(Numbers) /\ Become("NUMBER") /\ UNCHANGED cmd
  BY <1>1, <1>2, <1>4, FacesBecome, StateNames DEF Sees
<1>5. CASE Sees({"at"}) /\ Shift("AT") /\ UNCHANGED cmd
  BY <1>1, <1>2, <1>5, FacesShift, StateNames DEF Sees
<1> QED
  BY <1>3, <1>4, <1>5 DEF Tail2

LEMMA Tail2Types ==
  ASSUME Tail2
  PROVE  Type(pos) \notin {"reg", "close"}
BY DEF Tail2, Sees, Numbers

LEMMA AfterCommaSrc0Right ==
  ASSUME Typed, Clean, Right, cmd' \in CmdType, AfterCommaSrc0
  PROVE  Right'
<1>1. In("AFTER_COMMA_SRC0") /\ Apart
  BY DEF AfterCommaSrc0
<1>2. PICK n \in Nat \ {0} : Faces(n, "AFTER_COMMA_SRC0")
  BY <1>1, FacesLine
<1> DEFINE t == src[n].text
           j == pos[2]
<1>3. /\ t[j].type = "reg" => Midway("SRC1", t, j, P[n], cmd)
      /\ t[j].type # "reg" =>
           /\ SaysOperand(t, j, P[n])
           /\ Got(cmd, P[n].opc, P[n].dst, P[n].s0, P[n].s1)
      /\ t[j].type = "close" =>
           /\ Midway("CLOSE", t, j, P[n], [cmd EXCEPT !.s1 = RZ, !.imm = 0])
           /\ P[n].imm = 0 /\ P[n].label = NoLabel
  BY <1>2, ParseAfterCommaSrc0 DEF Faces
<1>4. Type(pos) = t[j].type /\ P[n].kind = "cmd"
  BY <1>2 DEF Faces, Midway
<1>5. CASE Tail2
  BY <1>1, <1>2, <1>3, <1>4, <1>5, Tail2Right, Tail2Types
<1>6. CASE Sees({"reg"}) /\ Become("SRC1") /\ UNCHANGED cmd
  BY <1>1, <1>2, <1>3, <1>4, <1>6, FacesBecome, StateNames DEF Sees
<1>7. CASE /\ Sees({"close"}) /\ Become("CLOSE")
           /\ cmd' = [cmd EXCEPT !.s1 = RZ, !.imm = 0]
  <2>1. /\ Midway("CLOSE", t, j, P[n], cmd')
        /\ P[n].imm = 0 /\ P[n].label = NoLabel
    BY <1>3, <1>4, <1>7 DEF Sees
  <2>2. cmd'.imm = 0
    BY <1>7, CmdTyped DEF CmdType
  <2>3. OperandOf(n)'
    BY <1>1, <2>1, <2>2, OperandZero, ApartKept
  <2> QED
    BY <1>1, <1>2, <1>7, <2>1, <2>3, FacesBecome, StateNames
<1> QED
  BY <1>5, <1>6, <1>7 DEF AfterCommaSrc0

LEMMA Src1Right ==
  ASSUME Typed, Clean, Right, Src1
  PROVE  Right'
<1>1. In("SRC1") /\ Shift("AFTER_SRC1") /\ Apart
  BY DEF Src1
<1>2. PICK n \in Nat \ {0} : Faces(n, "SRC1")
  BY <1>1, FacesLine
<1>3. cmd' = [cmd EXCEPT !.s1 = src[n].text[pos[2]].reg]
  BY <1>2 DEF Src1, Faces
<1>4. Midway("AFTER_SRC1", src[n].text, pos[2] + 1, P[n], cmd')
  BY <1>2, <1>3, ParseSrc1 DEF Faces
<1> QED
  BY <1>1, <1>2, <1>4, FacesShift, StateNames

LEMMA AfterSrc1Right ==
  ASSUME Typed, Clean, Right, cmd' \in CmdType, AfterSrc1
  PROVE  Right'
<1>1. In("AFTER_SRC1") /\ Apart
  BY DEF AfterSrc1
<1>2. PICK n \in Nat \ {0} : Faces(n, "AFTER_SRC1")
  BY <1>1, FacesLine
<1> DEFINE t == src[n].text
           j == pos[2]
<1>3. /\ P[n].kind = "cmd" /\ SaysOperand(t, j, P[n])
      /\ Got(cmd, P[n].opc, P[n].dst, P[n].s0, P[n].s1)
  BY <1>2, ParseAfterSrc1 DEF Faces
<1>4. Type(pos) = t[j].type /\ j \in Nat
  BY <1>2 DEF Faces
<1>5. CASE Tail2
  BY <1>1, <1>2, <1>3, <1>5, Tail2Right
<1>6. CASE /\ Sees({"close"}) /\ Become("CLOSE")
           /\ cmd' = [cmd EXCEPT !.imm = 0]
  <2>1. /\ Midway("CLOSE", t, j, P[n], cmd')
        /\ P[n].imm = 0 /\ P[n].label = NoLabel
    BY <1>3, <1>4, <1>6, ParseOperand DEF Sees
  <2>2. cmd'.imm = 0
    BY <1>6, CmdTyped DEF CmdType
  <2>3. OperandOf(n)'
    BY <1>1, <2>1, <2>2, OperandZero, ApartKept
  <2> QED
    BY <1>1, <1>2, <1>6, <2>1, <2>3, FacesBecome, StateNames
<1> QED
  BY <1>5, <1>6 DEF AfterSrc1

LEMMA SignRight ==
  ASSUME Typed, Clean, Right, Sign
  PROVE  Right'
<1>1. In("SIGN") /\ Shift("NUMBER") /\ Apart
  BY DEF Sign
<1>2. PICK n \in Nat \ {0} : Faces(n, "SIGN")
  BY <1>1, FacesLine
<1> DEFINE t == src[n].text
           j == pos[2]
<1>3. /\ t[j].type = "minus" => Midway("NUMBER", t, j + 1, P[n], [cmd EXCEPT !.sign = -1])
      /\ t[j].type = "plus" => Midway("NUMBER", t, j + 1, P[n], [cmd EXCEPT !.sign = 1])
  BY <1>2, ParseSign DEF Faces
<1>4. Type(pos) = t[j].type
  BY <1>2 DEF Faces
<1>5. Midway("NUMBER", t, j + 1, P[n], cmd')
  BY <1>3, <1>4 DEF Sign, Sees
<1> QED
  BY <1>1, <1>2, <1>5, FacesShift, StateNames

(* A command whose operand has no label and is out of range.               *)
LEMMA BigWrong ==
  ASSUME NEW n \in 1 .. Len(src), Typed, IsKind(n, "cmd"), P[n].label = NoLabel,
         P[n].imm \notin ImmMin .. ImmMax
  PROVE  Wrong
<1>1. n \in DOMAIN P
  BY DEF P, Meaning, Typed
<1> QED
  BY <1>1 DEF Wrong, Legal, Value, IsKind

LEMMA NumberRight ==
  ASSUME Typed, Clean, Right, Number
  PROVE  Right' \/ Lost'
<1>1. In("NUMBER") /\ Apart
  BY DEF Number
<1>2. PICK n \in Nat \ {0} : Faces(n, "NUMBER")
  BY <1>1, FacesLine
<1> DEFINE t == src[n].text
           j == pos[2]
           v == t[j].num
<1>3. cmd \in CmdType
  BY CmdTyped
<1>4. /\ t[j].type \in Numbers /\ P[n].label = NoLabel
      /\ v \in Int /\ v * cmd.sign = P[n].imm
      /\ v \in ImmMin .. ImmMax <=> P[n].imm \in ImmMin .. ImmMax
      /\ Midway("CLOSE", t, j + 1, P[n], [cmd EXCEPT !.imm = v])
  BY <1>2, <1>3, ParseNumber DEF Faces
<1>5. NumAt(pos) = {v}
  BY <1>2, <1>4 DEF NumAt, Faces
<1>6. CASE P[n].imm \in ImmMin .. ImmMax
  <2>1. cmd' = [cmd EXCEPT !.imm = v] /\ Shift("CLOSE")
    BY <1>4, <1>5, <1>6 DEF Number
  <2>2. cmd'.imm = v /\ cmd'.sign = cmd.sign
    BY <1>3, <2>1 DEF CmdType
  <2>3. P' = P
    BY <1>1, ApartKept, TextKept
  <2>4. OperandOf(n)'
    BY <1>4, <1>6, <2>2, <2>3 DEF OperandOf
  <2> QED
    BY <1>1, <1>2, <1>4, <2>1, <2>4, FacesShift, StateNames
<1>7. CASE P[n].imm \notin ImmMin .. ImmMax
  <2>1. Reject
    BY <1>4, <1>5, <1>7 DEF Number
  <2>2. n \in 1 .. Len(src) /\ IsKind(n, "cmd") /\ result = "run"
    BY <1>2 DEF Faces, Midway, IsKind
  <2>3. Wrong
    BY <1>4, <1>7, <2>2, BigWrong
  <2>4. stack \in Seq(State) /\ stack' = << "BAD_END" >> \o stack
    BY <2>1 DEF Typed, TypeOK, Reject
  <2> QED
    BY <1>1, <2>2, <2>3, <2>4, BadLost, ApartKept
<1> QED
  BY <1>6, <1>7

-----------------------------------------------------------------------------
(***************************************************************************)
(* Labels.                                                                 *)
(***************************************************************************)
(* If the text is legal, a label that is defined has the value the first   *)
(* pass gives it.                                                          *)
LEMMA LabelValue ==
  ASSUME Typed, Legal(P, C0, D0), NEW n \in 1 .. Len(src) + 1, LabelsOf(n),
         NEW l \in DOMAIN labels
  PROVE  Definitions(P, l) # {} /\ LabelAt(P, l, C0, D0) = labels[l]
<1>1. PICK k \in 1 .. n - 1 : IsKind(k, "label") /\ P[k].label = l
  BY DEF LabelsOf
<1>2. k \in DOMAIN P /\ k \in 1 .. Len(src)
  BY DEF P, Meaning, Typed
<1>3. Definitions(P, l) = {k}
  BY <1>1, <1>2 DEF Legal, IsKind
<1>4. (CHOOSE i \in Definitions(P, l) : TRUE) = k
  BY <1>3
<1>5. labels[P[k].label] = Place1(P, k, C0, D0)
  BY <1>1 DEF LabelsOf
<1> QED
  BY <1>1, <1>3, <1>4, <1>5 DEF LabelAt

(* A command whose label has a value out of range.                         *)
LEMMA FarWrong ==
  ASSUME Typed, NEW n \in 1 .. Len(src) + 1, LabelsOf(n), NEW k \in 1 .. Len(src),
         IsKind(k, "cmd"), P[k].label # NoLabel, P[k].label \in DOMAIN labels,
         ~(labels[P[k].label] <= ImmMax)
  PROVE  Wrong
<1> SUFFICES ASSUME Legal(P, C0, D0)
             PROVE  FALSE
  BY DEF Wrong
<1>1. k \in DOMAIN P
  BY DEF P, Meaning, Typed
<1>2. Value(P, k, C0, D0) = labels[P[k].label]
  BY LabelValue DEF Value
<1>3. Value(P, k, C0, D0) \in ImmMin .. ImmMax
  BY <1>1 DEF Legal, IsKind
<1>4. ImmMin \in Int /\ ImmMax \in Int
  BY ImmAssumption DEF ImmMin, ImmMax
<1> QED
  BY <1>2, <1>3, <1>4

LEMMA AtUndefinedRight ==
  ASSUME Typed, Clean, Right, AtUndefined
  PROVE  Right'
<1>1. /\ In("AT") /\ Shift("CLOSE") /\ src' = src /\ start' = start /\ result' = result
      /\ labels' = labels /\ codeOff' = codeOff /\ dataOff' = dataOff /\ cur' = cur
      /\ UNCHANGED memory /\ cmd' = [cmd EXCEPT !.imm = ImmMax]
  BY DEF AtUndefined
<1>2. PICK n \in Nat \ {0} : Faces(n, "AT")
  BY <1>1, FacesLine
<1> DEFINE t == src[n].text
           j == pos[2]
           f == << P[n].label, CodeAt(n) >>
<1>3. /\ t[j].opr = P[n].label /\ P[n].label # NoLabel
      /\ Midway("CLOSE", t, j + 1, P[n], cmd')
  <2>1. Midway("AT", t, j, P[n], cmd)
    BY <1>2 DEF Faces
  <2> HIDE DEF t, j, f
  <2> QED
    BY <1>1, <2>1, ParseAt
<1>4. IsKind(n, "cmd") /\ n \in DOMAIN src /\ Before(n) /\ InCommand(n)
  BY <1>2 DEF Faces, Midway, IsKind, Typed
<1>5. codeOff = CodeAt(n)
  BY <1>4 DEF Before, OffsetsOf
<1>6. fixes' = fixes \cup {f}
  BY <1>2, <1>3, <1>5 DEF AtUndefined, Faces
<1>7. P' = P /\ C0' = C0 /\ D0' = D0
  BY <1>1, TextKept
<1>8. OperandOf(n)'
  BY <1>3, <1>6, <1>7 DEF OperandOf, CodeAt
<1>9. code' = code /\ data' = data /\ mregs' = mregs
  BY <1>1 DEF memory
<1>10. Before(n)'
  <2>1. OffsetsOf(n)'
    BY <1>1, <1>4, <1>7 DEF Before, OffsetsOf, CodeAt, DataAt
  <2>2. LabelsOf(n)'
    BY <1>1, <1>4, <1>7, Zenon DEF Before, LabelsOf, IsKind
  <2>3. CodeOfLines(n)'
    BY <1>1, <1>4, <1>6, <1>7, <1>9 DEF Before, CodeOfLines, IsKind, CodeAt, Laid, Exact, Named
  <2>4. FixesOfLines'
    BY <1>1, <1>3, <1>4, <1>6, <1>7 DEF Before, FixesOfLines, IsKind, CodeAt
  <2>5. DataOfLines(n)'
    BY <1>1, <1>4, <1>7, <1>9 DEF Before, DataOfLines, IsKind, DataAt
  <2>6. RegsOfLines(n)'
    BY <1>1, <1>4, <1>7, <1>9 DEF Before, RegsOfLines, IsKind, SetsOf, SetTo, LastSet
  <2> QED
    BY <2>1, <2>2, <2>3, <2>4, <2>5, <2>6 DEF Before
<1> QED
  BY <1>1, <1>2, <1>3, <1>4, <1>8, <1>10, ShiftRight, StateNames DEF Faces

LEMMA AtDefinedRight ==
  ASSUME IInv, Clean, Right, AtDefined
  PROVE  Right' \/ Lost'
<1>1. /\ In("AT") /\ src' = src /\ start' = start /\ result' = result
      /\ UNCHANGED tables /\ UNCHANGED memory
  BY DEF AtDefined
<1>2. Typed /\ cmd \in CmdType
  BY CmdTyped DEF IInv
<1>3. PICK n \in Nat \ {0} : Faces(n, "AT")
  BY <1>1, <1>2, FacesLine
<1> DEFINE t == src[n].text
           j == pos[2]
           v == labels[P[n].label]
<1>4. /\ t[j].opr = P[n].label /\ P[n].label # NoLabel
      /\ Midway("CLOSE", t, j + 1, P[n], [cmd EXCEPT !.imm = v])
      /\ cmd.sign = 1
  <2>1. Midway("AT", src[n].text, pos[2], P[n], cmd)
    BY <1>3 DEF Faces
  <2>2. cmd.sign = 1
    BY <2>1 DEF Midway, Got
  <2> QED
    BY <2>1, <2>2, ParseAt
<1>5. At(pos).opr = P[n].label /\ P[n].label \in DOMAIN labels
  BY <1>3, <1>4 DEF AtDefined, Faces
<1>6. IsKind(n, "cmd") /\ n \in 1 .. Len(src) /\ Before(n) /\ InCommand(n) /\ LabelsOf(n)
  BY <1>3 DEF Faces, Midway, IsKind, Before
<1>7. P' = P
  BY <1>1, TextKept
<1>8. CASE v > ImmMax
  <2>1. stack' = Top("BAD_END")
    BY <1>5, <1>8 DEF AtDefined
  <2>2. v \in Nat /\ ImmMax \in Int
    BY <1>2, <1>5, ImmAssumption DEF Typed, TypeOK, ImmMax
  <2>3. n \in 1 .. Len(src) + 1
    BY <1>6
  <2>4. Wrong
    BY <1>2, <1>4, <1>5, <1>6, <1>8, <2>2, <2>3, FarWrong
  <2>5. Tail(stack) \in Seq(State) /\ stack' = << "BAD_END" >> \o Tail(stack)
    BY <1>2, <1>3, <2>1, TailFacts DEF Typed, TypeOK, Top, Faces
  <2> QED
    BY <1>1, <1>3, <2>4, <2>5, BadLost DEF Faces
<1>9. CASE ~(v > ImmMax)
  <2>1. cmd' = [cmd EXCEPT !.imm = v] /\ Shift("CLOSE")
    BY <1>5, <1>9 DEF AtDefined
  <2>2. v \in Nat /\ ImmMax \in Int
    BY <1>2, <1>5, ImmAssumption DEF Typed, TypeOK, ImmMax
  <2>3. labels' = labels
    BY <1>1 DEF tables
  <2>4. cmd'.imm = v /\ cmd'.sign = 1 /\ v <= ImmMax
    BY <1>2, <1>4, <1>9, <2>1, <2>2 DEF CmdType
  <2>5. OperandOf(n)'
    BY <1>4, <1>5, <1>7, <2>3, <2>4 DEF OperandOf
  <2>6. Before(n)'
    BY <1>1, <1>6, BeforeKept
  <2> QED
    BY <1>1, <1>2, <1>3, <1>4, <1>6, <2>1, <2>5, <2>6, ShiftRight, StateNames DEF Faces
<1> QED
  BY <1>8, <1>9

LEMMA CloseRight ==
  ASSUME Typed, Clean, Right, Close
  PROVE  Right'
<1>1. /\ In("CLOSE") /\ Apart /\ pos' = Behind(pos) /\ stack' = Top("FINISH") /\ cmd' = cmd
  BY DEF Close
<1>2. PICK n \in Nat \ {0} : Faces(n, "CLOSE")
  BY <1>1, FacesLine
<1>3. Closes(src[n].text, pos[2]) /\ Operands(cmd, P[n]) /\ IsKind(n, "cmd")
  BY <1>2 DEF Faces, Midway, IsKind
<1>4. n \in 1 .. Len(src) /\ pos[1] = n /\ Len(src[n].text) = pos[2]
  BY <1>2, <1>3 DEF Faces, Closes
<1>5. pos' = << n + 1, 1 >>
  <2>1. pos[2] \in Nat
    BY <1>2 DEF Faces
  <2> QED
    BY <1>1, <1>4, <2>1 DEF Behind
<1>6. OperandOf(n) /\ Before(n)
  BY <1>2 DEF Faces, InCommand
<1>7. src' = src /\ start' = start /\ result' = result /\ labels' = labels /\ fixes' = fixes
  BY <1>1 DEF Apart, tables
<1>8. P' = P /\ OperandOf(n)' /\ Before(n)'
  BY <1>1, <1>6, <1>7, TextKept, OperandKept, ApartBefore
<1>9. stack \in Seq(State) /\ stack # << >> /\ Len(stack) >= 2 /\ result = "run"
  BY <1>2 DEF Faces, Typed, TypeOK
<1>10. Tail(stack) \in Seq(State) /\ Len(Tail(stack)) = Len(stack) - 1
  BY <1>9, TailFacts
<1>11. stack' # << >> /\ Head(stack') = "FINISH" /\ Len(stack') = Len(stack)
  BY <1>1, <1>9, <1>10, StackFacts, StateNames DEF Top
<1>12. AfterCommand(n)'
  BY <1>1, <1>3, <1>4, <1>5, <1>7, <1>8, <1>11 DEF AfterCommand, IsKind
<1>13. n \in 1 .. Len(src') + 1
  BY <1>4, <1>7 DEF Typed
<1> QED
  BY <1>7, <1>9, <1>11, <1>12, <1>13 DEF Right, Deep, InLine

(* How a line begins.                                                      *)
LEMMA LineStarts ==
  ASSUME Typed, Clean, NEW n \in 1 .. Len(src)
  PROVE  /\ 1 \in DOMAIN src[n].text
         /\ P[n].kind = "cmd" => src[n].text[1].type \in {"reg", "word"}
         /\ P[n].kind # "cmd" => src[n].text[1].type = "macro"
<1>1. IF P[n].kind = "cmd" THEN SaysCommand(src[n].text, P[n])
      ELSE SaysMacro(src[n].text, P[n])
  BY LineIs
<1>2. CASE P[n].kind = "cmd"
  BY <1>1, <1>2, CommandStarts
<1>3. CASE P[n].kind # "cmd"
  BY <1>1, <1>3 DEF SaysMacro, Has
<1> QED
  BY <1>2, <1>3

LEMMA AtLineIn ==
  ASSUME Typed, Right, In("START")
  PROVE  result = "run" /\ stack # << >> /\ \E n \in 1 .. Len(src) + 1 : AtLine(n)
<1>1. \A n : InCommand(n) => Head(stack) # "START"
  BY MidwayExpected DEF InCommand
<1> QED
  BY <1>1 DEF Right, In, InLine, AfterCommand, InMacro

LEMMA TypeAlways ==
  ASSUME Typed
  PROVE  Type(pos) \in TokenType \cup {"eof"}
BY TokenAt DEF Type

LEMMA AtLineFront ==
  ASSUME Typed, Clean, NEW n \in 1 .. Len(src) + 1, AtLine(n)
  PROVE  /\ pos = << n, 1 >> /\ pos[1] = n /\ pos[2] = 1
         /\ n \in 1 .. Len(src) => Type(pos) = src[n].text[1].type /\ At(pos) = src[n].text[1]
         /\ n \notin 1 .. Len(src) => Type(pos) = "eof" /\ n = Len(src) + 1
<1>1. pos = << n, 1 >> /\ pos[1] = n /\ pos[2] = 1
  BY DEF AtLine
<1>2. n \in 1 .. Len(src) => Type(pos) = src[n].text[1].type /\ At(pos) = src[n].text[1]
  BY <1>1, FrontIs
<1>3. n \notin 1 .. Len(src) => Type(pos) = "eof" /\ n = Len(src) + 1
  BY <1>1 DEF Type, IsEof, Typed
<1> QED
  BY <1>1, <1>2, <1>3

LEMMA UnexpectedRight ==
  ASSUME Typed, Clean, Right, Unexpected
  PROVE  FALSE
<1>1. /\ result = "run" /\ stack # << >> /\ Head(stack) # "MACRO"
      /\ Type(pos) \notin Expected(Head(stack))
  BY DEF Unexpected
<1>2. CASE Head(stack) = "START"
  <2>1. PICK n \in 1 .. Len(src) + 1 : AtLine(n)
    BY <1>1, <1>2, AtLineIn DEF In
  <2>2. Type(pos) \in {"reg", "word", "eof", "macro"}
    BY <2>1, AtLineFront, LineStarts
  <2> QED
    BY <1>1, <1>2, <2>2 DEF Expected
<1>3. CASE Head(stack) = "FINISH"
  <2>1. Expected("FINISH") = TokenType \cup {"eof"}
    BY DEF Expected
  <2> QED
    BY <1>1, <1>3, <2>1, TypeAlways
<1>4. CASE Head(stack) \notin {"START", "FINISH"}
  <2>1. PICK n \in Nat \ {0} : Faces(n, Head(stack))
    BY <1>1, <1>4, FacesLine DEF In
  <2>2. /\ Midway(Head(stack), src[n].text, pos[2], P[n], cmd)
        /\ Type(pos) = src[n].text[pos[2]].type
    BY <2>1 DEF Faces
  <2>3. CASE Head(stack) = "NUMBER"
    <3>1. Expected("NUMBER") = TokenType \cup {"eof"}
      BY DEF Expected
    <3> QED
      BY <1>1, <2>3, <3>1, TypeAlways
  <2>4. CASE Head(stack) = "BAD_END"
    BY <2>2, <2>4, MidwayExpected
  <2> QED
    BY <1>1, <1>4, <2>2, <2>3, <2>4, MidwayExpected
<1> QED
  BY <1>2, <1>3, <1>4

-----------------------------------------------------------------------------
(***************************************************************************)
(* The beginning of a line.                                                *)
(***************************************************************************)
LEMMA EnterRight ==
  ASSUME Typed, src' = src, start' = start, result = "run", result' = result,
         stack # << >>, NEW n \in 1 .. Len(src), pos = << n, 1 >>, NEW s \in State,
         Enter(s), s # "CLOSE", Midway(s, src[n].text, 1, P[n], cmd'), Before(n)'
  PROVE  Right'
<1>1. pos' = pos /\ stack' = << s >> \o stack
  BY DEF Enter
<1>2. stack \in Seq(State) /\ Len(stack) >= 1
  BY DEF Typed, TypeOK
<1>3. stack' # << >> /\ Head(stack') = s /\ Len(stack') >= 2
  BY <1>1, <1>2, StackFacts
<1>4. P' = P
  BY TextKept
<1>5. InCommand(n)' /\ n \in 1 .. Len(src') + 1
  BY <1>1, <1>3, <1>4 DEF InCommand, Typed
<1> QED
  BY <1>3, <1>5 DEF Right, Deep, InLine

LEMMA BelowStart ==
  ASSUME Typed, Shape, stack # << >>, Head(stack) # "BAD_END", Len(stack) >= 2
  PROVE  Tail(stack) # << >> /\ Head(Tail(stack)) = "START" /\ Tail(stack) \in Seq(State)
<1>1. stack \in Seq(State)
  BY DEF Typed, TypeOK
<1>2. stack[2] = "START"
  BY <1>1 DEF Shape
<1>3. Tail(stack) \in Seq(State) /\ Len(Tail(stack)) = Len(stack) - 1 /\ Tail(stack)[1] = stack[2]
  BY <1>1, TailFacts
<1>4. Len(Tail(stack)) >= 1
  BY <1>1, <1>3
<1>5. \A st \in Seq(State) : Len(st) >= 1 => st # << >> /\ Head(st) = st[1]
  OBVIOUS
<1> QED
  BY <1>2, <1>3, <1>4, <1>5

LEMMA StartRight ==
  ASSUME Typed, Shape, Clean, Right, Start
  PROVE  Right'
<1>1. In("START") /\ Apart
  BY DEF Start
<1>2. result = "run" /\ stack # << >>
  BY <1>1 DEF In
<1>3. PICK n \in 1 .. Len(src) + 1 : AtLine(n)
  BY <1>1, AtLineIn
<1>4. /\ src' = src /\ start' = start /\ result' = result /\ Before(n)'
  BY <1>1, <1>3, ApartKept, ApartBefore DEF AtLine
<1>5. /\ pos = << n, 1 >>
      /\ n \in 1 .. Len(src) => Type(pos) = src[n].text[1].type
      /\ n \notin 1 .. Len(src) => Type(pos) = "eof" /\ n = Len(src) + 1
  BY <1>3, AtLineFront
<1>6. cmd = NoCmd
  BY <1>3 DEF AtLine
<1>7. CASE Sees({"reg"}) /\ Enter("DST") /\ UNCHANGED cmd
  <2>1. n \in 1 .. Len(src) /\ src[n].text[1].type = "reg"
    BY <1>5, <1>7 DEF Sees
  <2>2. P[n].kind = "cmd" /\ SaysCommand(src[n].text, P[n])
    BY <2>1, LineIs, LineStarts
  <2>3. Midway("DST", src[n].text, 1, P[n], cmd')
    BY <1>6, <1>7, <2>1, <2>2, CommandStarts
  <2> QED
    BY <1>2, <1>4, <1>5, <1>7, <2>1, <2>3, EnterRight, StateNames
<1>8. CASE Sees({"word"}) /\ Enter("OPERATOR") /\ cmd' = [cmd EXCEPT !.dst = RZ]
  <2>1. n \in 1 .. Len(src) /\ src[n].text[1].type = "word"
    BY <1>5, <1>8 DEF Sees
  <2>2. P[n].kind = "cmd" /\ SaysCommand(src[n].text, P[n])
    BY <2>1, LineIs, LineStarts
  <2>3. Midway("OPERATOR", src[n].text, 1, P[n], cmd')
    BY <1>6, <1>8, <2>1, <2>2, CommandStarts
  <2> QED
    BY <1>2, <1>4, <1>5, <1>8, <2>1, <2>3, EnterRight, StateNames
<1>9. CASE /\ Sees({"eof"})
           /\ stack' = Tail(stack)
           /\ UNCHANGED <<cmd, pos, said>>
  <2>1. n = Len(src) + 1
    <3>1. Type(pos) = "eof" /\ "eof" \notin TokenType
      BY <1>9 DEF Sees, TokenType, Numbers
    <3>2. n \notin 1 .. Len(src)
      <4> SUFFICES ASSUME n \in 1 .. Len(src)
                   PROVE  Type(pos) \in TokenType
        BY <3>1
      <4>1. pos[1] = n
        BY <1>5
      <4> QED
        BY <4>1, FrontIs, TokenAt
    <3> QED
      BY <1>5, <3>2
  <2>2. CASE stack' = << >>
    BY <1>2, <1>4, <2>1, <2>2 DEF Right
  <2>3. CASE stack' # << >>
    <3>1. stack \in Seq(State) /\ Len(Tail(stack)) = Len(stack) - 1
      BY <1>2, TailFacts DEF Typed, TypeOK
    <3>2. Len(stack) >= 2
      BY <1>2, <1>9, <2>3, <3>1
    <3>3. Head(stack') = "START"
      BY <1>2, <1>1, <1>9, <3>2, BelowStart DEF In
    <3>4. AtLine(n)'
      BY <1>3, <1>4, <1>9, <3>3 DEF AtLine
    <3>5. n \in 1 .. Len(src') + 1
      BY <1>4
    <3> QED
      BY <1>2, <1>4, <2>3, <3>3, <3>4, <3>5 DEF Right, Deep, InLine
  <2> QED
    BY <2>2, <2>3
<1> QED
  BY <1>7, <1>8, <1>9 DEF Start

LEMMA StartMacroRight ==
  ASSUME Typed, Clean, Right, StartMacro
  PROVE  Right'
<1>1. /\ In("START") /\ Sees({"macro"}) /\ pos' = Behind(pos)
      /\ cmd' = cmd /\ src' = src /\ start' = start
      /\ UNCHANGED tables /\ UNCHANGED memory
  BY DEF StartMacro
<1>2. result = "run" /\ stack # << >>
  BY <1>1 DEF In
<1>3. PICK n \in 1 .. Len(src) + 1 : AtLine(n)
  BY <1>1, AtLineIn
<1>4. /\ pos = << n, 1 >>
      /\ n \in 1 .. Len(src) => Type(pos) = src[n].text[1].type
      /\ n \notin 1 .. Len(src) => Type(pos) = "eof" /\ n = Len(src) + 1
  BY <1>3, AtLineFront
<1>5. n \in 1 .. Len(src) /\ src[n].text[1].type = "macro"
  BY <1>1, <1>4 DEF Sees
<1>6. P[n].kind # "cmd" /\ SaysMacro(src[n].text, P[n])
  BY <1>5, LineIs, LineStarts
<1>7. Len(src[n].text) \in {2, 3}
  BY <1>6 DEF SaysMacro
<1>8. Behind(pos) = << n, 2 >> /\ HasNext(pos)
  <2>1. Behind(pos) = << n, 2 >>
    <3>1. pos[1] = n /\ pos[2] = 1
      BY <1>3, AtLineFront
    <3>2. \A x \in {2, 3} : 1 < x
      OBVIOUS
    <3>3. pos[2] < Len(src[pos[1]].text)
      BY <1>7, <3>1, <3>2, Zenon
    <3>4. Behind(pos) = << pos[1], pos[2] + 1 >>
      BY <3>3, Zenon DEF Behind
    <3>5. 1 + 1 = 2
      OBVIOUS
    <3> QED
      BY <3>1, <3>4, <3>5, Zenon
  <2> QED
    BY <1>5, <2>1 DEF HasNext, IsEof
<1>9. pos' = << n, 2 >> /\ stack' = << "MACRO" >> \o stack /\ result' = result
  BY <1>1, <1>8 DEF StartMacro
<1>10. stack \in Seq(State) /\ Len(stack) >= 1
  BY <1>2 DEF Typed, TypeOK
<1>11. stack' # << >> /\ Head(stack') = "MACRO" /\ Len(stack') >= 2
  BY <1>9, <1>10, StackFacts, StateNames
<1>12. Before(n)' /\ P' = P
  BY <1>1, <1>3, BeforeKept, TextKept DEF AtLine
<1>13. InMacro(n)'
  BY <1>1, <1>3, <1>5, <1>6, <1>9, <1>11, <1>12 DEF InMacro, AtLine
<1>14. n \in 1 .. Len(src') + 1
  BY <1>1
<1> QED
  BY <1>2, <1>9, <1>11, <1>13, <1>14 DEF Right, Deep, InLine

-----------------------------------------------------------------------------
(***************************************************************************)
(* The end of a line: what each table says of one line more.               *)
(***************************************************************************)
LEMMA OneMore ==
  ASSUME NEW n \in Nat \ {0}
  PROVE  /\ (n + 1) - 1 = n
         /\ \A k : k \in 1 .. n <=> k \in 1 .. n - 1 \/ k = n
         /\ n \notin 1 .. n - 1
OBVIOUS

(* Labels stay as they are, and others may come.                           *)
LabelsGrow == \A l \in DOMAIN labels : l \in DOMAIN labels' /\ labels'[l] = labels[l]

LEMMA LabelsNext ==
  ASSUME P' = P, C0' = C0, D0' = D0, labels' = labels, NEW n \in Nat \ {0}, LabelsOf(n),
         ~IsKind(n, "label")
  PROVE  LabelsOf(n + 1)'
<1>1. \A k : k \in 1 .. (n + 1) - 1 /\ IsKind(k, "label") <=>
             k \in 1 .. n - 1 /\ IsKind(k, "label")
  BY OneMore
<1>2. \A k : IsKind(k, "label")' <=> IsKind(k, "label")
  BY DEF IsKind
<1>3. \A l \in DOMAIN labels' :
         \E k \in 1 .. (n + 1) - 1 : IsKind(k, "label")' /\ P'[k].label = l
  BY <1>1, <1>2 DEF LabelsOf
<1>4. ASSUME NEW k \in 1 .. (n + 1) - 1, IsKind(k, "label")'
      PROVE  /\ P'[k].label \in DOMAIN labels'
             /\ labels'[P'[k].label] = Place1(P', k, C0', D0')
             /\ \A j \in 1 .. (n + 1) - 1 :
                  IsKind(j, "label")' /\ P'[j].label = P'[k].label => j = k
  BY <1>1, <1>2, <1>4 DEF LabelsOf
<1> QED
  BY <1>3, <1>4 DEF LabelsOf

LEMMA LaidKept ==
  ASSUME P' = P, C0' = C0, LabelsGrow, fixes' = fixes, NEW k, Laid(k),
         CodeAt(k) \in DOMAIN code', code'[CodeAt(k)] = code[CodeAt(k)]
  PROVE  Laid(k)'
<1>1. CodeAt(k)' = CodeAt(k)
  BY DEF CodeAt
<1> QED
  BY <1>1 DEF Laid, Exact, Named, LabelsGrow

LEMMA CodeNext ==
  ASSUME P' = P, C0' = C0, LabelsGrow, fixes' = fixes, code' = code,
         NEW n \in Nat \ {0}, CodeOfLines(n), ~IsKind(n, "cmd")
  PROVE  CodeOfLines(n + 1)'
<1>1. \A k : k \in 1 .. (n + 1) - 1 /\ IsKind(k, "cmd") <=>
             k \in 1 .. n - 1 /\ IsKind(k, "cmd")
  BY OneMore
<1>2. \A k : (IsKind(k, "cmd")' <=> IsKind(k, "cmd")) /\ CodeAt(k)' = CodeAt(k)
  BY DEF IsKind, CodeAt
<1>3. \A o \in DOMAIN code' :
        \E k \in 1 .. (n + 1) - 1 : IsKind(k, "cmd")' /\ o = CodeAt(k)'
  BY <1>1, <1>2 DEF CodeOfLines
<1>4. ASSUME NEW k \in 1 .. (n + 1) - 1, IsKind(k, "cmd")'
      PROVE  Laid(k)'
  <2>1. Laid(k)
    BY <1>1, <1>2, <1>4 DEF CodeOfLines
  <2>2. CodeAt(k) \in DOMAIN code
    BY <2>1 DEF Laid
  <2> QED
    BY <2>1, <2>2, LaidKept
<1> QED
  BY <1>3, <1>4 DEF CodeOfLines

LEMMA FixesNext ==
  ASSUME src' = src, P' = P, C0' = C0, fixes' = fixes, FixesOfLines
  PROVE  FixesOfLines'
BY DEF FixesOfLines, IsKind, CodeAt

LEMMA DataAtNext ==
  ASSUME NEW n \in Nat \ {0}, IsKind(n, "cell") => P[n].width \in {1, 2, 4, 8}
  PROVE  DataUpTo(P, n + 1) = DataUpTo(P, n) + IF IsKind(n, "cell") THEN P[n].width ELSE 0
BY DataUpToNext DEF IsKind

LEMMA DataNext ==
  ASSUME P' = P, D0' = D0, data' = data,
         NEW n \in Nat \ {0}, DataOfLines(n), ~IsKind(n, "cell")
  PROVE  DataOfLines(n + 1)'
<1>1. \A k : k \in 1 .. (n + 1) - 1 /\ IsKind(k, "cell") <=>
             k \in 1 .. n - 1 /\ IsKind(k, "cell")
  BY OneMore
<1>2. \A k : (IsKind(k, "cell")' <=> IsKind(k, "cell")) /\ DataAt(k)' = DataAt(k)
  BY DEF IsKind, DataAt
<1>3. DataUpTo(P, n + 1) = DataUpTo(P, n)
  BY DataAtNext, UpToNat
<1>4. DataAt(n + 1)' = DataAt(n)
  BY <1>3 DEF DataAt
<1>5. \A o \in DOMAIN data' : o \notin D0' .. DataAt(n + 1)' - 1 => data'[o] = 0
  BY <1>4 DEF DataOfLines
<1>6. ASSUME NEW k \in 1 .. (n + 1) - 1, IsKind(k, "cell")'
      PROVE  /\ GetCell(data', DataAt(k)', P'[k].width) = P'[k].imm
             /\ DataAt(k)' + P'[k].width < DSize
  BY <1>1, <1>2, <1>6 DEF DataOfLines
<1> QED
  BY <1>5, <1>6 DEF DataOfLines

LEMMA SetsNext ==
  ASSUME NEW n \in Nat \ {0}, NEW r, ~(IsKind(n, "set") /\ P[n].dst = r)
  PROVE  SetsOf(r, n + 1) = SetsOf(r, n)
<1>1. \A k : k \in 1 .. (n + 1) - 1 /\ IsKind(k, "set") /\ P[k].dst = r <=>
             k \in 1 .. n - 1 /\ IsKind(k, "set") /\ P[k].dst = r
  BY OneMore
<1> QED
  BY <1>1 DEF SetsOf

LEMMA SetToKept ==
  ASSUME P' = P, LabelsGrow, NEW n \in Nat \ {0}, LabelsOf(n), RegsOfLines(n),
         NEW k \in 1 .. n - 1, IsKind(k, "set")
  PROVE  SetTo(k)' = SetTo(k)
<1>1. CASE P[k].label = NoLabel
  BY <1>1 DEF SetTo
<1>2. CASE P[k].label # NoLabel
  <2>1. PICK j \in 1 .. k - 1 : IsKind(j, "label") /\ P[j].label = P[k].label
    BY <1>2 DEF RegsOfLines
  <2>2. j \in 1 .. n - 1
    OBVIOUS
  <2>3. P[k].label \in DOMAIN labels
    BY <2>1, <2>2 DEF LabelsOf
  <2> QED
    BY <2>3 DEF SetTo, LabelsGrow
<1> QED
  BY <1>1, <1>2

LEMMA RegsNext ==
  ASSUME P' = P, LabelsGrow, mregs' = mregs, NEW n \in Nat \ {0}, LabelsOf(n),
         RegsOfLines(n), ~IsKind(n, "set")
  PROVE  RegsOfLines(n + 1)'
<1>1. \A k : k \in 1 .. (n + 1) - 1 /\ IsKind(k, "set") <=>
             k \in 1 .. n - 1 /\ IsKind(k, "set")
  BY OneMore
<1>2. \A k, kind : IsKind(k, kind)' <=> IsKind(k, kind)
  BY DEF IsKind
<1>3. ASSUME NEW k \in 1 .. (n + 1) - 1, IsKind(k, "set")', P'[k].label # NoLabel
      PROVE  \E j \in 1 .. k - 1 : IsKind(j, "label")' /\ P'[j].label = P'[k].label
  <2>1. \E j \in 1 .. k - 1 : IsKind(j, "label") /\ P[j].label = P[k].label
    BY <1>1, <1>2, <1>3 DEF RegsOfLines
  <2> QED
    BY <1>2, <2>1
<1>4. ASSUME NEW r \in Reg
      PROVE  IF r = RZ \/ SetsOf(r, n + 1)' = {} THEN mregs'[r] = 0
             ELSE \E k \in 1 .. (n + 1) - 1 : LastSet(r, n + 1, k)' /\ mregs'[r] = SetTo(k)'
  <2>1. SetsOf(r, n + 1)' = SetsOf(r, n + 1)
    BY <1>2 DEF SetsOf
  <2>2. SetsOf(r, n + 1) = SetsOf(r, n)
    BY SetsNext
  <2>3. \A k : LastSet(r, n + 1, k)' <=> LastSet(r, n, k)
    BY <2>1, <2>2 DEF LastSet
  <2>4. CASE r = RZ \/ SetsOf(r, n) = {}
    BY <2>1, <2>2, <2>4 DEF RegsOfLines
  <2>5. CASE ~(r = RZ \/ SetsOf(r, n) = {})
    <3>1. PICK k \in 1 .. n - 1 : LastSet(r, n, k) /\ mregs[r] = SetTo(k)
      BY <2>5 DEF RegsOfLines
    <3>2. IsKind(k, "set")
      BY <3>1 DEF LastSet, SetsOf
    <3>3. SetTo(k)' = SetTo(k) /\ k \in 1 .. (n + 1) - 1
      BY <3>2, SetToKept
    <3> QED
      BY <2>1, <2>2, <2>3, <2>5, <3>1, <3>3
  <2> QED
    BY <2>4, <2>5
<1> QED
  BY <1>3, <1>4 DEF RegsOfLines

(* The next line begins.                                                   *)
LEMMA NextLine ==
  ASSUME Typed, src' = src, result = "run", result' = result, NEW n \in 1 .. Len(src),
         stack' # << >>, Head(stack') = "START", pos' = << n + 1, 1 >>, cmd' = NoCmd,
         Before(n + 1)'
  PROVE  Right'
<1>1. n + 1 \in 1 .. Len(src') + 1
  BY DEF Typed
<1>2. AtLine(n + 1)'
  BY <1>1 DEF AtLine
<1> QED
  BY <1>1, <1>2 DEF Right, Deep, InLine

LEMMA AfterCommandIn ==
  ASSUME Typed, Right, In("FINISH")
  PROVE  /\ result = "run" /\ stack # << >> /\ Head(stack) = "FINISH" /\ Len(stack) >= 2
         /\ \E n \in 1 .. Len(src) : AfterCommand(n)
<1>1. \A n : InCommand(n) => Head(stack) # "FINISH"
  BY MidwayExpected DEF InCommand
<1> QED
  BY <1>1 DEF Right, In, InLine, AtLine, AfterCommand, InMacro, Deep

LEMMA AheadOfCode ==
  ASSUME Based, NEW n \in Nat \ {0}, NEW k \in 1 .. n - 1, IsKind(k, "cmd")
  PROVE  CodeAt(k) # CodeAt(n)
<1>1. k \in Nat /\ 1 <= k /\ k < n
  OBVIOUS
<1>2. CodeUpTo(P, k) + 4 <= CodeUpTo(P, n)
  BY <1>1, CodeUpToGrows DEF IsKind
<1>3. CodeUpTo(P, k) \in Nat /\ CodeUpTo(P, n) \in Nat
  BY <1>1, UpToNat
<1> QED
  BY <1>2, <1>3 DEF CodeAt, Based

LEMMA FinishRight ==
  ASSUME IInv, Based, Clean, Right, Finish
  PROVE  Right'
<1>1. /\ In("FINISH") /\ codeOff + 4 < CSize /\ code' = Put(code, codeOff, Command)
      /\ codeOff' = codeOff + 4 /\ cmd' = NoCmd /\ stack' = Tail(stack)
      /\ src' = src /\ pos' = pos /\ start' = start /\ result' = result
      /\ labels' = labels /\ fixes' = fixes /\ dataOff' = dataOff /\ cur' = cur
      /\ data' = data /\ mregs' = mregs
  BY DEF Finish
<1>2. Typed /\ Shape /\ cmd \in CmdType
  BY CmdTyped DEF IInv
<1>3. /\ result = "run" /\ stack # << >> /\ Head(stack) = "FINISH" /\ Len(stack) >= 2
  BY <1>1, <1>2, AfterCommandIn
<1>4. PICK n \in 1 .. Len(src) : AfterCommand(n)
  BY <1>1, <1>2, AfterCommandIn
<1>5. /\ pos = << n + 1, 1 >> /\ IsKind(n, "cmd") /\ Operands(cmd, P[n])
      /\ OperandOf(n) /\ Before(n)
  BY <1>4 DEF AfterCommand
<1>6. P' = P /\ C0' = C0 /\ D0' = D0 /\ n \in Nat \ {0}
  BY <1>1, TextKept
<1>7. stack' # << >> /\ Head(stack') = "START"
  BY <1>1, <1>2, <1>3, BelowStart
<1>8. ~IsKind(n, "label") /\ ~IsKind(n, "cell") /\ ~IsKind(n, "set")
      /\ P[n].kind \notin {"code", "data"}
  BY <1>5 DEF IsKind
<1>9. LabelsGrow
  BY <1>1 DEF LabelsGrow
<1>10. OffsetsOf(n) /\ LabelsOf(n) /\ CodeOfLines(n) /\ FixesOfLines /\ DataOfLines(n)
       /\ RegsOfLines(n)
  BY <1>5 DEF Before
<1>11. codeOff = CodeAt(n) /\ dataOff = DataAt(n)
  BY <1>10 DEF OffsetsOf
<1>12. CodeUpTo(P, n) \in Nat /\ DataUpTo(P, n) \in Nat /\ C0 \in Nat /\ D0 \in Nat
  BY <1>6, UpToNat DEF Based
<1>13. OffsetsOf(n + 1)'
  <2>0. n \in Nat /\ n >= 1 /\ P[n].kind = "cmd"
    BY <1>5, <1>6 DEF IsKind
  <2>1. CodeUpTo(P, n + 1) = CodeUpTo(P, n) + 4
    BY <2>0, CodeUpToNext
  <2>2. DataUpTo(P, n + 1) = DataUpTo(P, n)
    BY <1>6, <1>8, <1>12, DataAtNext
  <2>3. InData(P, n + 1) <=> InData(P, n)
    BY <1>6, <1>8, InDataNext
  <2>4. codeOff' = CodeAt(n + 1)'
    BY <1>1, <1>6, <1>11, <1>12, <2>1 DEF CodeAt
  <2>5. dataOff' = DataAt(n + 1)'
    BY <1>1, <1>6, <1>11, <2>2 DEF DataAt
  <2>6. cur' = IF InData(P', n + 1) THEN "data" ELSE "code"
    BY <1>1, <1>6, <1>10, <2>3 DEF OffsetsOf
  <2> QED
    BY <2>4, <2>5, <2>6 DEF OffsetsOf
<1>14. CodeOfLines(n + 1)'
  <2>1. /\ DOMAIN code' = DOMAIN code \cup {CodeAt(n)} /\ code'[CodeAt(n)] = Command
        /\ \A x \in DOMAIN code : x # CodeAt(n) => code'[x] = code[x]
    <3>1. code' = Put(code, CodeAt(n), Command)
      BY <1>1, <1>11
    <3> DEFINE o == CodeAt(n)
               c == Command
    <3>2. code' = Put(code, o, c)
      BY <3>1
    <3> HIDE DEF o, c
    <3>3. /\ DOMAIN code' = DOMAIN code \cup {o} /\ code'[o] = c
          /\ \A x \in DOMAIN code : x # o => code'[x] = code[x]
      BY <3>2 DEF Put
    <3> QED
      BY <3>3 DEF o, c
  <2>2. \A k : (IsKind(k, "cmd")' <=> IsKind(k, "cmd")) /\ CodeAt(k)' = CodeAt(k)
    BY <1>6 DEF IsKind, CodeAt
  <2>3. ASSUME NEW o \in DOMAIN code'
        PROVE  \E k \in 1 .. (n + 1) - 1 : IsKind(k, "cmd")' /\ o = CodeAt(k)'
    <3>1. CASE o \in DOMAIN code
      <4>1. PICK k \in 1 .. n - 1 : IsKind(k, "cmd") /\ o = CodeAt(k)
        BY <1>10, <3>1 DEF CodeOfLines
      <4>2. k \in 1 .. (n + 1) - 1
        BY <1>6, OneMore
      <4> QED
        BY <2>2, <4>1, <4>2
    <3>2. CASE o = CodeAt(n)
      <4>1. n \in 1 .. (n + 1) - 1
        BY <1>6, OneMore
      <4> QED
        BY <1>5, <2>2, <3>2, <4>1
    <3> QED
      BY <2>1, <3>1, <3>2
  <2>4. ASSUME NEW k \in 1 .. n - 1, IsKind(k, "cmd")
        PROVE  Laid(k)'
    <3>1. Laid(k) /\ CodeAt(k) \in DOMAIN code
      BY <1>10, <2>4 DEF CodeOfLines, Laid
    <3>2. CodeAt(k) # CodeAt(n)
      BY <1>6, <2>4, AheadOfCode
    <3>3. CodeAt(k) \in DOMAIN code' /\ code'[CodeAt(k)] = code[CodeAt(k)]
      BY <2>1, <3>1, <3>2
    <3> QED
      BY <1>1, <1>6, <1>9, <3>1, <3>3, LaidKept
  <2>5. Laid(n)'
    <3> DEFINE v == Packed(cmd.imm * cmd.sign)
               l == P[n].label
    <3>1. code'[CodeAt(n)] = CommandOf(P[n], v)
      BY <1>5, <2>1 DEF Command, CommandOf, Operands
    <3> HIDE DEF v
    <3>2. code'[CodeAt(n)].imm = v
      BY <3>1 DEF CommandOf
    <3>3. l = NoLabel => P[n].imm \in ImmMin .. ImmMax /\ v = Packed(P[n].imm)
      BY <1>5 DEF OperandOf, v
    <3>4. l # NoLabel =>
            \/ << l, CodeAt(n) >> \in fixes
            \/ l \in DOMAIN labels /\ labels[l] <= ImmMax /\ v = Packed(labels[l])
      <4> SUFFICES ASSUME l # NoLabel, << l, CodeAt(n) >> \notin fixes
                   PROVE  l \in DOMAIN labels /\ labels[l] <= ImmMax /\ v = Packed(labels[l])
        OBVIOUS
      <4>1. /\ l \in DOMAIN labels /\ labels[l] <= ImmMax
            /\ cmd.imm = labels[l] /\ cmd.sign = 1
        BY <1>5 DEF OperandOf
      <4>2. labels[l] \in Nat
        BY <1>2, <4>1 DEF Typed, TypeOK
      <4>3. cmd.imm * cmd.sign = labels[l]
        BY <4>1, <4>2
      <4> QED
        BY <4>1, <4>3 DEF v
    <3>5. code'[CodeAt(n)] = CommandOf(P[n], code'[CodeAt(n)].imm)
      BY <3>1, <3>2
    <3>6. CodeAt(n) \in DOMAIN code' /\ CodeAt(n) + 4 < CSize
      BY <1>1, <1>11, <2>1
    <3> HIDE DEF l
    <3>7. CodeAt(n)' = CodeAt(n) /\ P'[n].label = l
      BY <1>6, <2>2 DEF l
    <3> QED
      BY <1>1, <1>6, <3>2, <3>3, <3>4, <3>5, <3>6, <3>7 DEF Laid, Exact, Named
  <2>6. ASSUME NEW k \in 1 .. (n + 1) - 1, IsKind(k, "cmd")'
        PROVE  Laid(k)'
    BY <1>6, <2>2, <2>4, <2>5, <2>6, OneMore
  <2> QED
    BY <2>3, <2>6 DEF CodeOfLines
<1>15. Before(n + 1)'
  BY <1>1, <1>6, <1>8, <1>9, <1>10, <1>13, <1>14, LabelsNext, FixesNext, DataNext, RegsNext
     DEF Before
<1> QED
  BY <1>1, <1>2, <1>3, <1>5, <1>7, <1>15, NextLine

(* No room for a command, or for a cell.                                   *)
LEMMA FullWrong ==
  ASSUME Typed, NEW n \in 1 .. Len(src),
         \/ IsKind(n, "cmd") /\ ~(CodeAt(n) + 4 < CSize)
         \/ IsKind(n, "cell") /\ ~(DataAt(n) + P[n].width < DSize)
  PROVE  Wrong
<1>1. n \in DOMAIN P
  BY DEF P, Meaning, Typed
<1> SUFFICES ASSUME Room(P, C0, D0)
             PROVE  FALSE
  BY DEF Wrong
<1>2. /\ IsKind(n, "cmd") => CodeAt(n) + 4 < CSize
      /\ IsKind(n, "cell") => DataAt(n) + P[n].width < DSize
  BY <1>1 DEF Room, IsKind, CodeAt, DataAt
<1> QED
  BY <1>2

LEMMA FinishThrowsRight ==
  ASSUME Typed, Based, Clean, Right, FinishThrows
  PROVE  Lost'
<1>1. /\ In("FINISH") /\ codeOff + 4 >= CSize /\ result' = "thrown" /\ src' = src
      /\ start' = start
  BY DEF FinishThrows, Throw
<1>2. PICK n \in 1 .. Len(src) : AfterCommand(n)
  BY <1>1, AfterCommandIn
<1>3. IsKind(n, "cmd") /\ codeOff = CodeAt(n) /\ n \in Nat
  BY <1>2 DEF AfterCommand, Before, OffsetsOf
<1>4. CodeAt(n) \in Int /\ CSize \in Int
  BY <1>3, UpToNat, SizeAssumption DEF CodeAt, Based
<1>5. Wrong
  BY <1>1, <1>3, <1>4, FullWrong
<1> QED
  BY <1>1, <1>5, EndLost

-----------------------------------------------------------------------------
(***************************************************************************)
(* Macros, on a line that is written as it is meant.                       *)
(***************************************************************************)
LEMMA MacroSays ==
  ASSUME NEW t, NEW m, SaysMacro(t, m)
  PROVE  /\ 2 \in DOMAIN t /\ t[2].type \in Numbers \cup {"word", "reg"}
         /\ t[2].type \in Numbers =>
              /\ m.kind = "cell" /\ Len(t) = 2
              /\ m.width = Width(t[2].type) /\ m.imm = InCell(m.width, t[2].num)
         /\ t[2].type = "word" =>
              /\ Len(t) = 2
              /\ t[2].opr \in {"code", "data"} => m.kind = t[2].opr
              /\ t[2].opr \notin {"code", "data"} => m.kind = "label" /\ m.label = t[2].opr
         /\ t[2].type = "reg" =>
              /\ m.kind = "set" /\ Len(t) = 3 /\ t[2].reg = m.dst
              /\ IF m.label = NoLabel THEN Has(t, 3, Numbers) /\ t[3].num = m.imm
                 ELSE Has(t, 3, {"word"}) /\ t[3].opr = m.label
BY DEF SaysMacro, Has, Numbers

(* Line n, a macro, is read.                                               *)
Reads(n) ==
  /\ n \in 1 .. Len(src) /\ n \in Nat \ {0}
  /\ pos[1] = n /\ pos[2] = 2 /\ pos = << n, 2 >>
  /\ SaysMacro(src[n].text, P[n]) /\ cmd = NoCmd /\ Before(n)
  /\ ~IsEof(pos) /\ At(pos) = src[n].text[2] /\ Type(pos) = src[n].text[2].type
  /\ At(pos) \in Token /\ src[n].text \in Seq(Token)
  /\ result = "run" /\ stack # << >> /\ Head(stack) = "MACRO" /\ Len(stack) >= 2

LEMMA ReadsLine ==
  ASSUME Typed, Clean, Right, In("MACRO")
  PROVE  \E n : Reads(n)
<1>1. \A n : InCommand(n) => Head(stack) # "MACRO"
  BY MidwayExpected DEF InCommand
<1>2. /\ result = "run" /\ stack # << >> /\ Head(stack) = "MACRO" /\ Len(stack) >= 2
      /\ \E n \in 1 .. Len(src) : InMacro(n)
  BY <1>1 DEF Right, In, InLine, AtLine, AfterCommand, InMacro, Deep
<1>3. PICK n \in 1 .. Len(src) : InMacro(n)
  BY <1>2
<1>4. /\ pos = << n, 2 >> /\ SaysMacro(src[n].text, P[n]) /\ cmd = NoCmd /\ Before(n)
  BY <1>3 DEF InMacro
<1>5. pos[1] = n /\ pos[2] = 2 /\ n \in Nat \ {0}
  BY <1>4
<1>6. /\ ~IsEof(pos) /\ At(pos) = src[n].text[2] /\ Type(pos) = src[n].text[2].type
      /\ At(pos) \in Token /\ src[n].text \in Seq(Token)
  BY <1>5, FrontIs, LineIs
<1> QED
  BY <1>2, <1>4, <1>5, <1>6 DEF Reads

(* The last token of the line is taken.                                    *)
LEMMA MacroEndsRight ==
  ASSUME Typed, Shape, NEW n, Reads(n), NEW q, q = << n, Len(src[n].text) >>, MacroEnds(q),
         src' = src, result' = result, cmd' = cmd, Before(n + 1)'
  PROVE  Right'
<1>1. n \in 1 .. Len(src) /\ result = "run" /\ cmd = NoCmd /\ stack # << >>
      /\ Len(stack) >= 2 /\ Head(stack) # "BAD_END" /\ src[n].text \in Seq(Token)
  BY DEF Reads
<1>2. q[1] = n /\ q[2] = Len(src[n].text) /\ Len(src[n].text) \in Nat
  BY <1>1
<1>3. Behind(q) = << n + 1, 1 >>
  BY <1>2 DEF Behind
<1>4. pos' = << n + 1, 1 >>
  BY <1>3 DEF MacroEnds
<1>5. Tail(stack) # << >> /\ Head(Tail(stack)) = "START" /\ Tail(stack) \in Seq(State)
  BY <1>1, BelowStart
<1>6. stack' # << >> /\ Head(stack') = "START"
  <2>1. CASE HasNext(q)
    BY <1>5, <2>1 DEF MacroEnds
  <2>2. CASE ~HasNext(q)
    <3>1. stack' = << "START" >> \o Tail(stack)
      BY <2>2 DEF MacroEnds, MacroFails, Top
    <3> QED
      BY <1>5, <3>1, StackFacts, StateNames
  <2> QED
    BY <2>1, <2>2
<1> QED
  BY <1>1, <1>4, <1>6, NextLine

(* An error is forgotten.                                                  *)
LEMMA MacroFailsLost ==
  ASSUME Typed, Shape, NEW n, Reads(n), MacroFails, src' = src, start' = start,
         result' = result, Wrong, pos' = << n, Len(src[n].text) >>,
         src[n].text[Len(src[n].text)].type = "word"
  PROVE  Lost'
<1>1. n \in 1 .. Len(src) /\ result = "run" /\ stack # << >>
      /\ Len(stack) >= 2 /\ Head(stack) # "BAD_END" /\ src[n].text \in Seq(Token)
  BY DEF Reads
<1>2. Tail(stack) \in Seq(State) /\ stack' = << "START" >> \o Tail(stack)
  BY <1>1, BelowStart DEF MacroFails, Top
<1>3. stack' # << >> /\ Head(stack') = "START"
  BY <1>2, StackFacts, StateNames
<1>4. pos'[1] = n /\ pos'[2] = Len(src[n].text)
  OBVIOUS
<1>5. Type(pos)' = "word"
  <2>1. ~IsEof(pos)'
    BY <1>1, <1>4 DEF IsEof, Typed
  <2> QED
    BY <1>4, <2>1 DEF Type, At
<1>6. Astray'
  BY <1>3, <1>4, <1>5 DEF Astray
<1> QED
  BY <1>1, <1>3, <1>6, TextKept DEF Lost

LEMMA MacroUnexpectedRight ==
  ASSUME Typed, Clean, Right, MacroUnexpected
  PROVE  FALSE
<1>1. In("MACRO") /\ ~Sees(Expected("MACRO"))
  BY DEF MacroUnexpected
<1>2. PICK n : Reads(n)
  BY <1>1, ReadsLine
<1>3. Type(pos) \in Numbers \cup {"word", "reg"}
  BY <1>2, MacroSays DEF Reads
<1> QED
  BY <1>1, <1>3 DEF Sees, Expected

(* What is stored into a cell is read back, in data as in InCell.          *)
LEMMA CellWritten ==
  ASSUME NEW m, NEW o \in Int, NEW w \in {1, 2, 4, 8}, NEW v \in Int,
         \A a \in o .. o + w - 1 : a \in DOMAIN m
  PROVE  GetCell(SetCell(m, o, w, v), o, w) = InCell(w, v)
<1> DEFINE z == [a \in 0 .. 7 |-> 0]
<1>1. \A a \in 0 .. 0 + w - 1 : a \in DOMAIN z
  OBVIOUS
<1> HIDE DEF z
<1>2. GetCell(SetCell(z, 0, w, v), 0, w) = Signed(v % (2 * HalfOf(w)), HalfOf(w))
  <2>1. 0 \in Int
    OBVIOUS
  <2> QED
    BY <1>1, <2>1, StoredCell
<1>3. GetCell(SetCell(m, o, w, v), o, w) = Signed(v % (2 * HalfOf(w)), HalfOf(w))
  BY StoredCell
<1> QED
  BY <1>2, <1>3 DEF InCell, z

LEMMA CellKept ==
  ASSUME NEW m, NEW o \in Int, NEW w \in {1, 2, 4, 8}, NEW v,
         NEW k \in Int, NEW u \in {1, 2, 4, 8}, k + u <= o,
         \A a \in k .. k + u - 1 : a \in DOMAIN m
  PROVE  GetCell(SetCell(m, o, w, v), k, u) = GetCell(m, k, u)
<1> DEFINE f == SetCell(m, o, w, v)
<1>1. \A a \in k .. k + u - 1 : f[a] = m[a]
  BY DEF SetCell
<1> HIDE DEF f
<1>2. GetCell(f, k, u) = GetCell(m, k, u)
  BY <1>1, SameCell
<1> QED
  BY <1>2 DEF f

(* Every cell is of a width that cells have.                               *)
LEMMA CellWidth ==
  ASSUME Typed, Clean, NEW k \in 1 .. Len(src), IsKind(k, "cell")
  PROVE  P[k].width \in {1, 2, 4, 8}
<1>1. P[k].kind # "cmd" /\ SaysMacro(src[k].text, P[k])
  BY LineIs DEF IsKind
<1>2. P[k].kind = "cell"
  BY DEF IsKind
<1>3. src[k].text[2].type \in Numbers /\ P[k].width = Width(src[k].text[2].type)
  BY <1>1, <1>2 DEF SaysMacro, Has
<1> QED
  BY <1>3, WidthOf

LEMMA MacroNumberRight ==
  ASSUME IInv, Based, Clean, Right, MacroNumber
  PROVE  Right'
<1>1. /\ In("MACRO") /\ Sees(Numbers) /\ MacroEnds(pos)
      /\ src' = src /\ start' = start /\ result' = result /\ cmd' = cmd
      /\ labels' = labels /\ fixes' = fixes /\ codeOff' = codeOff /\ cur' = cur
      /\ code' = code /\ mregs' = mregs
  BY DEF MacroNumber
<1>2. Typed /\ Shape
  BY DEF IInv
<1>3. PICK n : Reads(n)
  BY <1>1, <1>2, ReadsLine
<1>4. /\ n \in 1 .. Len(src) /\ n \in Nat \ {0} /\ pos = << n, 2 >> /\ Before(n)
      /\ At(pos) = src[n].text[2] /\ Type(pos) = src[n].text[2].type /\ At(pos) \in Token
      /\ SaysMacro(src[n].text, P[n])
  BY <1>3 DEF Reads
<1>0. n \in Nat /\ n >= 1 /\ n \in Nat \ {0}
  BY <1>3 DEF Reads
<1> DEFINE w == P[n].width
           v == At(pos).num
           a == DataAt(n)
<1>5. /\ IsKind(n, "cell") /\ Len(src[n].text) = 2
      /\ w = Width(Type(pos)) /\ P[n].imm = InCell(w, v)
  BY <1>1, <1>4, MacroSays DEF Sees, IsKind
<1>6. w \in {1, 2, 4, 8}
  BY <1>1, <1>5, WidthOf DEF Sees
<1>7. v \in Int
  BY <1>4, WordInt DEF Token
<1>8. P' = P /\ C0' = C0 /\ D0' = D0
  BY <1>1, TextKept
<1>9. OffsetsOf(n) /\ LabelsOf(n) /\ CodeOfLines(n) /\ FixesOfLines /\ DataOfLines(n)
      /\ RegsOfLines(n)
  BY <1>4 DEF Before
<1>10. dataOff = a /\ a \in Nat /\ CodeUpTo(P, n) \in Nat
  BY <1>4, <1>9, UpToNat DEF OffsetsOf, DataAt, Based
<1>11. a + w < DSize /\ data' = SetCell(data, a, w, v) /\ dataOff' = a + w
  BY <1>5, <1>10 DEF MacroNumber
<1>12. ~IsKind(n, "label") /\ ~IsKind(n, "cmd") /\ ~IsKind(n, "set")
       /\ P[n].kind \notin {"code", "data"}
  BY <1>5 DEF IsKind
<1>13. LabelsGrow
  BY <1>1 DEF LabelsGrow
<1>14. DataAt(n + 1)' = a + w
  <2>1. DataUpTo(P, n + 1) = DataUpTo(P, n) + w
    BY <1>4, <1>5, <1>6, DataAtNext
  <2>2. DataUpTo(P, n) \in Nat /\ D0 \in Nat
    BY <1>4, UpToNat DEF Based
  <2> HIDE DEF w
  <2>3. D0 + (DataUpTo(P, n) + w) = (D0 + DataUpTo(P, n)) + w
    BY <1>6, <2>2
  <2> QED
    BY <1>8, <2>1, <2>3 DEF DataAt
<1>15. OffsetsOf(n + 1)'
  <2>1. CodeUpTo(P, n + 1) = CodeUpTo(P, n)
    BY <1>0, <1>10, <1>12, CodeUpToNext DEF IsKind
  <2>2. InData(P, n + 1) <=> InData(P, n)
    BY <1>0, <1>12, InDataNext
  <2>3. codeOff' = CodeAt(n + 1)'
    BY <1>1, <1>8, <1>9, <2>1 DEF OffsetsOf, CodeAt
  <2>4. dataOff' = DataAt(n + 1)'
    BY <1>11, <1>14
  <2>5. cur' = IF InData(P', n + 1) THEN "data" ELSE "code"
    BY <1>1, <1>8, <1>9, <2>2 DEF OffsetsOf
  <2> QED
    BY <2>3, <2>4, <2>5 DEF OffsetsOf
<1>16. data \in [0 .. DSize - 1 -> ByteVal] /\ DSize \in Nat
  BY <1>2, SizeAssumption DEF Typed, TypeOK
<1>17. ASSUME NEW k \in 1 .. n - 1, IsKind(k, "cell")
       PROVE  /\ GetCell(data', DataAt(k), P[k].width) = P[k].imm
              /\ DataAt(k) + P[k].width < DSize
  <2> DEFINE u == P[k].width
             b == DataAt(k)
  <2>1. k \in 1 .. Len(src) /\ k \in Nat /\ 1 <= k /\ k < n
    BY <1>4, <1>2 DEF Typed
  <2>2. u \in {1, 2, 4, 8}
    BY <1>2, <1>17, <2>1, CellWidth
  <2>3. GetCell(data, b, u) = P[k].imm /\ b + u < DSize
    BY <1>9, <1>17 DEF DataOfLines
  <2>4. b \in Nat /\ b + u <= a
    <3>1. DataUpTo(P, k) + u <= DataUpTo(P, n)
      BY <1>4, <1>17, <2>1, <2>2, DataUpToGrows DEF IsKind
    <3>2. DataUpTo(P, k) \in Nat /\ DataUpTo(P, n) \in Nat /\ D0 \in Nat
      BY <1>4, <2>1, UpToNat DEF Based
    <3>3. b = D0 + DataUpTo(P, k) /\ a = D0 + DataUpTo(P, n)
      BY DEF DataAt
    <3> HIDE DEF u, a, b
    <3> QED
      BY <2>2, <3>1, <3>2, <3>3
  <2> HIDE DEF u, b, a, w, v
  <2>5. \A x \in b .. b + u - 1 : x \in DOMAIN data
    BY <1>16, <2>2, <2>3, <2>4
  <2>6. a \in Int /\ b \in Int
    BY <1>10, <2>4
  <2>7. GetCell(SetCell(data, a, w, v), b, u) = GetCell(data, b, u)
    BY <1>6, <2>2, <2>4, <2>5, <2>6, CellKept
  <2>8. GetCell(data', b, u) = P[k].imm
    BY <1>11, <2>3, <2>7
  <2> QED
    BY <2>3, <2>8 DEF u, b
<1>18. GetCell(data', a, w) = P[n].imm
  <2> HIDE DEF a, w, v
  <2>1. \A x \in a .. a + w - 1 : x \in DOMAIN data
    BY <1>6, <1>10, <1>11, <1>16
  <2>2. a \in Int
    BY <1>10
  <2> QED
    BY <1>5, <1>6, <1>7, <1>11, <2>1, <2>2, CellWritten
<1>19. \A o \in DOMAIN data' : o \notin D0' .. DataAt(n + 1)' - 1 => data'[o] = 0
  <2> DEFINE b == a + w
  <2>0. DataAt(n + 1)' = b
    BY <1>14
  <2> HIDE DEF b
  <2> SUFFICES \A o \in DOMAIN data' : o \notin D0 .. b - 1 => data'[o] = 0
    BY <1>8, <2>0
  <2>1. D0 \in Nat /\ D0 <= a
    BY <1>4, UpToNat DEF Based, DataAt
  <2>2. \A o \in DOMAIN data : o \notin D0 .. a - 1 => data[o] = 0
    BY <1>9 DEF DataOfLines
  <2> HIDE DEF a, w, v
  <2>3. DOMAIN data' = DOMAIN data /\ \A o \in DOMAIN data : o \notin a .. a + w - 1 => data'[o] = data[o]
    BY <1>11 DEF SetCell
  <2>4. ASSUME NEW o \in DOMAIN data, o \notin D0 .. a + w - 1
        PROVE  data'[o] = 0
    <3>1. o \in Int
      BY <1>16
    <3>2. o \notin D0 .. a - 1 /\ o \notin a .. a + w - 1
      BY <1>6, <1>10, <2>1, <2>4, <3>1
    <3> QED
      BY <2>2, <2>3, <3>2
  <2> QED
    BY <1>6, <1>10, <2>1, <2>3, <2>4 DEF b
<1>20. DataOfLines(n + 1)'
  <2>1. \A k : (IsKind(k, "cell")' <=> IsKind(k, "cell")) /\ DataAt(k)' = DataAt(k)
    BY <1>8 DEF IsKind, DataAt
  <2>2. ASSUME NEW k \in 1 .. (n + 1) - 1, IsKind(k, "cell")'
        PROVE  /\ GetCell(data', DataAt(k)', P'[k].width) = P'[k].imm
               /\ DataAt(k)' + P'[k].width < DSize
    <3>1. CASE k = n
      BY <1>8, <1>11, <1>18, <2>1, <3>1
    <3>2. CASE k # n
      <4>1. k \in 1 .. n - 1
        BY <1>4, <3>2, OneMore
      <4> QED
        BY <1>8, <1>17, <2>1, <2>2, <4>1
    <3> QED
      BY <3>1, <3>2
  <2> QED
    BY <1>19, <2>2 DEF DataOfLines
<1>21. Before(n + 1)'
  BY <1>1, <1>4, <1>8, <1>9, <1>12, <1>13, <1>15, <1>20, LabelsNext, CodeNext, FixesNext, RegsNext
     DEF Before
<1>22. pos = << n, Len(src[n].text) >>
  BY <1>4, <1>5
<1> QED
  BY <1>1, <1>2, <1>3, <1>21, <1>22, MacroEndsRight

LEMMA MacroThrowsRight ==
  ASSUME Typed, Based, Clean, Right, MacroThrows
  PROVE  Lost'
<1>1. /\ In("MACRO") /\ Sees(Numbers) /\ dataOff + Width(Type(pos)) >= DSize
      /\ result' = "thrown" /\ src' = src /\ start' = start
  BY DEF MacroThrows, Throw
<1>2. PICK n : Reads(n)
  BY <1>1, ReadsLine
<1>3. /\ n \in 1 .. Len(src) /\ n \in Nat /\ Type(pos) = src[n].text[2].type
      /\ SaysMacro(src[n].text, P[n]) /\ dataOff = DataAt(n)
  BY <1>2 DEF Reads, Before, OffsetsOf
<1>4. IsKind(n, "cell") /\ P[n].width = Width(Type(pos)) /\ P[n].width \in {1, 2, 4, 8}
  BY <1>1, <1>3, MacroSays, WidthOf DEF Sees, IsKind
<1>5. DataAt(n) \in Int /\ DSize \in Int
  BY <1>3, UpToNat, SizeAssumption DEF DataAt, Based
<1>6. ~(DataAt(n) + P[n].width < DSize)
  BY <1>1, <1>3, <1>4, <1>5
<1>7. Wrong
  BY <1>3, <1>4, <1>6, FullWrong
<1> QED
  BY <1>1, <1>7, EndLost

LEMMA MacroSectionRight ==
  ASSUME IInv, Clean, Right, MacroSection
  PROVE  Right'
<1>1. /\ In("MACRO") /\ Sees({"word"}) /\ At(pos).opr \in {"code", "data"}
      /\ cur' = At(pos).opr /\ MacroEnds(pos)
      /\ src' = src /\ start' = start /\ result' = result /\ cmd' = cmd
      /\ labels' = labels /\ fixes' = fixes /\ codeOff' = codeOff /\ dataOff' = dataOff
      /\ code' = code /\ data' = data /\ mregs' = mregs
  BY DEF MacroSection, memory
<1>2. Typed /\ Shape
  BY DEF IInv
<1>3. PICK n : Reads(n)
  BY <1>1, <1>2, ReadsLine
<1>4. /\ n \in 1 .. Len(src) /\ n \in Nat \ {0} /\ pos = << n, 2 >> /\ Before(n)
      /\ At(pos) = src[n].text[2] /\ Type(pos) = src[n].text[2].type
      /\ SaysMacro(src[n].text, P[n])
  BY <1>3 DEF Reads
<1>0. n \in Nat /\ n >= 1 /\ n \in Nat \ {0}
  BY <1>3 DEF Reads
<1>5. Len(src[n].text) = 2 /\ P[n].kind = At(pos).opr
  BY <1>1, <1>4, MacroSays DEF Sees
<1>6. ~IsKind(n, "label") /\ ~IsKind(n, "cmd") /\ ~IsKind(n, "set") /\ ~IsKind(n, "cell")
  BY <1>1, <1>5 DEF IsKind
<1>7. P' = P /\ C0' = C0 /\ D0' = D0
  BY <1>1, TextKept
<1>8. OffsetsOf(n) /\ LabelsOf(n) /\ CodeOfLines(n) /\ FixesOfLines /\ DataOfLines(n)
      /\ RegsOfLines(n)
  BY <1>4 DEF Before
<1>9. LabelsGrow
  BY <1>1 DEF LabelsGrow
<1>10. OffsetsOf(n + 1)'
  <2>0. P[n].kind \in {"code", "data"}
    BY <1>1, <1>5
  <2>1. CodeUpTo(P, n) \in Nat /\ DataUpTo(P, n) \in Nat
    BY <1>4, UpToNat
  <2>2. CodeUpTo(P, n + 1) = CodeUpTo(P, n)
    BY <1>0, <1>6, <2>1, CodeUpToNext DEF IsKind
  <2>3. DataUpTo(P, n + 1) = DataUpTo(P, n)
    BY <1>4, <1>6, <2>1, DataAtNext
  <2>4. InData(P, n + 1) <=> P[n].kind = "data"
    BY <1>0, <2>0, InDataNext
  <2>5. codeOff' = CodeAt(n + 1)'
    BY <1>1, <1>7, <1>8, <2>2 DEF OffsetsOf, CodeAt
  <2>6. dataOff' = DataAt(n + 1)'
    BY <1>1, <1>7, <1>8, <2>3 DEF OffsetsOf, DataAt
  <2>7. cur' = IF InData(P', n + 1) THEN "data" ELSE "code"
    BY <1>1, <1>5, <1>7, <2>4
  <2> QED
    BY <2>5, <2>6, <2>7 DEF OffsetsOf
<1>11. Before(n + 1)'
  BY <1>1, <1>4, <1>6, <1>7, <1>8, <1>9, <1>10, LabelsNext, CodeNext, FixesNext, DataNext,
     RegsNext DEF Before
<1>12. pos = << n, Len(src[n].text) >>
  BY <1>4, <1>5
<1> QED
  BY <1>1, <1>2, <1>3, <1>11, <1>12, MacroEndsRight

(* A line that is neither a command, a cell nor a switch of the section.   *)
LEMMA OffsetsNext ==
  ASSUME P' = P, C0' = C0, D0' = D0, codeOff' = codeOff, dataOff' = dataOff, cur' = cur,
         NEW n \in Nat \ {0}, P[n].kind \in {"label", "set"}, OffsetsOf(n)
  PROVE  OffsetsOf(n + 1)'
<1>1. n \in Nat /\ n >= 1
  OBVIOUS
<1>2. CodeUpTo(P, n) \in Nat /\ DataUpTo(P, n) \in Nat
  BY <1>1, UpToNat
<1>3. CodeUpTo(P, n + 1) = CodeUpTo(P, n)
  BY <1>1, <1>2, CodeUpToNext
<1>4. DataUpTo(P, n + 1) = DataUpTo(P, n)
  BY <1>1, <1>2, DataUpToNext
<1>5. InData(P, n + 1) <=> InData(P, n)
  BY <1>1, InDataNext
<1>6. codeOff' = CodeAt(n + 1)'
  BY <1>3 DEF OffsetsOf, CodeAt
<1>7. dataOff' = DataAt(n + 1)'
  BY <1>4 DEF OffsetsOf, DataAt
<1>8. cur' = IF InData(P', n + 1) THEN "data" ELSE "code"
  BY <1>5 DEF OffsetsOf
<1> QED
  BY <1>6, <1>7, <1>8 DEF OffsetsOf

LEMMA LabelAdded ==
  ASSUME P' = P, C0' = C0, D0' = D0, NEW n \in Nat \ {0}, LabelsOf(n), IsKind(n, "label"),
         P[n].label \notin DOMAIN labels,
         labels' = Put(labels, P[n].label, Place1(P, n, C0, D0))
  PROVE  LabelsOf(n + 1)' /\ LabelsGrow
<1> DEFINE l == P[n].label
           o == Place1(P, n, C0, D0)
<1>1. /\ DOMAIN labels' = DOMAIN labels \cup {l} /\ labels'[l] = o
      /\ \A x \in DOMAIN labels : labels'[x] = labels[x]
  <2>1. labels' = Put(labels, l, o) /\ l \notin DOMAIN labels
    OBVIOUS
  <2> HIDE DEF l, o
  <2> QED
    BY <2>1 DEF Put
<1>2. \A k : IsKind(k, "label")' <=> IsKind(k, "label")
  BY DEF IsKind
<1>3. \A k : k \in 1 .. (n + 1) - 1 <=> k \in 1 .. n - 1 \/ k = n
  BY OneMore
<1>4. \A x \in DOMAIN labels' :
        \E k \in 1 .. (n + 1) - 1 : IsKind(k, "label")' /\ P'[k].label = x
  BY <1>1, <1>2, <1>3 DEF LabelsOf
<1>5. \A k \in 1 .. n - 1 : IsKind(k, "label") => P[k].label \in DOMAIN labels /\ P[k].label # l
  BY DEF LabelsOf
<1>6. ASSUME NEW k \in 1 .. (n + 1) - 1, IsKind(k, "label")'
      PROVE  /\ P'[k].label \in DOMAIN labels'
             /\ labels'[P'[k].label] = Place1(P', k, C0', D0')
             /\ \A j \in 1 .. (n + 1) - 1 :
                  IsKind(j, "label")' /\ P'[j].label = P'[k].label => j = k
  <2>1. CASE k = n
    BY <1>1, <1>2, <1>3, <1>5, <2>1
  <2>2. CASE k # n
    <3>1. k \in 1 .. n - 1 /\ IsKind(k, "label")
      BY <1>2, <1>3, <1>6, <2>2
    <3>2. /\ P[k].label \in DOMAIN labels
          /\ labels[P[k].label] = Place1(P, k, C0, D0)
          /\ \A j \in 1 .. n - 1 : IsKind(j, "label") /\ P[j].label = P[k].label => j = k
      BY <3>1 DEF LabelsOf
    <3> QED
      BY <1>1, <1>2, <1>3, <1>5, <3>1, <3>2
  <2> QED
    BY <2>1, <2>2
<1>7. LabelsOf(n + 1)'
  BY <1>4, <1>6 DEF LabelsOf
<1> QED
  BY <1>1, <1>7 DEF LabelsGrow

LEMMA MacroLabelRight ==
  ASSUME IInv, Clean, Right, MacroLabel
  PROVE  Right' \/ Lost'
<1>1. /\ In("MACRO") /\ Sees({"word"}) /\ At(pos).opr \notin {"code", "data"}
      /\ src' = src /\ start' = start /\ result' = result /\ cmd' = cmd
      /\ fixes' = fixes /\ codeOff' = codeOff /\ dataOff' = dataOff /\ cur' = cur
      /\ code' = code /\ data' = data /\ mregs' = mregs
  BY DEF MacroLabel, memory
<1>2. Typed /\ Shape
  BY DEF IInv
<1>3. PICK n : Reads(n)
  BY <1>1, <1>2, ReadsLine
<1>4. /\ n \in 1 .. Len(src) /\ n \in Nat \ {0} /\ pos = << n, 2 >> /\ Before(n)
      /\ At(pos) = src[n].text[2] /\ Type(pos) = src[n].text[2].type
      /\ SaysMacro(src[n].text, P[n])
  BY <1>3 DEF Reads
<1>5. /\ Len(src[n].text) = 2 /\ P[n].kind = "label" /\ P[n].label = At(pos).opr
      /\ src[n].text[2].type = "word"
  BY <1>1, <1>4, MacroSays DEF Sees
<1>6. IsKind(n, "label") /\ ~IsKind(n, "cmd") /\ ~IsKind(n, "set") /\ ~IsKind(n, "cell")
  BY <1>5 DEF IsKind
<1>7. P' = P /\ C0' = C0 /\ D0' = D0
  BY <1>1, TextKept
<1>8. OffsetsOf(n) /\ LabelsOf(n) /\ CodeOfLines(n) /\ FixesOfLines /\ DataOfLines(n)
      /\ RegsOfLines(n)
  BY <1>4 DEF Before
<1>9. pos = << n, Len(src[n].text) >>
  BY <1>4, <1>5
<1> DEFINE l == P[n].label
           o == IF cur = "code" THEN codeOff ELSE dataOff
<1>10. CASE l \in DOMAIN labels
  <2>1. MacroFails /\ pos' = pos
    BY <1>5, <1>10 DEF MacroLabel
  <2>2. PICK k \in 1 .. n - 1 : IsKind(k, "label") /\ P[k].label = l
    BY <1>8, <1>10 DEF LabelsOf
  <2>3. k # n /\ k \in DOMAIN P /\ n \in DOMAIN P
    BY <1>2, <1>4 DEF P, Meaning, Typed
  <2>4. Wrong
    <3> SUFFICES ASSUME Legal(P, C0, D0)
                 PROVE  FALSE
      BY DEF Wrong
    <3>1. Definitions(P, l) = {n}
      BY <1>6, <2>3 DEF Legal, IsKind
    <3>2. k \in Definitions(P, l)
      BY <2>2, <2>3 DEF Definitions, IsKind
    <3> QED
      BY <2>3, <3>1, <3>2
  <2>5. Lost'
    BY <1>1, <1>2, <1>3, <1>5, <1>9, <2>1, <2>4, MacroFailsLost
  <2> QED
    BY <2>5
<1>11. CASE l \notin DOMAIN labels
  <2>1. labels' = Put(labels, l, o) /\ MacroEnds(pos)
    BY <1>5, <1>11 DEF MacroLabel
  <2>2. o = Place1(P, n, C0, D0)
    BY <1>8 DEF OffsetsOf, Place1, CodeAt, DataAt
  <2>3. LabelsOf(n + 1)' /\ LabelsGrow
    BY <1>4, <1>6, <1>7, <1>8, <1>11, <2>1, <2>2, LabelAdded
  <2>4. OffsetsOf(n + 1)'
    BY <1>1, <1>4, <1>5, <1>7, <1>8, OffsetsNext
  <2>5. Before(n + 1)'
    BY <1>1, <1>4, <1>6, <1>7, <1>8, <2>3, <2>4, CodeNext, FixesNext, DataNext, RegsNext
       DEF Before
  <2> QED
    BY <1>1, <1>2, <1>3, <1>9, <2>1, <2>5, MacroEndsRight
<1> QED
  BY <1>10, <1>11

LEMMA RegisterSet ==
  ASSUME TypeOK, P' = P, labels' = labels, NEW n \in Nat \ {0}, LabelsOf(n), RegsOfLines(n),
         IsKind(n, "set"), P[n].label # NoLabel => P[n].label \in DOMAIN labels,
         SetReg(P[n].dst, SetTo(n))
  PROVE  RegsOfLines(n + 1)'
<1>1. \A k : k \in 1 .. (n + 1) - 1 <=> k \in 1 .. n - 1 \/ k = n
  BY OneMore
<1>2. \A k, kind : IsKind(k, kind)' <=> IsKind(k, kind)
  BY DEF IsKind
<1>3. LabelsGrow
  BY DEF LabelsGrow
<1>4. ASSUME NEW k \in 1 .. (n + 1) - 1, IsKind(k, "set")', P'[k].label # NoLabel
      PROVE  \E j \in 1 .. k - 1 : IsKind(j, "label")' /\ P'[j].label = P'[k].label
  <2>1. CASE k = n
    <3>1. \E j \in 1 .. n - 1 : IsKind(j, "label") /\ P[j].label = P[n].label
      BY <1>4, <2>1 DEF LabelsOf
    <3> QED
      BY <1>2, <2>1, <3>1
  <2>2. CASE k # n
    <3>1. \E j \in 1 .. k - 1 : IsKind(j, "label") /\ P[j].label = P[k].label
      BY <1>1, <1>2, <1>4, <2>2 DEF RegsOfLines
    <3> QED
      BY <1>2, <3>1
  <2> QED
    BY <2>1, <2>2
<1>5. mregs \in [Reg -> Int] /\ mregs[RZ] = 0
  BY DEF TypeOK
<1> DEFINE d == P[n].dst
           v == SetTo(n)
<1>6. ASSUME NEW r \in Reg
      PROVE  IF r = RZ \/ SetsOf(r, n + 1)' = {} THEN mregs'[r] = 0
             ELSE \E k \in 1 .. (n + 1) - 1 : LastSet(r, n + 1, k)' /\ mregs'[r] = SetTo(k)'
  <2>1. SetsOf(r, n + 1)' = SetsOf(r, n + 1)
    BY <1>2 DEF SetsOf
  <2>2. \A k : LastSet(r, n + 1, k)' <=> LastSet(r, n + 1, k)
    BY <2>1 DEF LastSet
  <2>3. CASE r = RZ
    <3>1. mregs'[RZ] = 0
      <4>1. SetReg(d, v)
        OBVIOUS
      <4> HIDE DEF d, v
      <4> QED
        BY <1>5, <2>3, <4>1 DEF SetReg
    <3> QED
      BY <2>3, <3>1
  <2>4. CASE r # RZ /\ r = d
    <3>1. mregs'[r] = v
      <4>1. SetReg(d, v)
        OBVIOUS
      <4> HIDE DEF d, v
      <4> QED
        BY <1>5, <2>4, <4>1 DEF SetReg
    <3>2. SetTo(n)' = v
      BY DEF SetTo
    <3>3. n \in SetsOf(r, n + 1) /\ \A j \in SetsOf(r, n + 1) : j <= n
      BY <1>1, <2>4 DEF SetsOf
    <3>4. LastSet(r, n + 1, n) /\ n \in 1 .. (n + 1) - 1
      BY <1>1, <3>3 DEF LastSet
    <3> QED
      BY <2>1, <2>2, <2>4, <3>1, <3>2, <3>3, <3>4
  <2>5. CASE r # RZ /\ r # d
    <3>1. mregs'[r] = mregs[r]
      <4>1. SetReg(d, v)
        OBVIOUS
      <4> HIDE DEF d, v
      <4> QED
        BY <1>5, <2>5, <4>1 DEF SetReg
    <3>2. SetsOf(r, n + 1) = SetsOf(r, n)
      BY <2>5, SetsNext
    <3>3. \A k : LastSet(r, n + 1, k) <=> LastSet(r, n, k)
      BY <3>2 DEF LastSet
    <3>4. CASE SetsOf(r, n) = {}
      BY <2>1, <3>1, <3>2, <3>4 DEF RegsOfLines
    <3>5. CASE SetsOf(r, n) # {}
      <4>1. PICK k \in 1 .. n - 1 : LastSet(r, n, k) /\ mregs[r] = SetTo(k)
        BY <2>5, <3>5 DEF RegsOfLines
      <4>2. IsKind(k, "set")
        BY <4>1 DEF LastSet, SetsOf
      <4>3. SetTo(k)' = SetTo(k) /\ k \in 1 .. (n + 1) - 1
        BY <1>1, <1>3, <4>2, SetToKept
      <4> QED
        BY <2>1, <2>2, <2>5, <3>1, <3>2, <3>3, <3>5, <4>1, <4>3
    <3> QED
      BY <3>4, <3>5
  <2> QED
    BY <2>3, <2>4, <2>5
<1> QED
  BY <1>4, <1>6 DEF RegsOfLines

LEMMA MacroRegisterRight ==
  ASSUME IInv, Clean, Right, MacroRegister
  PROVE  Right' \/ Lost'
<1>1. /\ In("MACRO") /\ Sees({"reg"})
      /\ src' = src /\ start' = start /\ result' = result /\ cmd' = cmd
      /\ labels' = labels /\ fixes' = fixes /\ codeOff' = codeOff /\ dataOff' = dataOff
      /\ cur' = cur /\ code' = code /\ data' = data
  BY DEF MacroRegister, tables
<1>2. Typed /\ Shape
  BY DEF IInv
<1>3. PICK n : Reads(n)
  BY <1>1, <1>2, ReadsLine
<1>4. /\ n \in 1 .. Len(src) /\ n \in Nat \ {0} /\ pos = << n, 2 >> /\ Before(n)
      /\ pos[1] = n /\ pos[2] = 2
      /\ At(pos) = src[n].text[2] /\ Type(pos) = src[n].text[2].type
      /\ SaysMacro(src[n].text, P[n])
  BY <1>3 DEF Reads
<1> DEFINE t == src[n].text
           q == << n, 3 >>
<1>5. /\ P[n].kind = "set" /\ Len(t) = 3 /\ At(pos).reg = P[n].dst
      /\ IF P[n].label = NoLabel THEN Has(t, 3, Numbers) /\ t[3].num = P[n].imm
         ELSE Has(t, 3, {"word"}) /\ t[3].opr = P[n].label
  BY <1>1, <1>4, MacroSays DEF Sees
<1>6. Behind(pos) = q /\ q = << n, Len(t) >>
  <2>1. pos[2] < Len(src[pos[1]].text) /\ 2 + 1 = 3
    BY <1>4, <1>5
  <2> QED
    BY <1>4, <1>5, <2>1 DEF Behind
<1>7. At(q) = t[3] /\ Type(q) = t[3].type
  BY <1>2, <1>4 DEF At, Type, IsEof, Typed
<1>8. IsKind(n, "set") /\ ~IsKind(n, "cmd") /\ ~IsKind(n, "label") /\ ~IsKind(n, "cell")
  BY <1>5 DEF IsKind
<1>9. P' = P /\ C0' = C0 /\ D0' = D0
  BY <1>1, TextKept
<1>10. OffsetsOf(n) /\ LabelsOf(n) /\ CodeOfLines(n) /\ FixesOfLines /\ DataOfLines(n)
       /\ RegsOfLines(n)
  BY <1>4 DEF Before
<1>11. ASSUME MacroEnds(q), SetReg(P[n].dst, SetTo(n)),
              P[n].label # NoLabel => P[n].label \in DOMAIN labels
       PROVE  Right'
  <2>1. LabelsGrow /\ TypeOK
    BY <1>1, <1>2 DEF LabelsGrow, Typed
  <2>2. RegsOfLines(n + 1)'
    BY <1>1, <1>4, <1>8, <1>9, <1>10, <1>11, <2>1, RegisterSet
  <2>3. OffsetsOf(n + 1)'
    BY <1>1, <1>4, <1>5, <1>9, <1>10, OffsetsNext
  <2>4. Before(n + 1)'
    BY <1>1, <1>4, <1>8, <1>9, <1>10, <2>1, <2>2, <2>3, LabelsNext, CodeNext, FixesNext,
       DataNext DEF Before
  <2> QED
    BY <1>1, <1>2, <1>3, <1>6, <1>11, <2>4, MacroEndsRight
<1>12. CASE P[n].label = NoLabel
  <2>1. t[3].type \in Numbers /\ t[3].num = P[n].imm /\ t[3].type # "word"
    BY <1>5, <1>12 DEF Has, Numbers
  <2>2. SetReg(P[n].dst, P[n].imm) /\ MacroEnds(q)
    BY <1>5, <1>6, <1>7, <2>1 DEF MacroRegister
  <2>3. SetTo(n) = P[n].imm
    BY <1>12 DEF SetTo
  <2> QED
    BY <1>11, <1>12, <2>2, <2>3
<1>13. CASE P[n].label # NoLabel
  <2>1. t[3].type = "word" /\ t[3].type \notin Numbers /\ t[3].opr = P[n].label
    BY <1>5, <1>13 DEF Has, Numbers
  <2>2. CASE P[n].label \in DOMAIN labels
    <3>1. SetReg(P[n].dst, labels[P[n].label]) /\ MacroEnds(q)
      BY <1>5, <1>6, <1>7, <2>1, <2>2 DEF MacroRegister
    <3>2. SetTo(n) = labels[P[n].label]
      BY <1>13 DEF SetTo
    <3> QED
      BY <1>11, <2>2, <3>1, <3>2
  <2>3. CASE P[n].label \notin DOMAIN labels
    <3>1. pos' = q /\ MacroFails
      BY <1>5, <1>6, <1>7, <2>1, <2>3 DEF MacroRegister
    <3>2. Wrong
      <4> SUFFICES ASSUME Legal(P, C0, D0)
                   PROVE  FALSE
        BY DEF Wrong
      <4>1. n \in DOMAIN P /\ DOMAIN P = 1 .. Len(src)
        BY <1>2, <1>4 DEF P, Meaning, Typed
      <4>2. PICK j \in Definitions(P, P[n].label) : j < n
        BY <1>5, <1>13, <4>1 DEF Legal
      <4>3. j \in 1 .. n - 1 /\ IsKind(j, "label") /\ P[j].label = P[n].label
        BY <1>4, <4>1, <4>2 DEF Definitions, IsKind
      <4> QED
        BY <1>10, <2>3, <4>3 DEF LabelsOf
    <3>3. Lost'
      BY <1>1, <1>2, <1>3, <1>5, <1>6, <2>1, <3>1, <3>2, MacroFailsLost
    <3> QED
      BY <3>3
  <2> QED
    BY <2>2, <2>3
<1> QED
  BY <1>12, <1>13

-----------------------------------------------------------------------------
(***************************************************************************)
(* The fixes, after the last line.                                         *)
(***************************************************************************)
LEMMA FixingBefore ==
  ASSUME Typed, Right, Fixing
  PROVE  /\ result = "run" /\ stack = << >> /\ Before(Len(src) + 1) /\ Len(src) \in Nat
         /\ \A k : k \in 1 .. (Len(src) + 1) - 1 <=> k \in 1 .. Len(src)
BY DEF Right, Fixing, Typed

LEMMA CodeApart ==
  ASSUME Typed, Based, NEW j \in 1 .. Len(src), NEW k \in 1 .. Len(src), j # k,
         IsKind(j, "cmd"), IsKind(k, "cmd")
  PROVE  CodeAt(j) # CodeAt(k)
<1>1. j \in Nat \ {0} /\ k \in Nat \ {0}
  OBVIOUS
<1>2. CASE j < k
  <2>1. j \in 1 .. k - 1
    BY <1>1, <1>2
  <2> QED
    BY <1>1, <2>1, AheadOfCode
<1>3. CASE k < j
  <2>1. k \in 1 .. j - 1
    BY <1>1, <1>3
  <2> QED
    BY <1>1, <2>1, AheadOfCode
<1> QED
  BY <1>1, <1>2, <1>3

LEMMA FixOf ==
  ASSUME Typed, FixesOfLines, NEW f \in fixes
  PROVE  \E k \in 1 .. Len(src) :
           IsKind(k, "cmd") /\ P[k].label # NoLabel /\ f = << P[k].label, CodeAt(k) >>
BY DEF FixesOfLines, Typed

LEMMA FixRight ==
  ASSUME IInv, Based, Right, Fix
  PROVE  Right'
<1>1. /\ Fixing
      /\ src' = src /\ start' = start /\ stack' = stack /\ labels' = labels
      /\ codeOff' = codeOff /\ dataOff' = dataOff /\ cur' = cur /\ data' = data
      /\ mregs' = mregs /\ result' = result
  BY DEF Fix
<1>2. Typed
  BY DEF IInv
<1> DEFINE n == Len(src) + 1
<1>3. /\ result = "run" /\ stack = << >> /\ Before(n)
      /\ \A k : k \in 1 .. n - 1 <=> k \in 1 .. Len(src)
  BY <1>1, <1>2, FixingBefore
<1>4. PICK f \in fixes :
        /\ f[1] \in DOMAIN labels /\ labels[f[1]] <= ImmMax
        /\ code' = [code EXCEPT ![f[2]].imm = Packed(labels[f[1]])]
        /\ fixes' = fixes \ {f}
  BY DEF Fix
<1>5. OffsetsOf(n) /\ LabelsOf(n) /\ CodeOfLines(n) /\ FixesOfLines /\ DataOfLines(n)
      /\ RegsOfLines(n)
  BY <1>3 DEF Before
<1>6. PICK k \in 1 .. Len(src) :
        IsKind(k, "cmd") /\ P[k].label # NoLabel /\ f = << P[k].label, CodeAt(k) >>
  BY <1>2, <1>5, FixOf
<1> DEFINE o == CodeAt(k)
           l == P[k].label
           v == Packed(labels[l])
<1>7. f[1] = l /\ f[2] = o /\ l \in DOMAIN labels /\ labels[l] <= ImmMax
  BY <1>4, <1>6
<1>8. Laid(k) /\ o \in DOMAIN code /\ code[o] = CommandOf(P[k], code[o].imm)
  BY <1>3, <1>5, <1>6 DEF CodeOfLines, Laid
<1>9. /\ DOMAIN code' = DOMAIN code
      /\ code'[o] = [code[o] EXCEPT !.imm = v]
      /\ \A a \in DOMAIN code : a # o => code'[a] = code[a]
  <2>1. code' = [code EXCEPT ![o].imm = v]
    BY <1>4, <1>7
  <2> HIDE DEF v, o
  <2> QED
    BY <1>8, <2>1
<1>10. code'[o] = CommandOf(P[k], v) /\ code'[o].imm = v
  <2> HIDE DEF v, o
  <2> QED
    BY <1>8, <1>9 DEF CommandOf
<1>11. P' = P /\ C0' = C0 /\ D0' = D0
  BY <1>1, TextKept
<1>12. \A j : (IsKind(j, "cmd")' <=> IsKind(j, "cmd")) /\ CodeAt(j)' = CodeAt(j)
  BY <1>11 DEF IsKind, CodeAt
<1>13. Laid(k)'
  <2>1. CodeAt(k) + 4 < CSize
    BY <1>8 DEF Laid
  <2>2. /\ CodeAt(k) \in DOMAIN code' /\ code'[CodeAt(k)].imm = v
        /\ code'[CodeAt(k)] = CommandOf(P[k], code'[CodeAt(k)].imm)
    BY <1>8, <1>9, <1>10
  <2>3. l \in DOMAIN labels /\ labels[l] <= ImmMax /\ v = Packed(labels[l]) /\ l # NoLabel
    BY <1>6, <1>7
  <2> HIDE DEF v, l, o
  <2>4. CodeAt(k)' = CodeAt(k) /\ P'[k].label = l
    BY <1>11, <1>12 DEF l
  <2> QED
    BY <1>1, <1>11, <2>1, <2>2, <2>3, <2>4 DEF Laid, Exact, Named
<1>14. ASSUME NEW j \in 1 .. Len(src), j # k, IsKind(j, "cmd")
       PROVE  Laid(j)'
  <2>1. Laid(j) /\ CodeAt(j) \in DOMAIN code
    BY <1>3, <1>5, <1>14 DEF CodeOfLines, Laid
  <2>2. CodeAt(j) # o
    BY <1>2, <1>6, <1>14, CodeApart
  <2>3. code'[CodeAt(j)] = code[CodeAt(j)] /\ CodeAt(j) \in DOMAIN code'
    BY <1>9, <2>1, <2>2
  <2>4. << P[j].label, CodeAt(j) >> \in fixes => << P[j].label, CodeAt(j) >> \in fixes'
    BY <1>4, <1>7, <2>2
  <2> QED
    BY <1>1, <1>11, <1>12, <2>1, <2>3, <2>4 DEF Laid, Exact, Named
<1>15. Before(n)'
  <2>1. OffsetsOf(n)'
    BY <1>1, <1>5, <1>11 DEF OffsetsOf, CodeAt, DataAt
  <2>2. LabelsOf(n)'
    BY <1>1, <1>5, <1>11, Zenon DEF LabelsOf, IsKind
  <2>3. CodeOfLines(n)'
    <3>1. \A j \in 1 .. n - 1 : IsKind(j, "cmd")' => Laid(j)'
      BY <1>3, <1>12, <1>13, <1>14
    <3>2. \A a \in DOMAIN code' : \E j \in 1 .. n - 1 : IsKind(j, "cmd")' /\ a = CodeAt(j)'
      BY <1>5, <1>9, <1>12 DEF CodeOfLines
    <3> QED
      BY <1>1, <3>1, <3>2 DEF CodeOfLines
  <2>4. FixesOfLines'
    BY <1>1, <1>4, <1>5, <1>11 DEF FixesOfLines, IsKind, CodeAt
  <2>5. DataOfLines(n)'
    BY <1>1, <1>5, <1>11 DEF DataOfLines, IsKind, DataAt
  <2>6. RegsOfLines(n)'
    BY <1>1, <1>5, <1>11 DEF RegsOfLines, IsKind, SetsOf, SetTo, LastSet
  <2> QED
    BY <2>1, <2>2, <2>3, <2>4, <2>5, <2>6 DEF Before
<1> QED
  BY <1>1, <1>3, <1>15 DEF Right

LEMMA FixFailsRight ==
  ASSUME IInv, Right, FixFails
  PROVE  Lost'
<1>1. Fixing /\ src' = src /\ start' = start /\ result' = "error"
  BY DEF FixFails
<1>2. Typed
  BY DEF IInv
<1> DEFINE n == Len(src) + 1
<1>3. /\ Before(n) /\ LabelsOf(n) /\ FixesOfLines /\ n \in 1 .. Len(src) + 1
      /\ \A k : k \in 1 .. n - 1 <=> k \in 1 .. Len(src)
  BY <1>1, <1>2, FixingBefore DEF Before
<1>4. PICK f \in fixes : f[1] \in DOMAIN labels => labels[f[1]] > ImmMax
  BY DEF FixFails
<1>5. PICK k \in 1 .. Len(src) :
        IsKind(k, "cmd") /\ P[k].label # NoLabel /\ f = << P[k].label, CodeAt(k) >>
  BY <1>2, <1>3, FixOf
<1>6. Wrong
  <2>1. CASE P[k].label \in DOMAIN labels
    <3>1. labels[P[k].label] \in Nat /\ ImmMax \in Int
      BY <1>2, <2>1, ImmAssumption DEF Typed, TypeOK, ImmMax
    <3>2. ~(labels[P[k].label] <= ImmMax)
      BY <1>4, <1>5, <2>1, <3>1
    <3> QED
      BY <1>2, <1>3, <1>5, <2>1, <3>2, FarWrong
  <2>2. CASE P[k].label \notin DOMAIN labels
    <3> SUFFICES ASSUME Legal(P, C0, D0)
                 PROVE  FALSE
      BY DEF Wrong
    <3>1. DOMAIN P = 1 .. Len(src)
      BY <1>2 DEF P, Meaning, Typed
    <3>2. Definitions(P, P[k].label) # {}
      BY <1>5, <3>1 DEF Legal, IsKind
    <3>3. PICK j \in 1 .. Len(src) : IsKind(j, "label") /\ P[j].label = P[k].label
      BY <3>1, <3>2 DEF Definitions, IsKind
    <3> QED
      BY <1>3, <2>2, <3>3 DEF LabelsOf
  <2> QED
    BY <2>1, <2>2
<1> QED
  BY <1>1, <1>6, EndLost

LEMMA AcceptRight ==
  ASSUME Typed, Right, Accept
  PROVE  Right'
<1>1. /\ Fixing /\ fixes = {} /\ result' = "ok" /\ src' = src /\ start' = start
      /\ UNCHANGED tables /\ UNCHANGED memory
  BY DEF Accept
<1>2. Before(Len(src) + 1)
  BY <1>1, FixingBefore
<1>3. Before(Len(src) + 1)'
  <2> DEFINE n == Len(src) + 1
  <2>1. n' = n
    BY <1>1
  <2>2. P' = P /\ C0' = C0 /\ D0' = D0
    BY <1>1, TextKept
  <2>3. PICK m : m = n
    OBVIOUS
  <2>4. Before(m)
    BY <1>2, <2>3
  <2>5. Before(m)'
    BY <1>1, <2>4, BeforeKept
  <2> QED
    BY <2>1, <2>3, <2>5
<1>4. fixes' = fixes
  BY <1>1 DEF tables
<1> QED
  BY <1>1, <1>3, <1>4 DEF Right

-----------------------------------------------------------------------------
(***************************************************************************)
(* Which state each action is of.                                          *)
(***************************************************************************)
LEMMA ActionsIn ==
  /\ Start \/ StartMacro => In("START")
  /\ Dst => In("DST")
  /\ Set => In("SET")
  /\ Operator => In("OPERATOR")
  /\ Open => In("OPEN") /\ Sees({"open"})
  /\ Args => In("ARGS")
  /\ Src0 => In("SRC0")
  /\ CommaSrc0 => In("COMMA_SRC0")
  /\ AfterCommaSrc0 => In("AFTER_COMMA_SRC0")
  /\ Src1 => In("SRC1")
  /\ AfterSrc1 => In("AFTER_SRC1")
  /\ Sign => In("SIGN")
  /\ Number => In("NUMBER")
  /\ AtUndefined \/ AtDefined => In("AT")
  /\ Close => In("CLOSE")
  /\ Finish \/ FinishThrows => In("FINISH")
  /\ BadEnd => In("BAD_END")
  /\ MacroUnexpected \/ MacroNumber \/ MacroThrows => In("MACRO")
  /\ MacroSection \/ MacroLabel \/ MacroRegister => In("MACRO")
  /\ Fix \/ FixFails \/ Accept => Fixing
<1>1. Start \/ StartMacro => In("START")
  BY DEF Start, StartMacro
<1>2. Dst => In("DST")
  BY DEF Dst
<1>3. Set => In("SET")
  BY DEF Set
<1>4. Operator => In("OPERATOR")
  BY DEF Operator
<1>5. Open => In("OPEN") /\ Sees({"open"})
  BY DEF Open
<1>6. Args => In("ARGS")
  BY DEF Args
<1>7. Src0 => In("SRC0")
  BY DEF Src0
<1>8. CommaSrc0 => In("COMMA_SRC0")
  BY DEF CommaSrc0
<1>9. AfterCommaSrc0 => In("AFTER_COMMA_SRC0")
  BY DEF AfterCommaSrc0
<1>10. Src1 => In("SRC1")
  BY DEF Src1
<1>11. AfterSrc1 => In("AFTER_SRC1")
  BY DEF AfterSrc1
<1>12. Sign => In("SIGN")
  BY DEF Sign
<1>13. Number => In("NUMBER")
  BY DEF Number
<1>14. AtUndefined \/ AtDefined => In("AT")
  BY DEF AtUndefined, AtDefined
<1>15. Close => In("CLOSE")
  BY DEF Close
<1>16. Finish \/ FinishThrows => In("FINISH")
  BY DEF Finish, FinishThrows
<1>17. BadEnd => In("BAD_END")
  BY DEF BadEnd
<1>18. MacroUnexpected \/ MacroNumber \/ MacroThrows => In("MACRO")
  BY DEF MacroUnexpected, MacroNumber, MacroThrows
<1>19. MacroSection \/ MacroLabel \/ MacroRegister => In("MACRO")
  BY DEF MacroSection, MacroLabel, MacroRegister
<1>20. Fix \/ FixFails \/ Accept => Fixing
  BY DEF Fix, FixFails, Accept
<1> QED
  BY <1>1, <1>2, <1>3, <1>4, <1>5, <1>6, <1>7, <1>8, <1>9, <1>10, <1>11, <1>12, <1>13, <1>14,
     <1>15, <1>16, <1>17, <1>18, <1>19, <1>20

(* A step is one of the state on top, and nothing is done after the end.   *)
LEMMA StepIn ==
  ASSUME Next
  PROVE  /\ result = "run"
         /\ stack # << >> /\ Head(stack) = "START" => Start \/ StartMacro \/ Unexpected
         /\ stack # << >> /\ Head(stack) = "OPERATOR" => Operator \/ Unexpected
         /\ stack # << >> /\ Head(stack) = "OPEN" => Unexpected \/ (Open /\ Sees({"open"}))
         /\ stack # << >> /\ Head(stack) = "BAD_END" => BadEnd \/ Unexpected
<1>1. Unexpected => result = "run" /\ stack # << >>
  BY DEF Unexpected
<1> QED
  BY <1>1, ActionsIn DEF Next, In, Fixing

LEMMA TextStays ==
  ASSUME Next
  PROVE  src' = src /\ start' = start
<1>1. CASE Dst \/ Set \/ Operator \/ Open \/ Args \/ Src0 \/ Src1 \/ CommaSrc0
           \/ AfterCommaSrc0 \/ AfterSrc1
  BY <1>1, ApartKept DEF Dst, Set, Operator, Open, Args, Src0, Src1, CommaSrc0,
     AfterCommaSrc0, AfterSrc1
<1>2. CASE Start \/ Sign \/ Number \/ Close \/ Unexpected \/ MacroUnexpected
  BY <1>2, ApartKept DEF Start, Sign, Number, Close, Unexpected, MacroUnexpected
<1>3. CASE StartMacro \/ AtUndefined \/ AtDefined \/ Finish
  BY <1>3 DEF StartMacro, AtUndefined, AtDefined, Finish
<1>4. CASE FinishThrows \/ BadEnd \/ MacroThrows \/ Fix \/ FixFails \/ Accept
  BY <1>4 DEF FinishThrows, BadEnd, MacroThrows, Throw, Fix, FixFails, Accept
<1>5. CASE MacroNumber \/ MacroSection \/ MacroLabel \/ MacroRegister
  BY <1>5 DEF MacroNumber, MacroSection, MacroLabel, MacroRegister
<1> QED
  BY <1>1, <1>2, <1>3, <1>4, <1>5 DEF Next

-----------------------------------------------------------------------------
(***************************************************************************)
(* Once the reference does not accept the text, the assembler does not.    *)
(***************************************************************************)
LEMMA RejectLost ==
  ASSUME Typed, Wrong, src' = src, start' = start, result = "run", result' = result, Reject
  PROVE  Lost'
<1>1. stack \in Seq(State)
  BY DEF Typed, TypeOK
<1> QED
  BY <1>1, BadLost DEF Reject

LEMMA LostStep ==
  ASSUME Typed, Clean, Lost, Next
  PROVE  Lost'
<1>1. /\ Wrong /\ result = "run" /\ stack # << >> /\ Astray
      /\ src' = src /\ start' = start
  BY StepIn, TextStays DEF Lost
<1>2. stack \in Seq(State)
  BY DEF Typed, TypeOK
<1>3. CASE Unexpected
  BY <1>1, <1>3, ApartKept, RejectLost DEF Unexpected
<1>4. CASE Head(stack) = "BAD_END"
  <2>1. CASE BadEnd
    BY <1>1, <2>1, EndLost DEF BadEnd
  <2> QED
    BY <1>1, <1>3, <1>4, <2>1, StepIn
<1>5. CASE Head(stack) = "START"
  <2>1. Type(pos) = "word" /\ pos[2] = Len(src[pos[1]].text)
    BY <1>1, <1>5 DEF Astray
  <2>2. ~StartMacro
    BY <2>1 DEF StartMacro, Sees
  <2>3. CASE Start
    <3>1. Enter("OPERATOR") /\ Apart
      BY <2>1, <2>3 DEF Start, Sees
    <3>2. stack' = << "OPERATOR" >> \o stack /\ pos' = pos /\ result' = result
      BY <3>1, ApartKept DEF Enter
    <3>3. stack' # << >> /\ Head(stack') = "OPERATOR"
      BY <1>2, <3>2, StackFacts, StateNames
    <3>4. Type(pos)' = "word"
      BY <1>1, <2>1, <3>2 DEF Type, At, IsEof
    <3>5. Astray'
      BY <1>1, <2>1, <3>2, <3>3, <3>4 DEF Astray
    <3> QED
      BY <1>1, <3>2, <3>3, <3>5, TextKept DEF Lost
  <2> QED
    BY <1>1, <1>3, <1>5, <2>2, <2>3, StepIn
<1>6. CASE Head(stack) = "OPERATOR"
  <2>1. Type(pos) = "word" /\ pos[2] = Len(src[pos[1]].text)
    BY <1>1, <1>6 DEF Astray
  <2>2. CASE Operator
    <3>1. Apart /\ result' = result
      BY <2>2, ApartKept DEF Operator
    <3>2. CASE Reject
      BY <1>1, <3>1, <3>2, RejectLost
    <3>3. CASE Shift("OPEN")
      <4>1. Tail(stack) \in Seq(State) /\ "OPEN" \in State
        BY <1>1, <1>2, TailFacts, StateNames
      <4>2. Top("OPEN") \in Seq(State) /\ Top("OPEN") # << >> /\ Head(Top("OPEN")) = "OPEN"
        BY <4>1, StackFacts DEF Top
      <4>3. Behind(pos) = << pos[1] + 1, 1 >>
        <5>1. ~IsEof(pos)
          BY <2>1 DEF Type
        <5>2. pos[2] \in Nat
          BY DEF Typed, TypeOK
        <5> QED
          BY <2>1, <5>2 DEF Behind
      <4>4. CASE HasNext(pos)
        <5>1. stack' = Top("OPEN") /\ pos' = << pos[1] + 1, 1 >>
          BY <3>3, <4>3, <4>4 DEF Shift
        <5>2. pos[1] + 1 \in 1 .. Len(src)
          <6>1. pos[1] \in Nat /\ Len(src) \in Nat
            BY DEF Typed, TypeOK
          <6>2. ~(pos[1] + 1 > Len(src))
            BY <4>3, <4>4 DEF HasNext, IsEof
          <6> QED
            BY <6>1, <6>2
        <5>3. Astray'
          BY <1>1, <4>2, <5>1, <5>2 DEF Astray
        <5> QED
          BY <1>1, <3>1, <4>2, <5>1, <5>3, TextKept DEF Lost
      <4>5. CASE ~HasNext(pos)
        <5>1. stack' = << "BAD_END" >> \o Top("OPEN")
          BY <3>3, <4>5 DEF Shift
        <5> QED
          BY <1>1, <3>1, <4>2, <5>1, BadLost
      <4> QED
        BY <4>4, <4>5
    <3> QED
      BY <2>2, <3>2, <3>3 DEF Operator
  <2> QED
    BY <1>1, <1>3, <1>6, <2>2, StepIn
<1>7. CASE Head(stack) = "OPEN"
  <2>1. pos[1] \in 1 .. Len(src) /\ pos[2] = 1
    BY <1>1, <1>7 DEF Astray
  <2>2. PICK n \in 1 .. Len(src) : pos[1] = n
    BY <2>1
  <2>3. Type(pos) = src[n].text[1].type
    BY <2>1, <2>2, FrontIs
  <2>4. Type(pos) \in {"reg", "word", "macro"}
    BY <2>2, <2>3, LineStarts
  <2>5. ~Sees({"open"})
    BY <2>4 DEF Sees
  <2> QED
    BY <1>1, <1>3, <1>7, <2>5, StepIn
<1> QED
  BY <1>1, <1>4, <1>5, <1>6, <1>7 DEF Astray

LEMMA BadEndRight ==
  ASSUME Typed, Right, BadEnd
  PROVE  FALSE
<1>1. In("BAD_END")
  BY DEF BadEnd
<1>2. PICK n \in Nat \ {0} : InCommand(n)
  BY <1>1, CommandIn
<1> QED
  BY <1>1, <1>2, MidwayExpected DEF InCommand, In

LEMMA RightStep ==
  ASSUME IInv, IInv', Based, Clean, Right, Next
  PROVE  Right' \/ Lost'
<1>1. Typed /\ Shape
  BY DEF IInv
<1>2. cmd' \in CmdType
  BY DEF IInv, Typed, TypeOK, CmdType
<1>3. CASE Start \/ StartMacro \/ Dst \/ Set \/ Operator \/ Open \/ Src0 \/ Src1
  BY <1>1, <1>3, StartRight, StartMacroRight, DstRight, SetRight, OperatorRight, OpenRight,
     Src0Right, Src1Right
<1>4. CASE Args \/ CommaSrc0 \/ AfterCommaSrc0 \/ AfterSrc1
  BY <1>1, <1>2, <1>4, ArgsRight, CommaSrc0Right, AfterCommaSrc0Right, AfterSrc1Right
<1>5. CASE Sign \/ Number \/ AtUndefined \/ AtDefined \/ Close
  BY <1>1, <1>5, SignRight, NumberRight, AtUndefinedRight, AtDefinedRight, CloseRight
<1>6. CASE Finish \/ FinishThrows \/ BadEnd \/ Unexpected
  BY <1>1, <1>6, FinishRight, FinishThrowsRight, BadEndRight, UnexpectedRight
<1>7. CASE MacroUnexpected \/ MacroNumber \/ MacroThrows \/ MacroSection
  BY <1>1, <1>7, MacroUnexpectedRight, MacroNumberRight, MacroThrowsRight, MacroSectionRight
<1>8. CASE MacroLabel \/ MacroRegister
  BY <1>8, MacroLabelRight, MacroRegisterRight
<1>9. CASE Fix \/ FixFails \/ Accept
  BY <1>1, <1>9, FixRight, FixFailsRight, AcceptRight
<1> QED
  BY <1>3, <1>4, <1>5, <1>6, <1>7, <1>8, <1>9 DEF Next

-----------------------------------------------------------------------------
(***************************************************************************)
(* The invariant holds.                                                    *)
(***************************************************************************)
LEMMA InitBefore ==
  ASSUME Init, Based
  PROVE  Before(1)
<1>1. /\ labels = << >> /\ fixes = {} /\ codeOff = C0 /\ dataOff = D0 /\ cur = "code"
      /\ code = << >> /\ data = [o \in 0 .. DSize - 1 |-> 0] /\ mregs = [r \in Reg |-> 0]
  BY DEF Init, C0, D0
<1>2. CodeUpTo(P, 1) = 0 /\ DataUpTo(P, 1) = 0 /\ ~InData(P, 1)
  BY UpToFirst
<1>3. CodeAt(1) = C0 /\ DataAt(1) = D0
  BY <1>2 DEF CodeAt, DataAt, Based
<1>4. 1 .. 1 - 1 = {}
  OBVIOUS
<1>5. OffsetsOf(1)
  BY <1>1, <1>2, <1>3 DEF OffsetsOf
<1>6. LabelsOf(1) /\ CodeOfLines(1) /\ FixesOfLines
  BY <1>1, <1>4 DEF LabelsOf, CodeOfLines, FixesOfLines
<1>7. DataOfLines(1)
  BY <1>1, <1>4 DEF DataOfLines
<1>8. RegsOfLines(1)
  <2>1. \A r : SetsOf(r, 1) = {}
    BY <1>4 DEF SetsOf
  <2> QED
    BY <1>1, <1>4, <2>1 DEF RegsOfLines
<1> QED
  BY <1>5, <1>6, <1>7, <1>8 DEF Before

LEMMA InitTwoPass ==
  ASSUME Init
  PROVE  TwoPassInv
<1>1. Based
  BY StartsAssumption DEF Init, Based, C0, D0
<1>2. CodeTable
  <2>1. code = << >>
    BY DEF Init
  <2> QED
    BY <2>1 DEF CodeTable
<1>3. ASSUME Clean
      PROVE  Right
  <2>1. /\ src # << >> /\ result = "run" /\ stack = << "START" >> /\ pos = << 1, 1 >>
        /\ cmd = NoCmd
    BY <1>3 DEF Init, Clean
  <2>2. stack # << >> /\ Head(stack) = "START"
    BY <2>1
  <2>3. Len(src) \in Nat
    BY InitInv DEF IInv, Typed
  <2>4. AtLine(1)
    BY <1>1, <2>1, <2>2, <2>3, InitBefore DEF AtLine
  <2>5. 1 \in 1 .. Len(src) + 1
    BY <2>3
  <2> QED
    BY <2>1, <2>2, <2>4, <2>5 DEF Right, Deep, InLine
<1> QED
  BY <1>1, <1>2, <1>3 DEF TwoPassInv

LEMMA StutterTwoPass ==
  ASSUME TwoPassInv, UNCHANGED vars
  PROVE  TwoPassInv'
<1>1. /\ src' = src /\ start' = start /\ pos' = pos /\ stack' = stack /\ cmd' = cmd
      /\ labels' = labels /\ fixes' = fixes /\ code' = code /\ result' = result
      /\ UNCHANGED tables /\ UNCHANGED memory
  BY DEF vars, tables, memory
<1>2. P' = P /\ C0' = C0 /\ D0' = D0 /\ (Wrong' <=> Wrong) /\ (Clean' <=> Clean)
  BY <1>1, TextKept
<1>3. \A n : Before(n) => Before(n)'
  BY <1>1, BeforeKept
<1>4. \A n : OperandOf(n) => OperandOf(n)'
  BY <1>1, OperandKept
<1>5. Based' /\ CodeTable'
  BY <1>1, <1>2 DEF TwoPassInv, Based, CodeTable
<1>6. \A n : AtLine(n) => AtLine(n)'
  BY <1>1, <1>3 DEF AtLine
<1>7. \A n : InCommand(n) => InCommand(n)'
  BY <1>1, <1>2, <1>3, <1>4 DEF InCommand
<1>8. \A n : AfterCommand(n) => AfterCommand(n)'
  BY <1>1, <1>2, <1>3, <1>4 DEF AfterCommand, IsKind
<1>9. \A n : InMacro(n) => InMacro(n)'
  BY <1>1, <1>2, <1>3 DEF InMacro
<1>10. InLine => InLine'
  BY <1>1, <1>6, <1>7, <1>8, <1>9 DEF InLine
<1>11. Deep => Deep'
  BY <1>1 DEF Deep
<1>12. Before(Len(src) + 1) => Before(Len(src) + 1)'
  <2> SUFFICES ASSUME Before(Len(src) + 1)
               PROVE  Before(Len(src) + 1)'
    OBVIOUS
  <2>1. PICK n : n = Len(src) + 1
    OBVIOUS
  <2>2. n = (Len(src) + 1)'
    BY <1>1, <2>1
  <2>3. Before(n)'
    BY <1>3, <2>1
  <2> QED
    BY <2>2, <2>3
<1>13. Right => Right'
  BY <1>1, <1>10, <1>11, <1>12 DEF Right
<1>14. Lost => Lost'
  BY <1>1, <1>2 DEF Lost, Astray, Type, At, IsEof
<1> QED
  BY <1>2, <1>5, <1>13, <1>14 DEF TwoPassInv

(* Commands are only put at the end and changed in place.                  *)
LEMMA CodeTableStep ==
  ASSUME CodeTable, Next
  PROVE  CodeTable'
<1>1. CASE code' = code
  BY <1>1 DEF CodeTable
<1>2. CASE Finish
  <2> DEFINE o == codeOff
             c == Command
  <2>1. code' = Put(code, o, c)
    BY <1>2 DEF Finish
  <2> HIDE DEF o, c
  <2> QED
    BY <2>1 DEF Put, CodeTable
<1>3. CASE Fix
  <2>1. PICK f \in fixes : code' = [code EXCEPT ![f[2]].imm = Packed(labels[f[1]])]
    BY <1>3 DEF Fix
  <2> QED
    BY <2>1 DEF CodeTable
<1>4. CASE Dst \/ Set \/ Operator \/ Open \/ Args \/ Src0 \/ Src1 \/ CommaSrc0
           \/ AfterCommaSrc0 \/ AfterSrc1
  <2>1. Apart
    BY <1>4 DEF Dst, Set, Operator, Open, Args, Src0, Src1, CommaSrc0, AfterCommaSrc0,
       AfterSrc1
  <2> QED
    BY <1>1, <2>1 DEF Apart, memory
<1>5. CASE Start \/ Sign \/ Number \/ Close \/ Unexpected \/ MacroUnexpected
  <2>1. Apart
    BY <1>5 DEF Start, Sign, Number, Close, Unexpected, MacroUnexpected
  <2> QED
    BY <1>1, <2>1 DEF Apart, memory
<1>6. CASE StartMacro \/ AtUndefined \/ AtDefined
  BY <1>1, <1>6 DEF StartMacro, AtUndefined, AtDefined, memory
<1>7. CASE FinishThrows \/ BadEnd \/ MacroThrows \/ FixFails \/ Accept
  BY <1>1, <1>7 DEF FinishThrows, BadEnd, MacroThrows, Throw, FixFails, Accept, memory
<1>8. CASE MacroNumber \/ MacroSection \/ MacroLabel \/ MacroRegister
  BY <1>1, <1>8 DEF MacroNumber, MacroSection, MacroLabel, MacroRegister, memory
<1> QED
  BY <1>2, <1>3, <1>4, <1>5, <1>6, <1>7, <1>8 DEF Next

LEMMA NextTwoPass ==
  ASSUME IInv, IInv', TwoPassInv, Next
  PROVE  TwoPassInv'
<1>1. src' = src /\ start' = start
  BY TextStays
<1>2. Based /\ CodeTable /\ (Clean => Right \/ Lost)
  BY DEF TwoPassInv
<1>3. (Clean' <=> Clean) /\ C0' = C0 /\ D0' = D0
  BY <1>1, TextKept
<1>4. Based' /\ CodeTable'
  BY <1>2, <1>3, CodeTableStep DEF Based
<1>5. ASSUME Clean
      PROVE  Right' \/ Lost'
  <2>1. Typed
    BY DEF IInv
  <2> QED
    BY <1>2, <1>5, <2>1, RightStep, LostStep
<1> QED
  BY <1>3, <1>4, <1>5 DEF TwoPassInv

(* Between the lines all is as the two passes leave it, or the error the   *)
(* reference finds is not lost, whatever macro() forgets.                  *)
THEOREM AlwaysTwoPass == Spec => []TwoPassInv
<1>1. Init => TwoPassInv
  BY InitTwoPass
<1>2. IInv /\ IInv' /\ TwoPassInv /\ [Next]_vars => TwoPassInv'
  BY NextTwoPass, StutterTwoPass
<1> QED
  BY <1>1, <1>2, AlwaysIInv, PTL DEF Spec

-----------------------------------------------------------------------------
(***************************************************************************)
(* The end of an accepted text.                                            *)
(***************************************************************************)
AllLines == Len(src) + 1

LEMMA TextDomain ==
  ASSUME Typed
  PROVE  /\ Len(src) \in Nat /\ DOMAIN P = 1 .. Len(src) /\ DOMAIN src = 1 .. Len(src)
         /\ Len(P) = Len(src)
         /\ \A k : k \in 1 .. AllLines - 1 <=> k \in 1 .. Len(src)
         /\ AllLines \in Nat \ {0}
<1>1. Len(src) \in Nat /\ DOMAIN P = 1 .. Len(src) /\ DOMAIN src = 1 .. Len(src)
  BY DEF P, Meaning, Typed
<1>2. Len(P) = Len(src)
  <2> DEFINE S == {P[i] : i \in 1 .. Len(src)}
             n == Len(src)
  <2>1. P = [i \in 1 .. n |-> P[i]]
    BY <1>1 DEF P, Meaning
  <2>2. P \in [1 .. n -> S]
    BY <2>1
  <2>3. n \in Nat
    BY <1>1
  <2> HIDE DEF S, n
  <2>4. Len(P) = n
    BY <2>2, <2>3
  <2> QED
    BY <2>4 DEF n
<1>3. \A k : k \in 1 .. AllLines - 1 <=> k \in 1 .. Len(src)
  BY <1>1 DEF AllLines
<1>4. AllLines \in Nat \ {0}
  BY <1>1 DEF AllLines
<1> QED
  BY <1>1, <1>2, <1>3, <1>4

(* A label that is defined has the value the first pass gives it.          *)
LEMMA LabelIs ==
  ASSUME Typed, LabelsOf(AllLines), NEW l \in DOMAIN labels
  PROVE  Definitions(P, l) # {} /\ LabelAt(P, l, C0, D0) = labels[l]
<1>1. PICK k \in 1 .. AllLines - 1 : IsKind(k, "label") /\ P[k].label = l
  BY DEF LabelsOf
<1>2. /\ labels[P[k].label] = Place1(P, k, C0, D0)
      /\ \A j \in 1 .. AllLines - 1 : IsKind(j, "label") /\ P[j].label = P[k].label => j = k
  BY <1>1 DEF LabelsOf
<1>3. Definitions(P, l) = {k}
  BY <1>1, <1>2, TextDomain DEF Definitions, IsKind
<1>4. (CHOOSE i \in Definitions(P, l) : TRUE) = k
  BY <1>3
<1> QED
  BY <1>1, <1>2, <1>3, <1>4 DEF LabelAt

(* What the command of line k carries.                                     *)
LEMMA CommandIs ==
  ASSUME Typed, Before(AllLines), fixes = {}, NEW k \in 1 .. Len(src), IsKind(k, "cmd")
  PROVE  /\ P[k].label # NoLabel => Definitions(P, P[k].label) # {}
         /\ Value(P, k, C0, D0) \in ImmMin .. ImmMax
         /\ CodeAt(k) \in DOMAIN code
         /\ code[CodeAt(k)] = CommandOf(P[k], Packed(Value(P, k, C0, D0)))
         /\ CodeAt(k) + 4 < CSize
<1>1. k \in 1 .. AllLines - 1 /\ CodeOfLines(AllLines) /\ LabelsOf(AllLines)
  BY TextDomain DEF Before
<1>2. Laid(k)
  BY <1>1 DEF CodeOfLines
<1> DEFINE v == code[CodeAt(k)].imm
<1>3. /\ CodeAt(k) \in DOMAIN code /\ code[CodeAt(k)] = CommandOf(P[k], v)
      /\ CodeAt(k) + 4 < CSize
      /\ IF P[k].label = NoLabel THEN Exact(k, v) ELSE Named(k, v)
  BY <1>2 DEF Laid
<1> HIDE DEF v
<1>4. CASE P[k].label = NoLabel
  <2>1. Value(P, k, C0, D0) = P[k].imm
    BY <1>4 DEF Value
  <2>2. P[k].imm \in ImmMin .. ImmMax /\ v = Packed(P[k].imm)
    BY <1>3, <1>4 DEF Exact
  <2> QED
    BY <1>3, <1>4, <2>1, <2>2
<1>5. CASE P[k].label # NoLabel
  <2> DEFINE l == P[k].label
  <2>1. l \in DOMAIN labels /\ labels[l] <= ImmMax /\ v = Packed(labels[l])
    BY <1>3, <1>5 DEF Named
  <2>2. Definitions(P, l) # {} /\ LabelAt(P, l, C0, D0) = labels[l]
    BY <1>1, <2>1, LabelIs
  <2>3. Value(P, k, C0, D0) = labels[l]
    BY <1>5, <2>2 DEF Value
  <2>4. labels[l] \in Nat
    BY <2>1 DEF Typed, TypeOK
  <2>5. labels[l] \in ImmMin .. ImmMax
    BY <2>1, <2>4, ImmAssumption DEF ImmMin, ImmMax
  <2> QED
    BY <1>3, <2>1, <2>2, <2>3, <2>5
<1> QED
  BY <1>4, <1>5

LEMMA AcceptedLegal ==
  ASSUME Typed, Before(AllLines), fixes = {}
  PROVE  Legal(P, C0, D0) /\ Room(P, C0, D0)
<1>1. LabelsOf(AllLines) /\ DataOfLines(AllLines) /\ RegsOfLines(AllLines)
  BY DEF Before
<1>2. ASSUME NEW i \in DOMAIN P
      PROVE  /\ P[i].kind = "cmd" =>
                  /\ P[i].label # NoLabel => Definitions(P, P[i].label) # {}
                  /\ Value(P, i, C0, D0) \in ImmMin .. ImmMax
             /\ P[i].kind = "set" =>
                  (P[i].label # NoLabel => \E j \in Definitions(P, P[i].label) : j < i)
             /\ P[i].kind = "label" => Definitions(P, P[i].label) = {i}
  <2>1. i \in 1 .. Len(src) /\ i \in 1 .. AllLines - 1
    BY <1>2, TextDomain
  <2>2. P[i].kind = "cmd" =>
          /\ P[i].label # NoLabel => Definitions(P, P[i].label) # {}
          /\ Value(P, i, C0, D0) \in ImmMin .. ImmMax
    BY <2>1, CommandIs DEF IsKind
  <2>3. ASSUME P[i].kind = "set", P[i].label # NoLabel
        PROVE  \E j \in Definitions(P, P[i].label) : j < i
    <3>1. PICK j \in 1 .. i - 1 : IsKind(j, "label") /\ P[j].label = P[i].label
      BY <1>1, <2>1, <2>3 DEF RegsOfLines, IsKind
    <3>2. j < i /\ j \in DOMAIN P
      BY <2>1, TextDomain
    <3>3. j \in Definitions(P, P[i].label)
      BY <3>1, <3>2 DEF Definitions, IsKind
    <3> QED
      BY <3>2, <3>3
  <2>4. ASSUME P[i].kind = "label"
        PROVE  Definitions(P, P[i].label) = {i}
    <3>1. \A j \in 1 .. AllLines - 1 : IsKind(j, "label") /\ P[j].label = P[i].label => j = i
      BY <1>1, <2>1, <2>4 DEF LabelsOf, IsKind
    <3> QED
      BY <1>2, <2>4, <3>1, TextDomain DEF Definitions, IsKind
  <2> QED
    BY <2>2, <2>3, <2>4
<1>3. ASSUME NEW i \in DOMAIN P
      PROVE  /\ P[i].kind = "cmd" => C0 + CodeUpTo(P, i) + 4 < CSize
             /\ P[i].kind = "cell" => D0 + DataUpTo(P, i) + P[i].width < DSize
  <2>1. i \in 1 .. Len(src) /\ i \in 1 .. AllLines - 1
    BY <1>3, TextDomain
  <2>2. IsKind(i, "cmd") => CodeAt(i) + 4 < CSize
    BY <2>1, CommandIs
  <2>3. IsKind(i, "cell") => DataAt(i) + P[i].width < DSize
    BY <1>1, <2>1 DEF DataOfLines
  <2> QED
    BY <2>2, <2>3 DEF CodeAt, DataAt, IsKind
<1>4. Legal(P, C0, D0)
  BY <1>2 DEF Legal
<1>5. Room(P, C0, D0)
  BY <1>3 DEF Room
<1> QED
  BY <1>4, <1>5

LEMMA AcceptedCode ==
  ASSUME Typed, Based, CodeTable, Before(AllLines), fixes = {}
  PROVE  code = CodeOf(P, C0, D0)
<1> DEFINE Cmds == {i \in DOMAIN P : P[i].kind = "cmd"}
           LineAt(o) == CHOOSE i \in Cmds : C0 + CodeUpTo(P, i) = o
           Offsets == {C0 + CodeUpTo(P, i) : i \in Cmds}
           At1(o) == LET s == P[LineAt(o)]
                     IN [opc |-> s.opc, dst |-> s.dst, s0 |-> s.s0, s1 |-> s.s1,
                         imm |-> Packed(Value(P, LineAt(o), C0, D0))]
<1>1. CodeOf(P, C0, D0) = [o \in Offsets |-> At1(o)]
  BY DEF CodeOf
<1>2. \A i : i \in Cmds <=> i \in 1 .. Len(src) /\ IsKind(i, "cmd")
  BY TextDomain DEF IsKind
<1>3. \A i : C0 + CodeUpTo(P, i) = CodeAt(i)
  BY DEF CodeAt
<1>4. DOMAIN code = Offsets
  <2>1. ASSUME NEW o \in DOMAIN code
        PROVE  o \in Offsets
    <3>1. PICK k \in 1 .. AllLines - 1 : IsKind(k, "cmd") /\ o = CodeAt(k)
      BY <2>1 DEF Before, CodeOfLines
    <3>2. k \in Cmds
      BY <1>2, <3>1, TextDomain
    <3> HIDE DEF Cmds
    <3> QED
      BY <1>3, <3>1, <3>2
  <2>2. ASSUME NEW i \in Cmds
        PROVE  C0 + CodeUpTo(P, i) \in DOMAIN code
    <3>1. i \in 1 .. Len(src) /\ IsKind(i, "cmd")
      BY <1>2, <2>2
    <3>2. CodeAt(i) \in DOMAIN code
      BY <3>1, CommandIs
    <3> QED
      BY <1>3, <3>2
  <2> HIDE DEF Cmds
  <2> QED
    BY <2>1, <2>2
<1>5. ASSUME NEW o \in Offsets
      PROVE  code[o] = At1(o)
  <2>1. PICK i \in Cmds : CodeAt(i) = o
    BY <1>3, <1>5
  <2>2. \A j \in Cmds : CodeAt(j) = o => j = i
    BY <1>2, <2>1, CodeApart
  <2>3. LineAt(o) = i
    <3> HIDE DEF Cmds
    <3>1. \A j \in Cmds : C0 + CodeUpTo(P, j) = o <=> j = i
      BY <1>3, <2>1, <2>2
    <3> QED
      BY <3>1
  <2>4. i \in 1 .. Len(src) /\ IsKind(i, "cmd")
    BY <1>2, <2>1
  <2>5. code[o] = CommandOf(P[i], Packed(Value(P, i, C0, D0)))
    BY <2>1, <2>4, CommandIs
  <2> HIDE DEF LineAt
  <2> QED
    BY <2>3, <2>5 DEF CommandOf
<1> HIDE DEF Offsets, At1
<1>6. code = [o \in DOMAIN code |-> code[o]]
  BY DEF CodeTable
<1> QED
  BY <1>1, <1>4, <1>5, <1>6

LEMMA AcceptedData ==
  ASSUME Typed, Based, Before(AllLines)
  PROVE  DataIs(P, data, D0)
<1>1. DataOfLines(AllLines)
  BY DEF Before
<1>2. ASSUME NEW i \in DOMAIN P, P[i].kind = "cell"
      PROVE  GetCell(data, D0 + DataUpTo(P, i), P[i].width) = P[i].imm
  <2>1. i \in 1 .. AllLines - 1 /\ IsKind(i, "cell")
    BY <1>2, TextDomain DEF IsKind
  <2>2. GetCell(data, DataAt(i), P[i].width) = P[i].imm
    BY <1>1, <2>1 DEF DataOfLines
  <2> QED
    BY <2>2 DEF DataAt
<1>3. \A o \in DOMAIN data : o \notin D0 .. D0 + DataUpTo(P, Len(P) + 1) - 1 => data[o] = 0
  <2>1. Len(P) + 1 = AllLines
    BY TextDomain DEF AllLines
  <2>2. D0 \in Nat /\ DataUpTo(P, AllLines) \in Nat
    BY TextDomain, UpToNat DEF Based
  <2>3. \A o \in DOMAIN data : o \notin D0 .. DataAt(AllLines) - 1 => data[o] = 0
    BY <1>1 DEF DataOfLines
  <2> QED
    BY <2>1, <2>2, <2>3 DEF DataAt
<1> QED
  BY <1>2, <1>3 DEF DataIs

LEMMA AcceptedRegs ==
  ASSUME Typed, Before(AllLines)
  PROVE  mregs = RegsOf(P, [r \in Reg |-> 0], C0, D0)
<1>1. LabelsOf(AllLines) /\ RegsOfLines(AllLines)
  BY DEF Before
<1>2. mregs \in [Reg -> Int]
  BY DEF Typed, TypeOK
<1> DEFINE Sets(r) == {i \in DOMAIN P : P[i].kind = "set" /\ P[i].dst = r}
<1>3. \A r : Sets(r) = SetsOf(r, AllLines)
  BY TextDomain DEF SetsOf, IsKind
<1> HIDE DEF Sets
<1>4. ASSUME NEW r \in Reg
      PROVE  mregs[r] = IF r = RZ \/ Sets(r) = {} THEN 0 ELSE Value(P, Max(Sets(r)), C0, D0)
  <2>1. CASE r = RZ \/ Sets(r) = {}
    BY <1>1, <1>3, <2>1 DEF RegsOfLines
  <2>2. CASE ~(r = RZ \/ Sets(r) = {})
    <3>1. PICK k \in 1 .. AllLines - 1 : LastSet(r, AllLines, k) /\ mregs[r] = SetTo(k)
      BY <1>1, <1>3, <2>2 DEF RegsOfLines
    <3>2. k \in Sets(r) /\ \A j \in Sets(r) : j <= k
      BY <1>3, <3>1 DEF LastSet
    <3>3. Sets(r) \in SUBSET Int
      BY <1>3 DEF SetsOf
    <3>4. Max(Sets(r)) = k
      BY <3>2, <3>3, MaxIs
    <3>5. SetTo(k) = Value(P, k, C0, D0)
      <4>1. CASE P[k].label = NoLabel
        BY <4>1 DEF SetTo, Value
      <4>2. CASE P[k].label # NoLabel
        <5>1. IsKind(k, "set")
          BY <3>1 DEF LastSet, SetsOf
        <5>2. PICK j \in 1 .. k - 1 : IsKind(j, "label") /\ P[j].label = P[k].label
          BY <1>1, <4>2, <5>1 DEF RegsOfLines
        <5>3. j \in 1 .. AllLines - 1
          BY TextDomain
        <5>4. P[k].label \in DOMAIN labels
          BY <1>1, <5>2, <5>3 DEF LabelsOf
        <5>5. LabelAt(P, P[k].label, C0, D0) = labels[P[k].label]
          BY <1>1, <5>4, LabelIs
        <5> QED
          BY <4>2, <5>5 DEF SetTo, Value
      <4> QED
        BY <4>1, <4>2
    <3> QED
      BY <2>2, <3>1, <3>4, <3>5
  <2> QED
    BY <2>1, <2>2
<1>5. RegsOf(P, [r \in Reg |-> 0], C0, D0) =
        [r \in Reg |-> IF r = RZ \/ Sets(r) = {} THEN 0 ELSE Value(P, Max(Sets(r)), C0, D0)]
  BY DEF RegsOf, Sets
<1> QED
  BY <1>2, <1>4, <1>5

(* The one pass of the assembler, with its table of labels and its fixes   *)
(* for those that are used before they are defined, accepts every text the *)
(* two passes accept and no other, and leaves the same code, data and      *)
(* registers: for texts of any length over any lines that are written as   *)
(* they are meant, and also behind an error that macro() reported and      *)
(* command() forgot.                                                       *)
THEOREM AgreesWithReference == Spec => []AgreesWithTwoPass
<1>1. IInv /\ TwoPassInv => AgreesWithTwoPass
  <2> SUFFICES ASSUME IInv, TwoPassInv, result # "run", src # << >>,
                      \A i \in DOMAIN Meaning : Meaning[i].kind # "other"
               PROVE  /\ result = "ok" <=> Legal(P, C0, D0) /\ Room(P, C0, D0)
                      /\ result = "ok" =>
                           /\ code = CodeOf(P, C0, D0)
                           /\ DataIs(P, data, D0)
                           /\ mregs = RegsOf(P, [r \in Reg |-> 0], C0, D0)
    BY DEF AgreesWithTwoPass, P, C0, D0
  <2>1. Typed /\ Based /\ CodeTable
    BY DEF IInv, TwoPassInv
  <2>2. Clean
    BY <2>1, TextDomain DEF Clean, P
  <2>3. CASE Right
    <3>1. result = "ok" /\ fixes = {} /\ Before(AllLines)
      BY <2>3 DEF Right, AllLines
    <3>2. Legal(P, C0, D0) /\ Room(P, C0, D0)
      BY <2>1, <3>1, AcceptedLegal
    <3> QED
      BY <2>1, <3>1, <3>2, AcceptedCode, AcceptedData, AcceptedRegs
  <2>4. CASE Lost
    <3>1. Wrong /\ result # "ok"
      BY <2>4 DEF Lost
    <3> QED
      BY <3>1 DEF Wrong
  <2> QED
    BY <2>2, <2>3, <2>4 DEF TwoPassInv
<1> QED
  BY <1>1, AlwaysIInv, AlwaysTwoPass, PTL
=============================================================================
