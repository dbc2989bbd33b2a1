----------------------------- MODULE ZlgCodegen -----------------------------
(***************************************************************************)
(* The code generator of the compiler: one syntax tree (the input of the   *)
(* grammar is at most one statement), walked as the produce_node methods   *)
(* call each other, and then the code it wrote, run on a machine.          *)
(*                                                                         *)
(* todo is the call stack: what is still to be produced or finished, the   *)
(* next piece first.  vals holds the register of every expression that was *)
(* produced and that nothing has used; the result of an expression that    *)
(* stands as a statement stays there, as its register stays taken.  An     *)
(* instruction is what its line assembles to, with a label in the place of *)
(* its address.                                                            *)
(***************************************************************************)
EXTENDS ZlgContext, ZhvmWord, SequencesExt

CONSTANTS
  Addr,      \* where the assembler puts each variable's quad
  Trees,     \* syntax trees, with every tree below one of them
  Programs   \* those compiled

Var == DOMAIN Addr

(* How many nodes the grammar puts below one; a block has any number.      *)
Arity(kind) ==
  CASE kind \in {"unop", "print"} -> {1}
    [] kind \in {"binop", "if", "while"} -> {2}
    [] kind = "ifelse" -> {3}
    [] kind = "block" -> Nat
    [] OTHER -> {0}

ASSUME TreeAssumption ==
  /\ Programs \subseteq Trees
  /\ \A n \in Trees :
       /\ n.kids \in Seq(Trees)
       /\ Len(n.kids) \in Arity(n.kind)
       /\ n.num \in Int
       /\ n.prevs \in Nat
       /\ n.kind = "var" => n.var \in Var

ASSUME PlaceAssumption == \A v, w \in Var : Addr[v] \in Word /\ (Addr[v] = Addr[w] => v = w)

VARIABLES
  tree,      \* the tree being compiled
  todo,      \* calls of produce_node under way
  map,       \* the context
  vals,      \* registers of results, the newest first
  produced,  \* the variables the data segment has
  labels,    \* ucounter
  out,       \* the code written
  status,    \* "compile", "run", "done", "thrown", "fault"
  cpu        \* the machine the code runs on

vars == <<tree, todo, map, vals, produced, labels, out, status, cpu>>

-----------------------------------------------------------------------------
(***************************************************************************)
(* Syntax trees.  A constructor builds the node and what prepare_node      *)
(* makes of it: its Ershov number, and the references to RA that the prev  *)
(* nodes below it take.                                                    *)
(***************************************************************************)
Node(kind, op, num, var, kids, ershov) ==
  [kind |-> kind, op |-> op, num |-> num, var |-> var, kids |-> kids, ershov |-> ershov,
   prevs |-> FoldLeft(LAMBDA n, k : n + k.prevs, IF kind = "prev" THEN 1 ELSE 0, kids)]

Deepest(kids) == FoldLeft(LAMBDA n, k : IF k.ershov > n THEN k.ershov ELSE n, 0, kids)

ConstNode(n) == Node("const", "", n, "", << >>, 1)
VarNode(v) == Node("var", "", 0, v, << >>, 1)
PrevNode   == Node("prev", "", 0, "", << >>, 1)
NullNode   == Node("null", "", 0, "", << >>, 0)

BinopNode(op, left, right) ==
  Node("binop", op, 0, "", <<left, right>>,
       IF left.ershov = right.ershov THEN left.ershov + 1 ELSE Deepest(<<left, right>>))

Over(kind, op, kids)   == Node(kind, op, 0, "", kids, Deepest(kids))
UnopNode(op, right)    == Over("unop", op, <<right>>)
PrintNode(item)        == Over("print", "", <<item>>)
IfNode(cond, t)        == Over("if", "", <<cond, t>>)
IfElseNode(cond, t, f) == Over("ifelse", "", <<cond, t, f>>)
WhileNode(cond, t)     == Over("while", "", <<cond, t>>)
BlockNode(items)       == Node("block", "", 0, "", items, 0)

-----------------------------------------------------------------------------
(***************************************************************************)
(* Instructions: dst = op[s0, s1, x], where x is a number or a label.      *)
(***************************************************************************)
Ins(op, dst, s0, s1, imm, label) ==
  [op |-> op, dst |-> dst, s0 |-> s0, s1 |-> s1, imm |-> imm, label |-> label]

NoLabel == <<"", 0>>

SetTo(r, n)      == Ins("add", r, RZ, RZ, n, NoLabel)
Move(r, s)       == Ins("add", r, s, RZ, 0, NoLabel)
LoadQ(r, s)      == Ins("ldq", r, s, RZ, 0, NoLabel)
StoreQ(r, s)     == Ins("svq", r, s, RZ, 0, NoLabel)
Compute(op, r, s, t) == Ins(op, r, s, t, 0, NoLabel)
IfZero(r, l)     == Ins("cmz", RP, r, RZ, 0, l)
Jump(l)          == Ins("jump", RP, RZ, RZ, 0, l)
Label(l)         == Ins("label", RZ, RZ, RZ, 0, l)
CallPrint        == Ins("cll", RZ, RZ, RZ, 0, NoLabel)
Nop              == Ins("nop", RZ, RZ, RZ, 0, NoLabel)

(* Instructions that write no register.                                    *)
Silent == {"svq", "label", "cll", "nop"}

-----------------------------------------------------------------------------
(***************************************************************************)
(* The stack of calls.                                                     *)
(***************************************************************************)
Produce(n, root) == [do |-> "produce", node |-> n, root |-> root]
Finish(n, root)  == [do |-> "finish", node |-> n, root |-> root]
Branch(l)        == [do |-> "branch", label |-> l]
Emit(code)       == [do |-> "emit", code |-> code]

(* The registers the code never hands out: RZ, and those reserved.         *)
Reserved == {RZ, RS, RD, RP}

(* fault: the data register is not reserved *)
Prepared_NoData(p) == [Fresh EXCEPT !.count = [r \in Reg |->
  IF r \in Reserved \ {RD} THEN 1 ELSE IF r = RA THEN p.prevs ELSE 0]]

(* prepare_node has run, and Produce has taken its registers.              *)
Prepared(p) == [Fresh EXCEPT !.count = [r \in Reg |->
  IF r \in Reserved THEN 1 ELSE IF r = RA THEN p.prevs ELSE 0]]

Boot == [pc |-> 1, regs |-> [r \in Reg |-> 0], mem |-> [v \in Var |-> 0],
         printed |-> << >>, wild |-> FALSE]

(* Generate, up to the call of the root's produce_node.                    *)
Init ==
  /\ tree \in Programs
  /\ todo = <<Produce(tree, TRUE)>>
  /\ map = Prepared(tree)
  /\ vals = << >>
  /\ produced = {}
  /\ labels = 0
  /\ out = << >>
  /\ status = "compile"
  /\ cpu = Boot

Task == Head(todo)
At(do) == status = "compile" /\ todo # << >> /\ Task.do = do

Producing(kind) == At("produce") /\ Task.node.kind = kind
Finishing(kind) == At("finish") /\ Task.node.kind = kind

FinishingSet == Finishing("binop") /\ Task.node.op = "set"

Kid(i) == Task.node.kids[i]

Then(tasks) == todo' = tasks \o Tail(todo)

(* The task only changes what is still to be done, or only writes.         *)
Plan(tasks) == Then(tasks) /\ UNCHANGED <<tree, map, vals, produced, out, status, cpu>>

-----------------------------------------------------------------------------
(***************************************************************************)
(* Expressions.  The root's result is RA and no register is searched.  An  *)
(* action that uses operands is enabled when they are there, as they are   *)
(* whenever a call has returned: otherwise the walk would be stuck.        *)
(***************************************************************************)
ConstTag(n) == <<"const", n, "">>
VarTag(v)   == <<"var", 0, v>>

Given(m) == {[reg |-> RA, map |-> m]}

(* A register for the leaf; code[r] fills r if it does not hold the tag.   *)
Fill(tag, code) ==
  \E g \in IF Task.root THEN Given(map) ELSE GetRegConst(map, tag) :
    /\ IF g.map.stat[g.reg] = tag
         THEN map' = g.map /\ out' = out
         ELSE map' = MarkRegister(g.map, tag, g.reg) /\ out' = out \o code[g.reg]
    /\ vals' = IF Task.root THEN vals ELSE <<g.reg>> \o vals
    /\ Then(<< >>)
    /\ UNCHANGED <<tree, produced, labels, status, cpu>>

ProduceConst ==
  /\ Producing("const")
  /\ Fill(ConstTag(Task.node.num), [r \in Reg |-> <<SetTo(r, Task.node.num)>>])

ProduceVar ==
  /\ Producing("var")
  /\ Task.node.var \in produced
  /\ Fill(VarTag(Task.node.var),
          [r \in Reg |-> <<SetTo(r, Addr[Task.node.var]), LoadQ(r, r)>>])

ProducePrev ==
  /\ Producing("prev")
  /\ map' = AddRef(map, RA)
  /\ vals' = <<RA>> \o vals
  /\ Then(<< >>)
  /\ UNCHANGED <<tree, produced, labels, out, status, cpu>>

Enough == Task.node.ershov <= CountFreeRegisters(map)

(* The operators that have an instruction.                                 *)
Computed == {"add", "sub", "mul", "div", "and", "or", "gr", "ls", "gre", "lse"}

RightFirst(n) == n.kids[2].ershov > n.kids[1].ershov

ProduceBinop ==
  /\ Producing("binop")
  /\ Task.node.op # "set"
  /\ Enough
  /\ LET first == IF RightFirst(Task.node) THEN 2 ELSE 1
     IN Plan(<<Produce(Kid(first), FALSE), Produce(Kid(3 - first), FALSE),
               Finish(Task.node, Task.root)>>)
  /\ UNCHANGED labels

(* fault: the second operand's register is let go twice, the first's never *)
FinishBinop_ReleasesOne ==
  /\ Finishing("binop")
  /\ Task.node.op \in Computed
  /\ Len(vals) >= 2
  /\ LET second == vals[1]
         first  == vals[2]
         left   == IF RightFirst(Task.node) THEN second ELSE first
         right  == IF RightFirst(Task.node) THEN first ELSE second
         m      == Release(map, second)
     IN \E g \in IF Task.root THEN Given(m) ELSE GetRegBinOp(m) :
          /\ map' = Release(g.map, second)
          /\ out' = Append(out, Compute(Task.node.op, g.reg, left, right))
          /\ vals' = (IF Task.root THEN << >> ELSE <<g.reg>>) \o Tail(Tail(vals))
  /\ Then(<< >>)
  /\ UNCHANGED <<tree, produced, labels, status, cpu>>

(* The first operand's register may become the result's.                   *)
FinishBinop ==
  /\ Finishing("binop")
  /\ Task.node.op \in Computed
  /\ Len(vals) >= 2
  /\ LET second == vals[1]
         first  == vals[2]
         left   == IF RightFirst(Task.node) THEN second ELSE first
         right  == IF RightFirst(Task.node) THEN first ELSE second
         m      == Release(map, first)
     IN \E g \in IF Task.root THEN Given(m) ELSE GetRegBinOp(m) :
          /\ map' = Release(g.map, second)
          /\ out' = Append(out, Compute(Task.node.op, g.reg, left, right))
          /\ vals' = (IF Task.root THEN << >> ELSE <<g.reg>>) \o Tail(Tail(vals))
  /\ Then(<< >>)
  /\ UNCHANGED <<tree, produced, labels, status, cpu>>

ProduceUnop ==
  /\ Producing("unop")
  /\ Enough
  /\ Plan(<<Produce(Kid(1), FALSE), Finish(Task.node, Task.root)>>)
  /\ UNCHANGED labels

FinishUnop ==
  /\ Finishing("unop")
  /\ Task.node.op \in {"sub", "not"}
  /\ vals # << >>
  /\ LET m == Release(map, Head(vals))
     IN \E g \in IF Task.root THEN Given(m) ELSE GetRegBinOp(m) :
          /\ map' = g.map
          /\ out' = Append(out, Compute(Task.node.op, g.reg, RZ, Head(vals)))
          /\ vals' = (IF Task.root THEN << >> ELSE <<g.reg>>) \o Tail(vals)
  /\ Then(<< >>)
  /\ UNCHANGED <<tree, produced, labels, status, cpu>>

ProduceSet ==
  /\ Producing("binop")
  /\ Task.node.op = "set"
  /\ Kid(1).kind = "var"
  /\ Plan(<<Produce(Kid(2), FALSE), Finish(Task.node, Task.root)>>)
  /\ UNCHANGED labels

(* The register an assignment takes for its own value; it is not written.  *)
SetResults(m) ==
  IF Task.root THEN Given(m)
  ELSE {[reg |-> g.reg, map |-> AddRef(g.map, g.reg)] : g \in GetRegBinOp(m)}

(* fault: the new value is not left in the variable's register *)
FinishSet_NoCopy ==
  /\ FinishingSet
  /\ vals # << >>
  /\ LET v == Kid(1).var
         right == Head(vals)
     IN \E g \in SetResults(Release(map, right)) : \E l \in GetRegConst(g.map, VarTag(v)) :
          /\ map' = l.map
          /\ produced' = produced \cup {v}
          /\ out' = out \o <<SetTo(l.reg, Addr[v]), StoreQ(l.reg, right)>>
          /\ vals' = (IF Task.root THEN << >> ELSE <<g.reg>>) \o Tail(vals)
  /\ Then(<< >>)
  /\ UNCHANGED <<tree, labels, status, cpu>>

(* The register found for the variable stays taken, and is not marked.     *)
FinishSet ==
  /\ FinishingSet
  /\ vals # << >>
  /\ LET v == Kid(1).var
         right == Head(vals)
     IN \E g \in SetResults(Release(map, right)) : \E l \in GetRegConst(g.map, VarTag(v)) :
          /\ map' = l.map
          /\ produced' = produced \cup {v}
          /\ out' = out \o <<SetTo(l.reg, Addr[v]), StoreQ(l.reg, right), Move(l.reg, right)>>
          /\ vals' = (IF Task.root THEN << >> ELSE <<g.reg>>) \o Tail(vals)
  /\ Then(<< >>)
  /\ UNCHANGED <<tree, labels, status, cpu>>

-----------------------------------------------------------------------------
(***************************************************************************)
(* Statements.  A label's number is taken when its statement is reached;   *)
(* prepare_node takes it in another order, also once for each statement.   *)
(***************************************************************************)
ProducePrint ==
  /\ Producing("print")
  /\ Plan(<<Produce(Kid(1), FALSE), Finish(Task.node, FALSE)>>)
  /\ UNCHANGED labels

FinishPrint ==
  /\ Finishing("print")
  /\ vals # << >>
  /\ LET r == Head(vals)
     IN /\ out' = out \o (IF r = RA THEN << >> ELSE <<Move(RA, r)>>) \o <<CallPrint>>
        /\ map' = Release(map, r)
  /\ vals' = Tail(vals)
  /\ Then(<< >>)
  /\ UNCHANGED <<tree, produced, labels, status, cpu>>

(* fault: the counter is not advanced *)
Counter_Same == labels' = labels

Counter == labels' = labels + 1

ProduceIf ==
  /\ Producing("if")
  /\ LET end == <<"if", labels>>
     IN Plan(<<Produce(Kid(1), FALSE), Branch(end), Produce(Kid(2), FALSE),
               Emit(<<Label(end), Nop>>)>>)
  /\ Counter

ProduceIfElse ==
  /\ Producing("ifelse")
  /\ LET no  == <<"if", labels>>
         end == <<"else", labels>>
     IN Plan(<<Produce(Kid(1), FALSE), Branch(no), Produce(Kid(2), FALSE),
               Emit(<<Jump(end), Label(no)>>), Produce(Kid(3), FALSE),
               Emit(<<Label(end), Nop>>)>>)
  /\ Counter

ProduceWhile ==
  /\ Producing("while")
  /\ LET start == <<"while_start", labels>>
         end   == <<"while_end", labels>>
     IN Plan(<<Emit(<<Label(start)>>), Produce(Kid(1), FALSE), Branch(end),
               Produce(Kid(2), FALSE), Emit(<<Jump(start), Label(end), Nop>>)>>)
  /\ Counter

(* cmz jumps over the statement; the condition's register is let go.       *)
Test ==
  /\ At("branch")
  /\ vals # << >>
  /\ out' = Append(out, IfZero(Head(vals), Task.label))
  /\ map' = Release(map, Head(vals))
  /\ vals' = Tail(vals)
  /\ Then(<< >>)
  /\ UNCHANGED <<tree, produced, labels, status, cpu>>

Write ==
  /\ At("emit")
  /\ out' = out \o Task.code
  /\ Then(<< >>)
  /\ UNCHANGED <<tree, map, vals, produced, labels, status, cpu>>

ProduceBlock ==
  /\ Producing("block")
  /\ Plan(IF Task.node.kids = << >>
            THEN <<Emit(<<Nop>>)>>
            ELSE [i \in DOMAIN Task.node.kids |-> Produce(Kid(i), FALSE)])
  /\ UNCHANGED labels

ProduceNull == Producing("null") /\ Plan(<<Emit(<<Nop>>)>>) /\ UNCHANGED labels

-----------------------------------------------------------------------------
(***************************************************************************)
(* The exceptions: an undefined variable, a target that is no variable, an *)
(* operator without an instruction, and no register left.  zlgc does not   *)
(* catch them.                                                             *)
(***************************************************************************)
Invalid ==
  \/ Producing("var") /\ Task.node.var \notin produced
  \/ Producing("binop") /\ Task.node.op = "set" /\ Kid(1).kind # "var"
  \/ Finishing("binop") /\ Task.node.op \in {"eq", "neq"}
  \/ Finishing("unop") /\ Task.node.op = "plus"

Exhausted ==
  \/ Producing("const") /\ ~Task.root /\ GetRegConst(map, ConstTag(Task.node.num)) = {}
  \/ Producing("var") /\ ~Task.root /\ GetRegConst(map, VarTag(Task.node.var)) = {}
  \/ Producing("unop") /\ ~Enough
  \/ Producing("binop") /\ Task.node.op # "set" /\ ~Enough
  \/ /\ Finishing("binop")
     /\ Task.node.op \in Computed
     /\ ~Task.root
     /\ GetRegBinOp(Release(map, vals[2])) = {}
  \/ Finishing("unop") /\ ~Task.root /\ GetRegBinOp(Release(map, Head(vals))) = {}
  \/ /\ FinishingSet
     /\ \A g \in SetResults(Release(map, Head(vals))) :
          GetRegConst(g.map, VarTag(Kid(1).var)) = {}

Throw ==
  /\ Invalid \/ Exhausted
  /\ status' = "thrown"
  /\ UNCHANGED <<tree, todo, map, vals, produced, labels, out, cpu>>

-----------------------------------------------------------------------------
(***************************************************************************)
(* The machine.  A quad is loaded from or stored to a variable's address;  *)
(* any other address is not followed.                                      *)
(***************************************************************************)
CellAt(x) == {v \in Var : Addr[v] = x}

WithReg(c, r, x) == [c EXCEPT !.regs = [@ EXCEPT ![r] = IF r = RZ THEN 0 ELSE x]]

Goto(c, code, l) == [c EXCEPT !.pc = CHOOSE k \in DOMAIN code : code[k] = Label(l)]

Execute(c, code, i) ==
  LET x == c.regs[i.s0]
      y == Wrap(c.regs[i.s1] + i.imm)
      n == [c EXCEPT !.pc = @ + 1]
  IN CASE i.op \in {"label", "nop"} -> n
       [] i.op = "cll" -> [n EXCEPT !.printed = Append(@, c.regs[RA])]
       [] i.op = "jump" -> Goto(n, code, i.label)
       [] i.op = "cmz" -> IF x = 0 THEN Goto(n, code, i.label) ELSE n
       [] i.op = "ldq" -> IF CellAt(x) = {} THEN [n EXCEPT !.wild = TRUE]
                          ELSE WithReg(n, i.dst, c.mem[CHOOSE v \in CellAt(x) : TRUE])
       [] i.op = "svq" -> IF CellAt(c.regs[i.dst]) = {} THEN [n EXCEPT !.wild = TRUE]
                          ELSE [n EXCEPT !.mem = [v \in Var |->
                                  IF Addr[v] = c.regs[i.dst] THEN x ELSE c.mem[v]]]
       [] i.op \in ArithOps -> IF Traps(i.op, y) THEN [n EXCEPT !.wild = TRUE]
                               ELSE WithReg(n, i.dst, Alu(i.op, x, y))

StartRun ==
  /\ status = "compile"
  /\ todo = << >>
  /\ status' = "run"
  /\ UNCHANGED <<tree, todo, map, vals, produced, labels, out, cpu>>

Run ==
  /\ status = "run"
  /\ IF cpu.wild
       THEN status' = "fault" /\ cpu' = cpu
     ELSE IF cpu.pc > Len(out)
       THEN status' = "done" /\ cpu' = cpu
       ELSE status' = "run" /\ cpu' = Execute(cpu, out, out[cpu.pc])
  /\ UNCHANGED <<tree, todo, map, vals, produced, labels, out>>

Stopped == status \in {"done", "thrown", "fault"} /\ UNCHANGED vars

Next ==
  \/ ProduceConst \/ ProduceVar \/ ProducePrev
  \/ ProduceBinop \/ FinishBinop \/ ProduceUnop \/ FinishUnop
  \/ ProduceSet \/ FinishSet
  \/ ProducePrint \/ FinishPrint
  \/ ProduceIf \/ ProduceIfElse \/ ProduceWhile \/ Test \/ Write
  \/ ProduceBlock \/ ProduceNull
  \/ Throw
  \/ StartRun \/ Run \/ Stopped

Spec == Init /\ [][Next]_vars
-----------------------------------------------------------------------------
(***************************************************************************)
(* Properties.                                                             *)
(***************************************************************************)
Tag == {NoTag} \cup ({"const"} \X Int \X {""}) \cup ({"var"} \X {0} \X Var)

Context == [count : [Reg -> Nat], stat : [Reg -> Tag], queue : Seq(Reg)]

(* The context's arrays (context) hold what they can hold; no reference is *)
(* given back (Release) that was not taken.                                *)
ContextTyped == map \in Context /\ vals \in Seq(Reg)

InQueue(m) == {m.queue[i] : i \in DOMAIN m.queue}

(* No register is lost (context::Release, GetRegConst, GetRegBinOp): one   *)
(* without a reference is in the queue, and so are the reserved ones, which*)
(* keeps queue.front() away from an empty queue.                           *)
NoneLost == \A r \in Reg : map.count[r] = 0 \/ r \in Reserved => r \in InQueue(map)

(* What an expression's register holds is not given away before it is used:*)
(* every result that waits has its own reference on its register.          *)
ResultsHeld ==
  \A r \in Reg : map.count[r] >= Cardinality({i \in DOMAIN vals : vals[i] = r})

(* The code (produce_node) writes RZ, RS, RD and RP nowhere but RP where it*)
(* jumps, however the registers were cached, let go and reused.            *)
ReservedKept ==
  \A k \in DOMAIN out :
    \/ out[k].op \in Silent
    \/ out[k].dst \notin Reserved
    \/ out[k].op \in {"cmz", "jump"} /\ out[k].dst = RP

(* Every label a jump of the code (zif, zifelse, zwhile) names is defined  *)
(* once, in every nesting of statements.                                   *)
JumpsLand ==
  status = "run" =>
    \A k \in DOMAIN out : out[k].op \in {"cmz", "jump"} =>
      Cardinality({j \in DOMAIN out : out[j] = Label(out[k].label)}) = 1
=============================================================================
