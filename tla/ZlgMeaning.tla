----------------------------- MODULE ZlgMeaning -----------------------------
(***************************************************************************)
(* What a tree of the language means (share/zlang.md: an imperative        *)
(* language of signed integers): the variables' last values and what was   *)
(* printed.  Only for trees whose assignments are statements.              *)
(***************************************************************************)
EXTENDS ZlgCodegen

CONSTANT Documented  \* programs the documents give, right although not plain

RECURSIVE Value(_, _)
Value(n, mem) ==
  CASE n.kind = "const" -> n.num
    [] n.kind = "var"   -> mem[n.var]
    [] n.kind = "unop"  -> Alu(n.op, 0, Value(n.kids[1], mem))
    [] n.kind = "binop" -> Alu(n.op, Value(n.kids[1], mem), Value(n.kids[2], mem))

RECURSIVE After(_, _)
After(n, s) ==
  LET kid(i)  == After(n.kids[i], s)
      cond    == Value(n.kids[1], s.mem) # 0
  IN CASE n.kind = "binop"  -> [s EXCEPT !.mem[n.kids[1].var] = Value(n.kids[2], s.mem)]
       [] n.kind = "print"  -> [s EXCEPT !.printed = Append(@, Value(n.kids[1], s.mem))]
       [] n.kind = "block"  -> FoldLeft(LAMBDA t, k : After(k, t), s, n.kids)
       [] n.kind = "if"     -> IF cond THEN kid(2) ELSE s
       [] n.kind = "ifelse" -> IF cond THEN kid(2) ELSE kid(3)
       [] n.kind = "while"  -> IF cond THEN After(n, kid(2)) ELSE s
       [] n.kind = "null"   -> s

Meaning(n) == After(n, [mem |-> [v \in Var |-> 0], printed |-> << >>])

(* Without assignments, and with operators there is an instruction for.    *)
RECURSIVE Pure(_)
Pure(n) == /\ n.kind \in {"const", "var", "unop", "binop"}
           /\ n.op \in Computed \cup {"", "not"}
           /\ \A i \in DOMAIN n.kids : Pure(n.kids[i])

(* An assignment of a pure expression that is not the variable itself.     *)
Assigns(n) == /\ n.kind = "binop" /\ n.op = "set" /\ n.kids[1].kind = "var"
              /\ Pure(n.kids[2]) /\ n.kids[2] # n.kids[1]

(* Assignments, with a branch or a loop of such statements last.           *)
RECURSIVE Plain(_)
Plain(n) ==
  \/ n.kind = "null" \/ Assigns(n)
  \/ /\ n.kind \in {"if", "ifelse", "while"}
     /\ Pure(n.kids[1])
     /\ \A i \in DOMAIN n.kids \ {1} : Plain(n.kids[i])
  \/ /\ n.kind = "block"
     /\ \A i \in DOMAIN n.kids : IF i = Len(n.kids) THEN Plain(n.kids[i]) ELSE Assigns(n.kids[i])

(* The same with at most one thing printed, at the end.                    *)
RECURSIVE PlainToPrint(_)
PlainToPrint(n) ==
  \/ n.kind = "print" /\ Pure(n.kids[1])
  \/ Plain(n)
  \/ /\ n.kind \in {"if", "ifelse"}
     /\ Pure(n.kids[1])
     /\ \A i \in DOMAIN n.kids \ {1} : PlainToPrint(n.kids[i])
  \/ /\ n.kind = "block"
     /\ \A i \in DOMAIN n.kids : IF i = Len(n.kids) THEN PlainToPrint(n.kids[i]) ELSE Assigns(n.kids[i])

(* The registers are enough for the whole program, none has to be taken    *)
(* from a value it still holds: one for each constant and variable that is *)
(* read, two for each assignment, and those of the deepest expression.     *)
RECURSIVE Reads(_), Sets(_), Depth(_)
Reads(n) ==
  IF n.kind = "const" THEN {ConstTag(n.num)}
  ELSE IF n.kind = "var" THEN {VarTag(n.var)}
  ELSE UNION {Reads(n.kids[i]) : i \in DOMAIN n.kids \ (IF n.op = "set" THEN {1} ELSE {})}
Sets(n) == FoldLeft(LAMBDA m, k : m + Sets(k), IF n.op = "set" THEN 1 ELSE 0, n.kids)
Depth(n) == FoldLeft(LAMBDA m, k : IF Depth(k) > m THEN Depth(k) ELSE m, n.ershov, n.kids)

Fits(n) == Cardinality(Reads(n)) + 2 * Sets(n) + Depth(n) <= NReg - Cardinality(Reserved)

(* The code of a plain program does what the program says: it leaves the   *)
(* same values in the variables and prints the same (the produce_node      *)
(* methods, the register cache across statements and loops included).      *)
PlainRight ==
  /\ status \in {"done", "fault", "thrown"}
  /\ (PlainToPrint(tree) /\ Fits(tree)) \/ tree \in Documented
  => \/ /\ status = "thrown"
        /\ \E v \in Var \ produced : VarTag(v) \in Reads(tree)
     \/ /\ status = "done"
        /\ cpu.mem = Meaning(tree).mem
        /\ cpu.printed = Meaning(tree).printed

-----------------------------------------------------------------------------
Content(tag, mem) == IF tag[1] = "const" THEN tag[2] ELSE mem[tag[3]]

(* context.class.h:33 and :120: regstat is the "Register content", and a   *)
(* register found by it is taken with its "content still there".  Where    *)
(* the code has no jump yet: the value is in the register when the code so *)
(* far has run.                                                            *)
RegisterContent ==
  /\ status = "compile"
  /\ \A k \in DOMAIN out : out[k].op # "label"
  => LET c == FoldLeft(LAMBDA m, i : Execute(m, out, i), Boot, out)
     IN \A r \in Reg : map.stat[r] # NoTag => c.regs[r] = Content(map.stat[r], c.mem)
=============================================================================
