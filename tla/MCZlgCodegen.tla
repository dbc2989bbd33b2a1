---------------------------- MODULE MCZlgCodegen ----------------------------
(***************************************************************************)
(* The compiler on small programs over the variables a and b.              *)
(***************************************************************************)
EXTENDS ZlgMeaning

MCAddr == [v \in {"a", "b"} |-> IF v = "a" THEN 8 ELSE 16]

N(x) == ConstNode(x)
V(v) == VarNode(v)
Bin(l, op, r) == BinopNode(op, l, r)
Set(v, e) == BinopNode("set", VarNode(v), e)
A == V("a")
B == V("b")

Starts == {N(1), N(3), Bin(N(1), "add", N(2)), Bin(N(5), "sub", Bin(N(1), "sub", N(3))),
           UnopNode("sub", N(2)),
           Bin(Bin(N(1), "add", N(2)), "mul", Bin(N(3), "sub", N(1)))}

OfA == {N(1), A, Bin(A, "sub", N(1)), Bin(N(1), "sub", A), Bin(A, "mul", A), UnopNode("not", A),
        Bin(N(2), "sub", Bin(A, "sub", N(3))), Bin(Bin(A, "add", N(1)), "div", Bin(N(2), "mul", N(2)))}

OfBoth == {A, B, N(1), Bin(A, "gr", B), Bin(Bin(A, "or", B), "and", Bin(A, "lse", B))}

Seconds == {Set("b", e) : e \in OfA} \cup {Set("a", e) : e \in OfA \ {A}}

CountDown == Set("a", Bin(A, "sub", N(1)))

Sum == BlockNode(<<Set("b", Bin(B, "add", A)), CountDown>>)

Lasts ==
  {PrintNode(e) : e \in OfBoth}
  \cup {IfNode(Bin(A, "gr", N(1)), Set("b", N(7))),
        IfNode(A, IfNode(B, PrintNode(B))),
        IfElseNode(Bin(A, "ls", B), PrintNode(A), BlockNode(<<CountDown, PrintNode(B)>>)),
        IfElseNode(B, NullNode, IfElseNode(A, Set("b", A), BlockNode(<< >>))),
        WhileNode(Bin(A, "gr", N(0)), CountDown),
        WhileNode(Bin(A, "gr", N(1)), Sum),
        WhileNode(Bin(A, "gr", N(0)), BlockNode(<<CountDown, IfNode(Bin(A, "gr", N(1)), Set("b", A))>>))}

(* [ a = ...; b = ...; ... ] *)
Blocks == {BlockNode(<<Set("a", e), s, l>>) : e \in Starts, s \in Seconds, l \in Lasts}

(* share/zlang.md with 4 and 2 for 100 and 10.                             *)
Example ==
  BlockNode(<<Set("a", N(4)), Set("b", N(2)),
    WhileNode(Bin(A, "gr", B), BlockNode(<<CountDown, PrintNode(A)>>)),
    IfElseNode(Bin(B, "gr", N(0)), PrintNode(A), PrintNode(B))>>)

MCDocumented == {Example}

Repeat(n, s) == BlockNode([i \in 1 .. n |-> s])

(* Trees whose meaning is not asked about: exceptions, exhaustion, prev,   *)
(* assignments as values, expressions as statements.                       *)
Odd ==
  {BlockNode(<<PrintNode(Bin(N(1), "div", N(0))), NullNode>>),
   N(1), A, PrevNode, UnopNode("sub", N(1)), Bin(N(1), "add", N(2)), Set("a", N(1)),
   PrintNode(UnopNode("plus", N(1))), PrintNode(Bin(N(1), "eq", N(1))),
   BinopNode("set", N(1), N(2)), PrintNode(A), PrintNode(Bin(PrevNode, "add", N(1))),
   Set("a", Set("b", N(1))), Repeat(8, Set("a", N(1))), Repeat(3, BlockNode(<<Set("a", N(1)), A, PrintNode(A)>>)),
   BlockNode([i \in 1 .. 16 |-> N(i)]), BlockNode(<<Set("a", N(1)), Set("a", A), PrintNode(A)>>),
   BlockNode([i \in 1 .. 16 |-> IF i = 16 THEN Bin(N(1), "add", N(20)) ELSE UnopNode("sub", N(i))])}

MCPrograms == Blocks \cup MCDocumented \cup Odd

(* [ presi 1; presi 2; presi 1 ] *)
Printing == {BlockNode(<<PrintNode(N(1)), PrintNode(N(2)), PrintNode(N(1))>>)}

RECURSIVE Below(_)
Below(n) == {n} \cup UNION {Below(n.kids[i]) : i \in DOMAIN n.kids}

MCTrees ==
  Blocks \cup UNION {Below(n) : n \in Lasts \cup Seconds \cup {Set("a", e) : e \in Starts}
                                  \cup MCDocumented \cup Odd \cup Printing}

=============================================================================
