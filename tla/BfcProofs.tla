------------------------------ MODULE BfcProofs ------------------------------
(***************************************************************************)
(* Theorems about Bfc for every text: what is printed is well formed, and  *)
(* so is the machine it is assembled into, and the labels are sound.       *)
(***************************************************************************)
EXTENDS Bfc, ZhvmExecProofs, FiniteSetTheorems, SequenceTheorems,
        WellFoundedInduction

Names     == {"label", "end"} \X Nat
CmdLine   == [kind : {"cmd"}, opc : Opcodes, dst : Reg, s0 : Reg, s1 : {RZ}, imm : Int,
              label : Names \cup {NoLabel}]
LabelLines == [kind : {"label"}, label : Names]
PrintLine == CmdLine \cup LabelLines

CmdsIn(p) == {i \in DOMAIN p : IsCmd(p[i])}

(* Types of what is printed, and the count of the commands in it.          *)
PrintOk ==
  /\ printed \in Seq(PrintLine)
  /\ \E S : origin \in Seq(S)
  /\ Len(origin) = Cardinality(CmdsIn(printed))
  /\ text \in Seq(STRING) /\ rest \in Seq(STRING)
  /\ counter \in Nat
  /\ counter_stack \in Seq(Nat)
  /\ phase \in {"compile", "error", "printed", "refused", "run"}

(* Of the numbers below the counter, each may name one loop; of a loop     *)
(* that is open the beginning is defined and the end is not.               *)
LabelsOk ==
  /\ counter = Len(origin) - (IF phase \in {"printed", "refused", "run"} THEN 1 ELSE 0)
  /\ \A i \in Labels : \E n \in Nat :
       n < counter /\ printed[i].label \in {LabelOf(n), EndOf(n)}
  /\ \A i, j \in Labels : printed[i].label = printed[j].label => i = j
  /\ \A k \in DOMAIN counter_stack :
       /\ counter_stack[k] < counter
       /\ \E i \in Labels : printed[i].label = LabelOf(counter_stack[k])
       /\ \A i \in Labels : printed[i].label # EndOf(counter_stack[k])
  /\ \A j, k \in DOMAIN counter_stack : counter_stack[j] = counter_stack[k] => j = k

BfcInv == VMTypeOK /\ PrintOk /\ LabelsOk

LEMMA RegsAre == {RZ, RA, RB, RC, RP} \subseteq Reg /\ RZ = 0 /\ RP = 15
BY RegAssumption, RegistersAssumption DEF RZ, RA, RP

LEMMA OpcodesAre ==
  {"add", "sub", "ldb", "svb", "cmz", "cmn", "ccl", "hlt", "reserved"} \subseteq Opcodes
BY DEF Opcodes, ArithOps

LEMMA CmdIs ==
  ASSUME NEW opc \in Opcodes, NEW dst \in Reg, NEW s0 \in Reg, NEW imm \in Int
  PROVE  Cmd(opc, dst, s0, imm) \in CmdLine
BY DEF Cmd, CmdLine

LEMMA CmdToIs ==
  ASSUME NEW opc \in Opcodes, NEW dst \in Reg, NEW s0 \in Reg, NEW l \in Names
  PROVE  CmdTo(opc, dst, s0, l) \in CmdLine
<1>1. Cmd(opc, dst, s0, 0) \in CmdLine
  BY CmdIs
<1> QED
  BY <1>1 DEF CmdTo, CmdLine

LEMMA LabelIs ==
  ASSUME NEW n \in Nat
  PROVE  /\ LabelOf(n) \in Names /\ EndOf(n) \in Names
         /\ LabelLine(LabelOf(n)) \in LabelLines /\ LabelLine(EndOf(n)) \in LabelLines
BY DEF LabelOf, EndOf, Names, LabelLine, LabelLines

LEMMA NamesDiffer ==
  ASSUME NEW m, NEW n
  PROVE  /\ LabelOf(m) = LabelOf(n) => m = n
         /\ EndOf(m) = EndOf(n) => m = n
         /\ LabelOf(m) # EndOf(n)
BY DEF LabelOf, EndOf

(* A run of equal characters has an end.                                   *)
LEMMA LeastOf ==
  ASSUME NEW S \in SUBSET Nat, S # {}
  PROVE  \E x \in S : \A y \in S : x <= y
<1>1. PICK x \in S : \A y \in S : ~(<<y, x>> \in OpToRel(<, Nat))
  <2>1. IsWellFoundedOn(OpToRel(<, Nat), Nat)
    BY NatLessThanWellFounded
  <2> QED
    BY <2>1, WFMin
<1>2. ASSUME NEW y \in S
      PROVE  x <= y
  <2>1. y < x => <<y, x>> \in OpToRel(<, Nat)
    BY DEF OpToRel
  <2>2. ~(y < x)
    BY <1>1, <2>1, Zenon
  <2> QED
    BY <2>2
<1> QED
  BY <1>2

LEMMA CountIs ==
  ASSUME rest \in Seq(STRING), rest # << >>
  PROVE  count \in 1 .. Len(rest)
<1> DEFINE P(n) == /\ \A i \in 1 .. n : rest[i] = rest[1]
                   /\ n = Len(rest) \/ rest[n + 1] # rest[1]
           other == {j \in 2 .. Len(rest) : rest[j] # rest[1]}
<1>1. Len(rest) \in Nat /\ Len(rest) >= 1
  BY EmptySeq
<1>2. \E n \in 1 .. Len(rest) : P(n)
  <2>1. CASE other = {}
    <3>1. P(Len(rest))
      BY <1>1, <2>1
    <3> QED
      BY <1>1, <3>1
  <2>2. CASE other # {}
    <3>1. PICK x \in other : \A y \in other : x <= y
      <4>1. other \in SUBSET Nat
        BY <1>1
      <4> HIDE DEF other
      <4> QED
        BY <2>2, <4>1, LeastOf
    <3>2. x - 1 \in 1 .. Len(rest) /\ rest[x] # rest[1] /\ (x - 1) + 1 = x
      BY <1>1
    <3>3. \A i \in 1 .. x - 1 : rest[i] = rest[1]
      BY <1>1, <3>1
    <3>4. P(x - 1)
      BY <3>2, <3>3
    <3> QED
      BY <3>2, <3>4
  <2> QED
    BY <2>1, <2>2
<1> HIDE DEF P
<1>3. count = CHOOSE n \in 1 .. Len(rest) : P(n)
  BY DEF count, P
<1> QED
  BY <1>2, <1>3

-----------------------------------------------------------------------------
(***************************************************************************)
(* What Emit appends.                                                      *)
(***************************************************************************)
LEMMA SeqIndex ==
  ASSUME NEW S, NEW s \in Seq(S)
  PROVE  /\ Len(s) \in Nat /\ DOMAIN s = 1 .. Len(s)
         /\ \A i \in DOMAIN s : s[i] \in S
OBVIOUS

LEMMA LineKinds ==
  /\ \A s \in CmdLine : IsCmd(s) /\ s.kind # "label"
  /\ \A s \in LabelLines : ~IsCmd(s) /\ s.kind = "label"
BY DEF CmdLine, LabelLines, IsCmd

LEMMA FiniteCmds ==
  ASSUME NEW p \in Seq(PrintLine)
  PROVE  IsFiniteSet(CmdsIn(p)) /\ Cardinality(CmdsIn(p)) \in Nat
<1>1. CmdsIn(p) \subseteq 1 .. Len(p) /\ Len(p) \in Nat
  BY DEF CmdsIn
<1>2. IsFiniteSet(1 .. Len(p))
  BY <1>1, FS_Interval
<1> QED
  BY <1>1, <1>2, FS_Subset, FS_CardinalityType

LEMMA FunctionIsSeq ==
  ASSUME NEW T, NEW m \in Nat, NEW f \in [1 .. m -> T]
  PROVE  f \in Seq(T) /\ Len(f) = m
OBVIOUS

(* Commands cs and labels ls behind p.                                     *)
LEMMA Behind ==
  ASSUME NEW p \in Seq(PrintLine), NEW cs \in Seq(CmdLine), NEW ls \in Seq(LabelLines)
  PROVE  /\ p \o cs \o ls \in Seq(PrintLine)
         /\ Cardinality(CmdsIn(p \o cs \o ls)) = Cardinality(CmdsIn(p)) + Len(cs)
         /\ Len(p \o cs \o ls) = Len(p) + Len(cs) + Len(ls)
         /\ \A i \in 1 .. Len(p) : (p \o cs \o ls)[i] = p[i]
         /\ \A i \in 1 .. Len(cs) : (p \o cs \o ls)[Len(p) + i] = cs[i]
         /\ \A i \in 1 .. Len(ls) : (p \o cs \o ls)[Len(p) + Len(cs) + i] = ls[i]
<1> DEFINE q == p \o cs \o ls
<1>1. /\ Len(p) \in Nat /\ Len(cs) \in Nat /\ Len(ls) \in Nat
      /\ \A i \in 1 .. Len(p) : p[i] \in PrintLine
      /\ \A i \in 1 .. Len(cs) : cs[i] \in CmdLine
      /\ \A i \in 1 .. Len(ls) : ls[i] \in LabelLines
  BY SeqIndex
<1>2. cs \in Seq(PrintLine) /\ ls \in Seq(PrintLine)
  BY DEF PrintLine
<1>3. p \o cs \in Seq(PrintLine) /\ Len(p \o cs) = Len(p) + Len(cs)
      /\ \A i \in 1 .. Len(p) + Len(cs) :
           (p \o cs)[i] = IF i <= Len(p) THEN p[i] ELSE cs[i - Len(p)]
  BY <1>2, ConcatProperties
<1>4. q \in Seq(PrintLine) /\ Len(q) = Len(p) + Len(cs) + Len(ls)
      /\ \A i \in 1 .. Len(p) + Len(cs) + Len(ls) :
           q[i] = IF i <= Len(p) + Len(cs) THEN (p \o cs)[i] ELSE ls[i - (Len(p) + Len(cs))]
  BY <1>2, <1>3, ConcatProperties
<1> HIDE DEF q
<1>5. \A i \in 1 .. Len(p) : q[i] = p[i]
  BY <1>1, <1>3, <1>4
<1>6. \A i \in 1 .. Len(cs) : q[Len(p) + i] = cs[i]
  <2> SUFFICES ASSUME NEW i \in 1 .. Len(cs)
               PROVE  q[Len(p) + i] = cs[i]
    OBVIOUS
  <2>1. /\ Len(p) + i \in 1 .. Len(p) + Len(cs) /\ ~(Len(p) + i <= Len(p))
        /\ (Len(p) + i) - Len(p) = i /\ Len(p) + i \in 1 .. Len(p) + Len(cs) + Len(ls)
        /\ Len(p) + i <= Len(p) + Len(cs)
    BY <1>1
  <2>2. q[Len(p) + i] = (p \o cs)[Len(p) + i]
    BY <1>4, <2>1
  <2> QED
    BY <1>3, <2>1, <2>2
<1>7. \A i \in 1 .. Len(ls) : q[Len(p) + Len(cs) + i] = ls[i]
  <2> SUFFICES ASSUME NEW i \in 1 .. Len(ls)
               PROVE  q[Len(p) + Len(cs) + i] = ls[i]
    OBVIOUS
  <2>1. /\ Len(p) + Len(cs) + i \in 1 .. Len(p) + Len(cs) + Len(ls)
        /\ ~(Len(p) + Len(cs) + i <= Len(p) + Len(cs))
        /\ (Len(p) + Len(cs) + i) - (Len(p) + Len(cs)) = i
    BY <1>1
  <2> QED
    BY <1>4, <2>1
<1>8. CmdsIn(q) = CmdsIn(p) \cup (Len(p) + 1 .. Len(p) + Len(cs))
  <2>1. DOMAIN q = 1 .. Len(p) + Len(cs) + Len(ls) /\ DOMAIN p = 1 .. Len(p)
    BY <1>4
  <2>2. ASSUME NEW i \in 1 .. Len(p)
        PROVE  IsCmd(q[i]) <=> IsCmd(p[i])
    BY <1>5
  <2>3. ASSUME NEW i \in Len(p) + 1 .. Len(p) + Len(cs)
        PROVE  IsCmd(q[i])
    <3>1. i - Len(p) \in 1 .. Len(cs) /\ Len(p) + (i - Len(p)) = i
      BY <1>1
    <3>2. q[i] = cs[i - Len(p)]
      BY <1>6, <3>1
    <3> QED
      BY <1>1, <3>1, <3>2, LineKinds
  <2>4. ASSUME NEW i \in Len(p) + Len(cs) + 1 .. Len(p) + Len(cs) + Len(ls)
        PROVE  ~IsCmd(q[i])
    <3> DEFINE j == i - (Len(p) + Len(cs))
    <3>1. j \in 1 .. Len(ls) /\ Len(p) + Len(cs) + j = i
      BY <1>1
    <3> HIDE DEF j
    <3>2. q[i] = ls[j]
      BY <1>7, <3>1
    <3> QED
      BY <1>1, <3>1, <3>2, LineKinds
  <2>5. ASSUME NEW i \in CmdsIn(q)
        PROVE  i \in CmdsIn(p) \cup (Len(p) + 1 .. Len(p) + Len(cs))
    BY <1>1, <2>1, <2>2, <2>4 DEF CmdsIn
  <2>6. ASSUME NEW i \in CmdsIn(p)
        PROVE  i \in CmdsIn(q)
    BY <1>1, <2>1, <2>2 DEF CmdsIn
  <2>7. ASSUME NEW i \in Len(p) + 1 .. Len(p) + Len(cs)
        PROVE  i \in CmdsIn(q)
    <3>1. i \in DOMAIN q
      BY <1>1, <2>1
    <3> QED
      BY <2>3, <3>1 DEF CmdsIn
  <2> DEFINE new == Len(p) + 1 .. Len(p) + Len(cs)
  <2>8. \A i : i \in CmdsIn(q) <=> i \in CmdsIn(p) \/ i \in new
    BY <2>5, <2>6, <2>7
  <2> HIDE DEF new
  <2>9. CmdsIn(q) = CmdsIn(p) \cup new
    BY <2>8
  <2> QED
    BY <2>9 DEF new
<1>9. Cardinality(CmdsIn(q)) = Cardinality(CmdsIn(p)) + Len(cs)
  <2> DEFINE new == Len(p) + 1 .. Len(p) + Len(cs)
  <2>1. IsFiniteSet(new) /\ Cardinality(new) = Len(cs)
    <3> DEFINE a == Len(p) + 1
               b == Len(p) + Len(cs)
    <3>1. a \in Int /\ b \in Int /\ (IF a > b THEN 0 ELSE b - a + 1) = Len(cs)
      BY <1>1
    <3> HIDE DEF a, b
    <3>2. IsFiniteSet(a .. b) /\ Cardinality(a .. b) = IF a > b THEN 0 ELSE b - a + 1
      BY <3>1, FS_Interval
    <3> QED
      BY <3>1, <3>2 DEF a, b
  <2>2. IsFiniteSet(CmdsIn(p)) /\ CmdsIn(p) \cap new = {}
    BY <1>1, FiniteCmds DEF CmdsIn
  <2> HIDE DEF new
  <2>3. Cardinality(CmdsIn(p) \cup new) = Cardinality(CmdsIn(p)) + Cardinality(new)
    <3>1. /\ Cardinality(CmdsIn(p) \cup new) =
               Cardinality(CmdsIn(p)) + Cardinality(new) - Cardinality(CmdsIn(p) \cap new)
          /\ Cardinality(CmdsIn(p)) \in Nat /\ Cardinality(new) \in Nat
      BY <2>1, <2>2, FS_Union, FS_CardinalityType
    <3>2. Cardinality(CmdsIn(p) \cap new) = 0
      BY <2>2, FS_EmptySet
    <3> QED
      BY <3>1, <3>2
  <2> QED
    BY <1>8, <2>1, <2>3 DEF new
<1> QED
  BY <1>4, <1>5, <1>6, <1>7, <1>9 DEF q

LEMMA EmitPrints ==
  ASSUME PrintOk, NEW n \in 1 .. Len(rest), NEW k \in Nat,
         NEW cs \in Seq(CmdLine), NEW ls \in Seq(LabelLines),
         Emit(n, k, cs, ls), counter_stack' \in Seq(Nat)
  PROVE  PrintOk' /\ Len(origin') = Len(origin) + Len(cs) /\ counter' = counter + k
<1>1. /\ printed' = printed \o cs \o ls
      /\ counter' = counter + k
      /\ rest' = SubSeq(rest, n + 1, Len(rest))
      /\ text' = text /\ phase' = phase
  BY DEF Emit
<1>2. /\ printed \in Seq(PrintLine)
      /\ Len(origin) = Cardinality(CmdsIn(printed))
      /\ text \in Seq(STRING) /\ rest \in Seq(STRING) /\ counter \in Nat
      /\ phase \in {"compile", "error", "printed", "refused", "run"}
  BY DEF PrintOk
<1>3. printed' \in Seq(PrintLine) /\ Cardinality(CmdsIn(printed')) = Len(origin) + Len(cs)
  BY <1>1, <1>2, Behind
<1>4. (\E S : origin' \in Seq(S)) /\ Len(origin') = Len(origin) + Len(cs)
  <2> DEFINE done == Len(Program(text)) - Len(Program(rest))
             f == [i \in DOMAIN cs |->
                     [done |-> IF i = 4 THEN done + n ELSE done,
                      saved |-> i > 2 /\ Len(cs) = 4]]
  <2>1. origin' = origin \o f /\ DOMAIN f = DOMAIN cs /\ f = [i \in DOMAIN cs |-> f[i]]
    BY DEF Emit
  <2>2. PICK S : origin \in Seq(S)
    BY DEF PrintOk
  <2> HIDE DEF f
  <2> DEFINE T == S \cup {f[i] : i \in DOMAIN cs}
  <2>3. DOMAIN cs = 1 .. Len(cs) /\ Len(cs) \in Nat
    OBVIOUS
  <2>4. f \in Seq(T) /\ Len(f) = Len(cs)
    <3> DEFINE m == Len(cs)
    <3>1. f \in [1 .. m -> T] /\ m \in Nat
      BY <2>1, <2>3
    <3> HIDE DEF m
    <3>2. f \in Seq(T) /\ Len(f) = m
      BY <3>1, FunctionIsSeq, Zenon
    <3> QED
      BY <3>2 DEF m
  <2>5. origin \in Seq(T)
    BY <2>2
  <2> HIDE DEF T
  <2>6. origin \o f \in Seq(T) /\ Len(origin \o f) = Len(origin) + Len(f)
    BY <2>4, <2>5, ConcatProperties, Zenon
  <2>7. origin' \in Seq(T) /\ Len(origin') = Len(origin) + Len(cs)
    BY <2>1, <2>4, <2>6, Zenon
  <2> QED
    BY <2>7
<1>5. rest' \in Seq(STRING)
  <2>1. Len(rest) \in Nat
    BY <1>2
  <2> QED
    BY <1>1, <1>2, <2>1, SubSeqProperties
<1>6. counter' \in Nat
  BY <1>1, <1>2
<1>7. PrintOk'
  BY <1>1, <1>2, <1>3, <1>4, <1>5, <1>6 DEF PrintOk, CmdsIn
<1> QED
  BY <1>1, <1>4, <1>7

(* The labels of what is printed grow by ls.                               *)
LabelsGrow(cs, ls) ==
  /\ Labels \subseteq Labels'
  /\ \A i \in Labels : printed'[i] = printed[i] /\ i <= Len(printed)
  /\ \A i \in Labels' : i \notin Labels =>
       \E j \in 1 .. Len(ls) : i = Len(printed) + Len(cs) + j /\ printed'[i] = ls[j]
  /\ \A j \in 1 .. Len(ls) :
       /\ Len(printed) + Len(cs) + j \in Labels'
       /\ printed'[Len(printed) + Len(cs) + j] = ls[j]

LEMMA LabelsBehind ==
  ASSUME printed \in Seq(PrintLine), NEW cs \in Seq(CmdLine), NEW ls \in Seq(LabelLines),
         printed' = printed \o cs \o ls
  PROVE  LabelsGrow(cs, ls)
<1>1. /\ printed' \in Seq(PrintLine)
      /\ Len(printed') = Len(printed) + Len(cs) + Len(ls)
      /\ \A i \in 1 .. Len(printed) : printed'[i] = printed[i]
      /\ \A i \in 1 .. Len(cs) : printed'[Len(printed) + i] = cs[i]
      /\ \A i \in 1 .. Len(ls) : printed'[Len(printed) + Len(cs) + i] = ls[i]
  BY Behind
<1>2. /\ Len(printed) \in Nat /\ Len(cs) \in Nat /\ Len(ls) \in Nat
      /\ DOMAIN printed = 1 .. Len(printed)
      /\ \A i \in 1 .. Len(cs) : cs[i] \in CmdLine
      /\ \A i \in 1 .. Len(ls) : ls[i] \in LabelLines
  BY SeqIndex
<1>3. DOMAIN printed' = 1 .. Len(printed) + Len(cs) + Len(ls)
  BY <1>1
<1>4. \A i \in Labels : i \in 1 .. Len(printed) /\ printed'[i] = printed[i] /\ i \in Labels'
  BY <1>1, <1>2, <1>3 DEF Labels
<1>5. ASSUME NEW i \in Labels', i \notin Labels
      PROVE  \E j \in 1 .. Len(ls) : i = Len(printed) + Len(cs) + j /\ printed'[i] = ls[j]
  <2>1. i \in 1 .. Len(printed) + Len(cs) + Len(ls) /\ printed'[i].kind = "label"
    BY <1>3, <1>5 DEF Labels
  <2>2. CASE i <= Len(printed)
    BY <1>1, <1>2, <1>5, <2>1, <2>2 DEF Labels
  <2>3. CASE i > Len(printed) /\ i <= Len(printed) + Len(cs)
    <3>1. i - Len(printed) \in 1 .. Len(cs) /\ Len(printed) + (i - Len(printed)) = i
      BY <1>2, <2>1, <2>3
    <3>2. printed'[i] \in CmdLine
      BY <1>1, <1>2, <3>1
    <3> QED
      BY <2>1, <3>2, LineKinds
  <2>4. CASE i > Len(printed) + Len(cs)
    <3> DEFINE j == i - (Len(printed) + Len(cs))
    <3>1. j \in 1 .. Len(ls) /\ i = Len(printed) + Len(cs) + j
      BY <1>2, <2>1, <2>4
    <3> HIDE DEF j
    <3>2. printed'[Len(printed) + Len(cs) + j] = ls[j]
      BY <1>1, <3>1, Zenon
    <3> QED
      BY <3>1, <3>2, Zenon
  <2>5. i <= Len(printed) \/ (i > Len(printed) /\ i <= Len(printed) + Len(cs))
          \/ i > Len(printed) + Len(cs)
    BY <1>2, <2>1
  <2> QED
    BY <2>2, <2>3, <2>4, <2>5, Zenon
<1>6. ASSUME NEW j \in 1 .. Len(ls)
      PROVE  /\ Len(printed) + Len(cs) + j \in Labels'
             /\ printed'[Len(printed) + Len(cs) + j] = ls[j]
  <2> DEFINE i == Len(printed) + Len(cs) + j
  <2>1. i \in DOMAIN printed'
    BY <1>2, <1>3
  <2>2. printed'[i] = ls[j]
    BY <1>1
  <2>3. ls[j].kind = "label"
    BY <1>2, LineKinds
  <2> HIDE DEF i
  <2>4. i \in Labels'
    BY <2>1, <2>2, <2>3 DEF Labels
  <2> QED
    BY <2>2, <2>4 DEF i
<1>7. \A i \in Labels' : i \notin Labels =>
         \E j \in 1 .. Len(ls) : i = Len(printed) + Len(cs) + j /\ printed'[i] = ls[j]
  BY <1>5, Zenon
<1>8. \A j \in 1 .. Len(ls) :
         /\ Len(printed) + Len(cs) + j \in Labels'
         /\ printed'[Len(printed) + Len(cs) + j] = ls[j]
  BY <1>6, Zenon
<1>9. /\ Labels \subseteq Labels'
      /\ \A i \in Labels : printed'[i] = printed[i] /\ i <= Len(printed)
  BY <1>2, <1>4
<1> QED
  BY <1>7, <1>8, <1>9, Zenon DEF LabelsGrow

(* Commands alone.                                                         *)
LEMMA EmitCommands ==
  ASSUME PrintOk, LabelsOk, phase = "compile",
         NEW n \in 1 .. Len(rest), NEW cs \in Seq(CmdLine),
         Emit(n, Len(cs), cs, << >>), UNCHANGED counter_stack
  PROVE  PrintOk' /\ LabelsOk'
<1> DEFINE none == << >>
<1>1. none \in Seq(LabelLines) /\ Len(none) = 0 /\ Len(cs) \in Nat
  OBVIOUS
<1>2. Emit(n, Len(cs), cs, none)
  OBVIOUS
<1>3. printed \in Seq(PrintLine) /\ counter_stack' \in Seq(Nat) /\ counter \in Nat
  BY DEF PrintOk
<1> HIDE DEF none
<1>4. PrintOk' /\ Len(origin') = Len(origin) + Len(cs) /\ counter' = counter + Len(cs)
  BY <1>1, <1>2, <1>3, EmitPrints
<1>5. Labels' = Labels /\ \A i \in Labels : printed'[i] = printed[i]
  <2>1. LabelsGrow(cs, none)
    BY <1>1, <1>2, <1>3, LabelsBehind DEF Emit
  <2>2. \A j : j \notin 1 .. Len(none)
    BY <1>1
  <2>3. Labels' \subseteq Labels
    BY <2>1, <2>2 DEF LabelsGrow
  <2> QED
    BY <2>1, <2>3 DEF LabelsGrow
<1>6. phase' = "compile" /\ counter = Len(origin) /\ counter' >= counter
  BY <1>1, <1>2, <1>3, <1>4 DEF Emit, LabelsOk
<1>7. counter' = Len(origin')
  BY <1>4, <1>6
<1>8. \A i \in Labels' : \E m \in Nat :
        m < counter' /\ printed'[i].label \in {LabelOf(m), EndOf(m)}
  <2> SUFFICES ASSUME NEW i \in Labels
               PROVE  \E m \in Nat :
                        m < counter' /\ printed[i].label \in {LabelOf(m), EndOf(m)}
    BY <1>5
  <2>1. PICK m \in Nat : m < counter /\ printed[i].label \in {LabelOf(m), EndOf(m)}
    BY DEF LabelsOk
  <2>2. m < counter'
    BY <1>1, <1>3, <1>4, <2>1
  <2> QED
    BY <2>1, <2>2
<1>9. \A i, j \in Labels' : printed'[i].label = printed'[j].label => i = j
  BY <1>5 DEF LabelsOk
<1>10. \A k \in DOMAIN counter_stack' :
         /\ counter_stack'[k] < counter'
         /\ \E i \in Labels' : printed'[i].label = LabelOf(counter_stack'[k])
         /\ \A i \in Labels' : printed'[i].label # EndOf(counter_stack'[k])
  <2> SUFFICES ASSUME NEW k \in DOMAIN counter_stack
               PROVE  /\ counter_stack[k] < counter'
                      /\ \E i \in Labels : printed'[i].label = LabelOf(counter_stack[k])
                      /\ \A i \in Labels : printed'[i].label # EndOf(counter_stack[k])
    BY <1>5
  <2>1. counter_stack[k] \in Nat
    BY DEF PrintOk
  <2>2. /\ counter_stack[k] < counter
        /\ \E i \in Labels : printed[i].label = LabelOf(counter_stack[k])
        /\ \A i \in Labels : printed[i].label # EndOf(counter_stack[k])
    BY DEF LabelsOk
  <2>3. counter_stack[k] < counter'
    BY <1>1, <1>3, <1>4, <2>1, <2>2
  <2> QED
    BY <1>5, <2>2, <2>3
<1>11. LabelsOk'
  <2>1. counter_stack' = counter_stack
    OBVIOUS
  <2> QED
    BY <1>6, <1>7, <1>8, <1>9, <1>10, <2>1 DEF LabelsOk
<1> QED
  BY <1>4, <1>11

(* Commands and a label.                                                   *)
OneMore(l) ==
  \E new : /\ new \notin Labels /\ Labels' = Labels \cup {new}
           /\ printed'[new].label = l
           /\ \A i \in Labels : printed'[i] = printed[i]

LEMMA EmitLabel ==
  ASSUME PrintOk, LabelsOk, phase = "compile",
         NEW n \in 1 .. Len(rest), NEW cs \in Seq(CmdLine), NEW l \in Names,
         Emit(n, Len(cs), cs, << LabelLine(l) >>), counter_stack' \in Seq(Nat)
  PROVE  /\ PrintOk' /\ phase' = "compile"
         /\ counter' = counter + Len(cs) /\ counter' = Len(origin')
         /\ OneMore(l)
<1> DEFINE ls == << LabelLine(l) >>
<1>1. LabelLine(l) \in LabelLines
  BY DEF LabelLine, LabelLines
<1>2. ls \in Seq(LabelLines) /\ Len(ls) = 1 /\ ls[1].label = l /\ Len(cs) \in Nat
  BY <1>1 DEF LabelLine
<1>3. Emit(n, Len(cs), cs, ls)
  OBVIOUS
<1>4. printed \in Seq(PrintLine) /\ Len(printed) \in Nat
  BY DEF PrintOk
<1> HIDE DEF ls
<1>5. PrintOk' /\ Len(origin') = Len(origin) + Len(cs) /\ counter' = counter + Len(cs)
  BY <1>2, <1>3, EmitPrints
<1>6. phase' = "compile" /\ counter = Len(origin)
  BY <1>3 DEF Emit, LabelsOk
<1>7. OneMore(l)
  <2> DEFINE new == Len(printed) + Len(cs) + 1
  <2>1. LabelsGrow(cs, ls)
    BY <1>2, <1>3, <1>4, LabelsBehind DEF Emit
  <2>2. 1 \in 1 .. Len(ls) /\ \A j \in 1 .. Len(ls) : j = 1
    BY <1>2
  <2>3. new \in Labels' /\ printed'[new] = ls[1]
    BY <2>1, <2>2 DEF LabelsGrow
  <2>4. \A i \in Labels' : i \notin Labels => i = new
    BY <2>1, <2>2 DEF LabelsGrow
  <2>5. new \notin Labels
    <3>1. ~(new <= Len(printed))
      BY <1>2, <1>4
    <3> QED
      BY <2>1, <3>1 DEF LabelsGrow
  <2>6. Labels \subseteq Labels' /\ \A i \in Labels : printed'[i] = printed[i]
    BY <2>1 DEF LabelsGrow
  <2> HIDE DEF new
  <2>7. Labels' = Labels \cup {new} /\ printed'[new].label = l
    BY <1>2, <2>3, <2>4, <2>6
  <2> QED
    BY <2>5, <2>6, <2>7 DEF OneMore
<1> QED
  BY <1>5, <1>6, <1>7

LEMMA LoopKeeps ==
  ASSUME PrintOk, LabelsOk, Loop
  PROVE  PrintOk' /\ LabelsOk'
<1> DEFINE cs == << Cmd("ldb", RB, RA, 0), CmdTo("cmz", RP, RB, EndOf(counter)) >>
           l == LabelOf(counter)
           st == counter_stack
<1>1. phase = "compile" /\ rest \in Seq(STRING) /\ rest # << >>
  BY DEF Loop, Reading, PrintOk
<1>2. 1 \in 1 .. Len(rest)
  BY <1>1, EmptySeq
<1>3. counter \in Nat /\ st \in Seq(Nat) /\ l \in Names /\ EndOf(counter) \in Names
  BY LabelIs DEF PrintOk
<1>4. cs \in Seq(CmdLine) /\ Len(cs) = 2
  <2>1. Cmd("ldb", RB, RA, 0) \in CmdLine
    BY RegsAre, OpcodesAre, CmdIs
  <2>2. CmdTo("cmz", RP, RB, EndOf(counter)) \in CmdLine
    BY <1>3, RegsAre, OpcodesAre, CmdToIs
  <2> QED
    BY <2>1, <2>2
<1>5. Emit(1, Len(cs), cs, << LabelLine(l) >>) /\ counter_stack' = << counter >> \o st
  BY <1>4 DEF Loop
<1>6. /\ counter_stack' \in Seq(Nat) /\ Len(counter_stack') = 1 + Len(st)
      /\ \A k \in DOMAIN counter_stack' :
           \/ k = 1 /\ counter_stack'[k] = counter
           \/ k - 1 \in DOMAIN st /\ counter_stack'[k] = st[k - 1]
  <2> DEFINE one == << counter >>
  <2>1. one \in Seq(Nat) /\ Len(one) = 1 /\ one[1] = counter
    BY <1>3
  <2> HIDE DEF one
  <2>2. one \o st \in Seq(Nat) /\ Len(one \o st) = 1 + Len(st)
        /\ \A k \in 1 .. 1 + Len(st) :
             (one \o st)[k] = IF k <= 1 THEN one[k] ELSE st[k - 1]
    <3> HIDE DEF st
    <3>1. /\ one \o st \in Seq(Nat) /\ Len(one \o st) = Len(one) + Len(st)
          /\ \A k \in 1 .. Len(one) + Len(st) :
               (one \o st)[k] = IF k <= Len(one) THEN one[k] ELSE st[k - Len(one)]
      BY <1>3, <2>1, ConcatProperties, Zenon
    <3> QED
      BY <2>1, <3>1
  <2>3. counter_stack' = one \o st
    BY <1>5 DEF one
  <2>4. DOMAIN st = 1 .. Len(st) /\ Len(st) \in Nat /\ DOMAIN (one \o st) = 1 .. 1 + Len(st)
    BY <1>3, <2>2
  <2>5. \A k \in 1 .. 1 + Len(st) : k = 1 \/ (k - 1 \in 1 .. Len(st) /\ ~(k <= 1))
    BY <2>4
  <2> QED
    BY <2>1, <2>2, <2>3, <2>4, <2>5
<1> HIDE DEF cs, l, st
<1>7. /\ PrintOk' /\ phase' = "compile"
      /\ counter' = counter + 2 /\ counter' = Len(origin')
      /\ OneMore(l)
  <2>1. /\ PrintOk' /\ phase' = "compile"
        /\ counter' = counter + Len(cs) /\ counter' = Len(origin')
        /\ OneMore(l)
    BY <1>1, <1>2, <1>3, <1>4, <1>5, <1>6, EmitLabel
  <2> QED
    BY <1>4, <2>1
<1>8. PICK new : /\ new \notin Labels /\ Labels' = Labels \cup {new}
                 /\ printed'[new].label = l
                 /\ \A i \in Labels : printed'[i] = printed[i]
  BY <1>7 DEF OneMore
<1>9. ASSUME NEW i \in Labels
      PROVE  /\ printed[i].label # LabelOf(counter) /\ printed[i].label # EndOf(counter)
             /\ \E m \in Nat : m < counter' /\ printed[i].label \in {LabelOf(m), EndOf(m)}
  <2>1. PICK m \in Nat : m < counter /\ printed[i].label \in {LabelOf(m), EndOf(m)}
    BY DEF LabelsOk
  <2>2. m # counter /\ m < counter'
    BY <1>3, <1>7, <2>1
  <2> QED
    BY <2>1, <2>2, NamesDiffer
<1>10. \A i \in Labels' : \E m \in Nat :
         m < counter' /\ printed'[i].label \in {LabelOf(m), EndOf(m)}
  <2>1. counter < counter'
    BY <1>3, <1>7
  <2> QED
    BY <1>3, <1>8, <1>9, <2>1 DEF l
<1>11. \A i, j \in Labels' : printed'[i].label = printed'[j].label => i = j
  <2>1. \A i, j \in Labels : printed[i].label = printed[j].label => i = j
    BY DEF LabelsOk
  <2> QED
    BY <1>8, <1>9, <2>1 DEF l
<1>12. \A k \in DOMAIN st :
         /\ st[k] < counter
         /\ \E i \in Labels : printed[i].label = LabelOf(st[k])
         /\ \A i \in Labels : printed[i].label # EndOf(st[k])
  BY DEF LabelsOk, st
<1>13. ASSUME NEW k \in DOMAIN counter_stack'
       PROVE  /\ counter_stack'[k] < counter'
              /\ \E i \in Labels' : printed'[i].label = LabelOf(counter_stack'[k])
              /\ \A i \in Labels' : printed'[i].label # EndOf(counter_stack'[k])
  <2>1. CASE k = 1 /\ counter_stack'[k] = counter
    <3>1. counter < counter'
      BY <1>3, <1>7
    <3> QED
      BY <1>8, <1>9, <2>1, <3>1, NamesDiffer DEF l
  <2>2. CASE k - 1 \in DOMAIN st /\ counter_stack'[k] = st[k - 1]
    <3> DEFINE x == st[k - 1]
    <3>1. x < counter /\ x \in Nat
      BY <1>3, <1>12, <2>2
    <3>2. \E i \in Labels : printed[i].label = LabelOf(x)
      BY <1>12, <2>2
    <3>3. \A i \in Labels : printed[i].label # EndOf(x)
      BY <1>12, <2>2
    <3>4. x < counter'
      BY <1>3, <1>7, <3>1
    <3> HIDE DEF x
    <3>5. \A i \in Labels' : printed'[i].label # EndOf(x)
      BY <1>8, <3>3, NamesDiffer DEF l
    <3>6. \E i \in Labels' : printed'[i].label = LabelOf(x)
      BY <1>8, <3>2
    <3> QED
      BY <2>2, <3>4, <3>5, <3>6 DEF x
  <2> QED
    BY <1>6, <2>1, <2>2
<1>14. ASSUME NEW j \in DOMAIN counter_stack', NEW k \in DOMAIN counter_stack',
              counter_stack'[j] = counter_stack'[k]
       PROVE  j = k
  <2>1. \A x, y \in DOMAIN st : st[x] = st[y] => x = y
    BY DEF LabelsOk, st
  <2>2. \A x \in DOMAIN st : st[x] # counter
    BY <1>3, <1>12
  <2>3. j \in Int /\ k \in Int
    BY <1>6
  <2>4. CASE j = 1 /\ counter_stack'[j] = counter
    BY <1>6, <1>14, <2>2, <2>4
  <2>5. CASE j - 1 \in DOMAIN st /\ counter_stack'[j] = st[j - 1]
    <3>1. CASE k = 1 /\ counter_stack'[k] = counter
      BY <1>14, <2>2, <2>5, <3>1
    <3>2. CASE k - 1 \in DOMAIN st /\ counter_stack'[k] = st[k - 1]
      <4>1. j - 1 = k - 1
        BY <1>14, <2>1, <2>5, <3>2
      <4> QED
        BY <2>3, <4>1
    <3> QED
      BY <1>6, <3>1, <3>2
  <2> QED
    BY <1>6, <2>4, <2>5
<1>15. LabelsOk'
  BY <1>7, <1>10, <1>11, <1>13, <1>14 DEF LabelsOk
<1> QED
  BY <1>7, <1>15

LEMMA EndKeeps ==
  ASSUME PrintOk, LabelsOk, End
  PROVE  PrintOk' /\ LabelsOk'
<1> DEFINE st == counter_stack
           h  == Head(st)
           cs == << Cmd("ldb", RB, RA, 0), CmdTo("cmn", RP, RB, LabelOf(h)) >>
           l  == EndOf(h)
<1>1. phase = "compile" /\ rest \in Seq(STRING) /\ rest # << >>
  BY DEF End, Reading, PrintOk
<1>2. 1 \in 1 .. Len(rest)
  BY <1>1, EmptySeq
<1>3. /\ st \in Seq(Nat) /\ st # << >> /\ counter \in Nat
      /\ h = st[1] /\ 1 \in DOMAIN st /\ h \in Nat
      /\ l \in Names /\ LabelOf(h) \in Names
  <2>1. st \in Seq(Nat) /\ st # << >> /\ counter \in Nat
    BY DEF End, PrintOk
  <2>2. h = st[1] /\ 1 \in DOMAIN st /\ h \in Nat
    BY <2>1, HeadTailProperties, EmptySeq
  <2> QED
    BY <2>1, <2>2, LabelIs
<1>4. cs \in Seq(CmdLine) /\ Len(cs) = 2
  <2>1. Cmd("ldb", RB, RA, 0) \in CmdLine
    BY RegsAre, OpcodesAre, CmdIs
  <2> HIDE DEF h
  <2>2. CmdTo("cmn", RP, RB, LabelOf(h)) \in CmdLine
    BY <1>3, RegsAre, OpcodesAre, CmdToIs
  <2> QED
    BY <2>1, <2>2
<1>5. Emit(1, Len(cs), cs, << LabelLine(l) >>) /\ counter_stack' = Tail(st)
  BY <1>4 DEF End
<1>6. /\ counter_stack' \in Seq(Nat)
      /\ \A k \in DOMAIN counter_stack' :
           /\ k + 1 \in DOMAIN st /\ k + 1 # 1 /\ k \in Int
           /\ counter_stack'[k] = st[k + 1]
  <2> HIDE DEF st
  <2>1. /\ Tail(st) \in Seq(Nat) /\ Len(Tail(st)) = Len(st) - 1
        /\ \A k \in 1 .. Len(Tail(st)) : Tail(st)[k] = st[k + 1]
    BY <1>3, HeadTailProperties
  <2>2. Len(st) \in Nat /\ DOMAIN st = 1 .. Len(st) /\ DOMAIN Tail(st) = 1 .. Len(st) - 1
    BY <1>3, <2>1
  <2>3. \A k \in 1 .. Len(st) - 1 : k + 1 \in 1 .. Len(st) /\ k + 1 # 1 /\ k \in Int
    BY <2>2
  <2> QED
    BY <1>5, <2>1, <2>2, <2>3
<1> HIDE DEF cs, l, st, h
<1>7. /\ PrintOk' /\ phase' = "compile"
      /\ counter' = counter + 2 /\ counter' = Len(origin')
      /\ OneMore(l)
  <2>1. /\ PrintOk' /\ phase' = "compile"
        /\ counter' = counter + Len(cs) /\ counter' = Len(origin')
        /\ OneMore(l)
    BY <1>1, <1>2, <1>3, <1>4, <1>5, <1>6, EmitLabel
  <2> QED
    BY <1>4, <2>1
<1>8. PICK new : /\ new \notin Labels /\ Labels' = Labels \cup {new}
                 /\ printed'[new].label = l
                 /\ \A i \in Labels : printed'[i] = printed[i]
  BY <1>7 DEF OneMore
<1>9. \A k \in DOMAIN st :
         /\ st[k] < counter
         /\ \E i \in Labels : printed[i].label = LabelOf(st[k])
         /\ \A i \in Labels : printed[i].label # EndOf(st[k])
  BY DEF LabelsOk, st
<1>10. \A i \in Labels : printed[i].label # l
  BY <1>3, <1>9 DEF l
<1>11. \A i \in Labels' : \E m \in Nat :
         m < counter' /\ printed'[i].label \in {LabelOf(m), EndOf(m)}
  <2>1. ASSUME NEW i \in Labels
        PROVE  \E m \in Nat : m < counter' /\ printed[i].label \in {LabelOf(m), EndOf(m)}
    <3>1. PICK m \in Nat : m < counter /\ printed[i].label \in {LabelOf(m), EndOf(m)}
      BY DEF LabelsOk
    <3>2. m < counter'
      BY <1>3, <1>7, <3>1
    <3> QED
      BY <3>1, <3>2
  <2>2. h < counter'
    BY <1>3, <1>7, <1>9
  <2> QED
    BY <1>3, <1>8, <2>1, <2>2 DEF l
<1>12. \A i, j \in Labels' : printed'[i].label = printed'[j].label => i = j
  <2>1. \A i, j \in Labels : printed[i].label = printed[j].label => i = j
    BY DEF LabelsOk
  <2> QED
    BY <1>8, <1>10, <2>1
<1>13. \A x, y \in DOMAIN st : st[x] = st[y] => x = y
  BY DEF LabelsOk, st
<1>14. ASSUME NEW k \in DOMAIN counter_stack'
       PROVE  /\ counter_stack'[k] < counter'
              /\ \E i \in Labels' : printed'[i].label = LabelOf(counter_stack'[k])
              /\ \A i \in Labels' : printed'[i].label # EndOf(counter_stack'[k])
  <2> DEFINE x == st[k + 1]
  <2>1. k + 1 \in DOMAIN st /\ k + 1 # 1 /\ counter_stack'[k] = x
    BY <1>6
  <2>2. x \in Nat /\ x < counter
    BY <1>3, <1>9, <2>1
  <2>3. \E i \in Labels : printed[i].label = LabelOf(x)
    BY <1>9, <2>1
  <2>4. \A i \in Labels : printed[i].label # EndOf(x)
    BY <1>9, <2>1
  <2>5. x # h
    BY <1>3, <1>13, <2>1
  <2>6. x < counter'
    BY <1>3, <1>7, <2>2
  <2> HIDE DEF x
  <2>7. l # EndOf(x)
    BY <2>5, NamesDiffer DEF l
  <2>8. \A i \in Labels' : printed'[i].label # EndOf(x)
    BY <1>8, <2>4, <2>7
  <2>9. \E i \in Labels' : printed'[i].label = LabelOf(x)
    BY <1>8, <2>3
  <2> QED
    BY <2>1, <2>6, <2>8, <2>9
<1>15. ASSUME NEW j \in DOMAIN counter_stack', NEW k \in DOMAIN counter_stack',
              counter_stack'[j] = counter_stack'[k]
       PROVE  j = k
  <2>1. j + 1 = k + 1
    BY <1>6, <1>13, <1>15
  <2>2. j \in Int /\ k \in Int
    BY <1>6
  <2> QED
    BY <2>1, <2>2
<1>16. LabelsOk'
  BY <1>7, <1>11, <1>12, <1>14, <1>15 DEF LabelsOk
<1> QED
  BY <1>7, <1>16

-----------------------------------------------------------------------------
(***************************************************************************)
(* The other actions.                                                      *)
(***************************************************************************)
LEMMA TokenKeeps ==
  ASSUME PrintOk, LabelsOk,
         MovlN \/ MovrN \/ AddN \/ SubN \/ Put \/ Get \/ Zero
  PROVE  PrintOk' /\ LabelsOk'
<1>1. phase = "compile" /\ rest \in Seq(STRING) /\ rest # << >> /\ UNCHANGED counter_stack
  BY DEF MovlN, MovrN, AddN, SubN, Put, Get, Zero, Reading, PrintOk
<1>2. 1 \in 1 .. Len(rest) /\ count \in 1 .. Len(rest) /\ count \in Int /\ 0 \in Int
  BY <1>1, EmptySeq, CountIs
<1>3. ASSUME NEW n \in 1 .. Len(rest), NEW cs \in Seq(CmdLine), Emit(n, Len(cs), cs, << >>)
      PROVE  PrintOk' /\ LabelsOk'
  BY <1>1, <1>3, EmitCommands
<1>4. CASE MovlN
  <2> DEFINE cs == << Cmd("add", RA, RA, count) >>
  <2>1. cs \in Seq(CmdLine) /\ Len(cs) = 1
    BY <1>2, RegsAre, OpcodesAre, CmdIs
  <2>2. Emit(count, Len(cs), cs, << >>)
    BY <1>4, <2>1 DEF MovlN
  <2> QED
    BY <1>2, <1>3, <2>1, <2>2
<1>5. CASE MovrN
  <2> DEFINE cs == << Cmd("sub", RA, RA, count) >>
  <2>1. cs \in Seq(CmdLine) /\ Len(cs) = 1
    BY <1>2, RegsAre, OpcodesAre, CmdIs
  <2>2. Emit(count, Len(cs), cs, << >>)
    BY <1>5, <2>1 DEF MovrN
  <2> QED
    BY <1>2, <1>3, <2>1, <2>2
<1>6. CASE AddN
  <2> DEFINE cs == << Cmd("ldb", RB, RA, 0), Cmd("add", RB, RB, count), Cmd("svb", RA, RB, 0) >>
  <2>1. cs \in Seq(CmdLine) /\ Len(cs) = 3
    BY <1>2, RegsAre, OpcodesAre, CmdIs
  <2>2. Emit(count, Len(cs), cs, << >>)
    BY <1>6, <2>1 DEF AddN
  <2> QED
    BY <1>2, <1>3, <2>1, <2>2
<1>7. CASE SubN
  <2> DEFINE cs == << Cmd("ldb", RB, RA, 0), Cmd("sub", RB, RB, count), Cmd("svb", RA, RB, 0) >>
  <2>1. cs \in Seq(CmdLine) /\ Len(cs) = 3
    BY <1>2, RegsAre, OpcodesAre, CmdIs
  <2>2. Emit(count, Len(cs), cs, << >>)
    BY <1>7, <2>1 DEF SubN
  <2> QED
    BY <1>2, <1>3, <2>1, <2>2
<1>8. CASE Put
  <2> DEFINE cs == << Cmd("add", RC, RA, 0), Cmd("ldb", RA, RA, 0),
                      Cmd("ccl", RZ, RZ, 2), Cmd("add", RA, RC, 0) >>
  <2>1. cs \in Seq(CmdLine) /\ Len(cs) = 4
    BY <1>2, RegsAre, OpcodesAre, CmdIs
  <2>2. Emit(1, Len(cs), cs, << >>)
    BY <1>8, <2>1 DEF Put
  <2> QED
    BY <1>2, <1>3, <2>1, <2>2
<1>9. CASE Get
  <2> DEFINE cs == << Cmd("add", RC, RA, 0), Cmd("ccl", RZ, RZ, 3),
                      Cmd("svb", RC, RA, 0), Cmd("add", RA, RC, 0) >>
  <2>1. cs \in Seq(CmdLine) /\ Len(cs) = 4
    BY <1>2, RegsAre, OpcodesAre, CmdIs
  <2>2. Emit(1, Len(cs), cs, << >>)
    BY <1>9, <2>1 DEF Get
  <2> QED
    BY <1>2, <1>3, <2>1, <2>2
<1>10. CASE Zero
  <2> DEFINE cs == << Cmd("add", RB, RZ, 0), Cmd("svb", RA, RB, 0) >>
  <2>1. cs \in Seq(CmdLine) /\ Len(cs) = 2
    BY <1>2, RegsAre, OpcodesAre, CmdIs
  <2>2. Emit(3, Len(cs), cs, << >>)
    BY <1>10, <2>1 DEF Zero
  <2>3. 3 \in 1 .. Len(rest)
    BY <1>1, <1>10 DEF Zero, IsZero
  <2> QED
    BY <1>3, <2>1, <2>2, <2>3
<1> QED
  BY <1>4, <1>5, <1>6, <1>7, <1>8, <1>9, <1>10

LEMMA IgnoredKeeps ==
  ASSUME PrintOk, LabelsOk, Ignored
  PROVE  PrintOk' /\ LabelsOk'
<1>1. rest' \in Seq(STRING)
  BY HeadTailProperties DEF Ignored, PrintOk
<1>2. UNCHANGED <<text, counter, counter_stack, printed, origin, phase>>
  BY DEF Ignored
<1>3. PrintOk'
  BY <1>1, <1>2 DEF PrintOk, CmdsIn
<1>4. LabelsOk'
  BY <1>2 DEF LabelsOk, Labels
<1> QED
  BY <1>3, <1>4

LEMMA FinishKeeps ==
  ASSUME PrintOk, LabelsOk, Finish
  PROVE  PrintOk' /\ LabelsOk'
<1> DEFINE c  == Cmd("hlt", RZ, RZ, 0)
           cs == << c >>
           none == << >>
<1>1. /\ phase = "compile" /\ counter_stack = << >> /\ phase' = "printed"
      /\ printed' = Append(printed, c)
      /\ UNCHANGED <<text, rest, counter, counter_stack>>
  BY DEF Finish
<1>2. c \in CmdLine
  BY RegsAre, OpcodesAre, CmdIs
<1>3. printed \in Seq(PrintLine) /\ c \in PrintLine
  BY <1>2 DEF PrintOk, PrintLine
<1> HIDE DEF c
<1>4. /\ cs \in Seq(CmdLine) /\ Len(cs) = 1 /\ cs \in Seq(PrintLine)
      /\ none \in Seq(LabelLines) /\ Len(none) = 0
  BY <1>2, <1>3
<1>5. printed' = printed \o cs \o none
  <2>1. Append(printed, c) = printed \o cs
    BY <1>3, AppendIsConcat
  <2>2. printed \o cs \in Seq(PrintLine)
    BY <1>3, <1>4, ConcatProperties
  <2> QED
    BY <1>1, <2>1, <2>2, ConcatEmptySeq
<1> HIDE DEF cs, none
<1>6. printed' \in Seq(PrintLine)
      /\ Cardinality(CmdsIn(printed')) = Cardinality(CmdsIn(printed)) + 1
  <2>1. /\ printed \o cs \o none \in Seq(PrintLine)
        /\ Cardinality(CmdsIn(printed \o cs \o none)) =
             Cardinality(CmdsIn(printed)) + Len(cs)
    BY <1>3, <1>4, Behind, Zenon
  <2> QED
    BY <1>4, <1>5, <2>1, Zenon
<1>7. LabelsGrow(cs, none)
  BY <1>3, <1>4, <1>5, LabelsBehind
<1>8. Labels' = Labels /\ \A i \in Labels : printed'[i] = printed[i]
  <2>1. \A j : j \notin 1 .. Len(none)
    BY <1>4
  <2>2. Labels' \subseteq Labels
    BY <1>7, <2>1 DEF LabelsGrow
  <2> QED
    BY <1>7, <2>2 DEF LabelsGrow
<1>9. (\E S : origin' \in Seq(S)) /\ Len(origin') = Len(origin) + 1 /\ Len(origin) \in Nat
  <2> DEFINE o == [done |-> Len(Program(text)), saved |-> FALSE]
  <2>1. origin' = Append(origin, o)
    BY DEF Finish
  <2>2. PICK S : origin \in Seq(S)
    BY DEF PrintOk
  <2> HIDE DEF o
  <2> DEFINE T == S \cup {o}
  <2>3. origin \in Seq(T) /\ o \in T
    BY <2>2
  <2> HIDE DEF T
  <2>4. Append(origin, o) \in Seq(T) /\ Len(Append(origin, o)) = Len(origin) + 1
        /\ Len(origin) \in Nat
    BY <2>3
  <2> QED
    BY <2>1, <2>4
<1>10. PrintOk'
  BY <1>1, <1>6, <1>9 DEF PrintOk
<1>11. counter' = Len(origin') - (IF phase' \in {"printed", "refused", "run"} THEN 1 ELSE 0)
  BY <1>1, <1>9 DEF LabelsOk
<1>12. DOMAIN counter_stack' = {}
  BY <1>1
<1>13. \A i \in Labels' : \E n \in Nat :
          n < counter' /\ printed'[i].label \in {LabelOf(n), EndOf(n)}
  BY <1>1, <1>8 DEF LabelsOk
<1>14. \A i, j \in Labels' : printed'[i].label = printed'[j].label => i = j
  BY <1>8 DEF LabelsOk
<1>15. LabelsOk'
  BY <1>11, <1>12, <1>13, <1>14 DEF LabelsOk, LabelOf, EndOf
<1> QED
  BY <1>10, <1>15

LEMMA StopKeeps ==
  ASSUME PrintOk, LabelsOk, UnexpectedClosing \/ ClosingExpected \/ Refused \/ Assemble
  PROVE  PrintOk' /\ LabelsOk'
<1>1. /\ \/ phase = "compile" /\ phase' = "error"
         \/ phase = "printed" /\ phase' \in {"refused", "run"}
      /\ UNCHANGED <<text, rest, counter, counter_stack, printed, origin>>
  BY DEF UnexpectedClosing, ClosingExpected, Refused, Assemble, Fails, Reading, compiler
<1>2. PrintOk'
  BY <1>1 DEF PrintOk, CmdsIn
<1>3. counter' = Len(origin') - (IF phase' \in {"printed", "refused", "run"} THEN 1 ELSE 0)
  BY <1>1 DEF LabelsOk
<1>4. LabelsOk'
  BY <1>1, <1>3 DEF LabelsOk, Labels
<1> QED
  BY <1>2, <1>4

LEMMA PackedFits ==
  ASSUME NEW x \in Int
  PROVE  Asm!Packed(x) \in ImmVal
<1>1. PICK y \in Int : y = x % 16384 /\ y >= 0 /\ y < 16384
  OBVIOUS
<1>2. Asm!Packed(x) = IF y < 8192 THEN y ELSE y - 16384
  BY <1>1 DEF Asm!Packed, Asm!Signed
<1>3. Asm!Packed(x) \in Int /\ Asm!Packed(x) >= -8192 /\ Asm!Packed(x) <= 8191
  BY <1>1, <1>2
<1>4. PICK l \in Int, h \in Int : l = -8192 /\ h = 8191
  OBVIOUS
<1>5. ImmVal = l .. h
  BY <1>4 DEF ImmVal
<1>6. Asm!Packed(x) \in Int /\ Asm!Packed(x) >= l /\ Asm!Packed(x) <= h
  BY <1>3, <1>4
<1> QED
  BY <1>5, <1>6

(* The assembler makes commands of the machine of what is printed.         *)
LEMMA AssembledCommands ==
  ASSUME printed \in Seq(PrintLine), Accepted,
         NEW o \in DOMAIN Asm!CodeOf(printed, 0, 0)
  PROVE  Asm!CodeOf(printed, 0, 0)[o] \in Command
<1> DEFINE Cmds == {i \in DOMAIN printed : printed[i].kind = "cmd"}
           line == CHOOSE i \in Cmds : 0 + Asm!CodeUpTo(printed, i) = o
           s == printed[line]
<1>1. \E i \in Cmds : 0 + Asm!CodeUpTo(printed, i) = o
  BY DEF Asm!CodeOf
<1>2. line \in Cmds
  BY <1>1
<1>3. Asm!CodeOf(printed, 0, 0)[o] =
        [opc |-> s.opc, dst |-> s.dst, s0 |-> s.s0, s1 |-> s.s1,
         imm |-> Asm!Packed(Asm!Value(printed, line, 0, 0))]
  BY <1>1 DEF Asm!CodeOf
<1> HIDE DEF line
<1>4. s \in CmdLine
  BY <1>2 DEF PrintLine, LabelLines
<1>5. Asm!Value(printed, line, 0, 0) \in Int
  <2>1. Asm!Value(printed, line, 0, 0) \in Asm!ImmMin .. Asm!ImmMax
    <3>1. line \in DOMAIN printed /\ printed[line].kind = "cmd"
      BY <1>2
    <3>2. Asm!Legal(printed, 0, 0)
      BY DEF Accepted
    <3> QED
      BY <3>1, <3>2 DEF Asm!Legal
  <2>2. \A x \in Asm!ImmMin .. Asm!ImmMax : x \in Int
    <3>1. Asm!ImmMin \in Int /\ Asm!ImmMax \in Int
      BY DEF Asm!ImmMin, Asm!ImmMax
    <3> QED
      BY <3>1
  <2> QED
    BY <2>1, <2>2, Zenon
<1>6. \A x \in Int : Asm!Packed(x) \in ImmVal
  BY PackedFits
<1>7. RZ \in Reg
  BY RegsAre
<1> QED
  BY <1>3, <1>4, <1>5, <1>6, <1>7 DEF CmdLine, Command

LEMMA AssembleTyped ==
  ASSUME VMTypeOK, PrintOk, Assemble
  PROVE  VMTypeOK'
<1> DEFINE c == Asm!CodeOf(printed, 0, 0)
<1>1. Accepted /\ printed \in Seq(PrintLine)
  BY DEF Assemble, PrintOk
<1>2. code' = [o \in CodeAddr |-> IF o \in DOMAIN c THEN c[o] ELSE Unwritten]
  BY DEF Assemble
<1>3. Unwritten \in Command
  BY RegsAre, OpcodesAre DEF Unwritten, Command, ImmVal
<1>4. \A o \in DOMAIN c : c[o] \in Command
  BY <1>1, AssembledCommands
<1> HIDE DEF c
<1>5. code' \in [CodeAddr -> Command]
  BY <1>2, <1>3, <1>4
<1> QED
  BY <1>5 DEF Assemble, VMTypeOK

LEMMA RunKeeps ==
  ASSUME BfcInv, Run
  PROVE  BfcInv'
<1>1. VMTypeOK'
  BY StepType DEF Run, BfcInv
<1>2. PrintOk' /\ LabelsOk'
  BY DEF Run, compiler, BfcInv, PrintOk, LabelsOk, Labels, CmdsIn
<1> QED
  BY <1>1, <1>2 DEF BfcInv

LEMMA CompilerLeavesMachine ==
  ASSUME VMTypeOK, UNCHANGED vmvars
  PROVE  VMTypeOK'
BY DEF VMTypeOK, vmvars

LEMMA NextKeeps ==
  ASSUME BfcInv, [Next]_vars
  PROVE  BfcInv'
<1>1. VMTypeOK /\ PrintOk /\ LabelsOk
  BY DEF BfcInv
<1>2. CASE MovlN \/ MovrN \/ AddN \/ SubN \/ Put \/ Get \/ Zero
  <2>1. UNCHANGED vmvars
    BY <1>2 DEF MovlN, MovrN, AddN, SubN, Put, Get, Zero, Emit
  <2> QED
    BY <1>1, <1>2, <2>1, TokenKeeps, CompilerLeavesMachine DEF BfcInv
<1>3. CASE Loop
  <2>1. UNCHANGED vmvars
    BY <1>3 DEF Loop, Emit
  <2> QED
    BY <1>1, <1>3, <2>1, LoopKeeps, CompilerLeavesMachine DEF BfcInv
<1>4. CASE End
  <2>1. UNCHANGED vmvars
    BY <1>4 DEF End, Emit
  <2> QED
    BY <1>1, <1>4, <2>1, EndKeeps, CompilerLeavesMachine DEF BfcInv
<1>5. CASE Ignored
  <2>1. UNCHANGED vmvars
    BY <1>5 DEF Ignored
  <2> QED
    BY <1>1, <1>5, <2>1, IgnoredKeeps, CompilerLeavesMachine DEF BfcInv
<1>6. CASE Finish
  <2>1. UNCHANGED vmvars
    BY <1>6 DEF Finish
  <2> QED
    BY <1>1, <1>6, <2>1, FinishKeeps, CompilerLeavesMachine DEF BfcInv
<1>7. CASE UnexpectedClosing \/ ClosingExpected \/ Refused
  <2>1. UNCHANGED vmvars
    BY <1>7 DEF UnexpectedClosing, ClosingExpected, Refused, Fails
  <2> QED
    BY <1>1, <1>7, <2>1, StopKeeps, CompilerLeavesMachine DEF BfcInv
<1>8. CASE Assemble
  BY <1>1, <1>8, StopKeeps, AssembleTyped DEF BfcInv
<1>9. CASE Run
  BY <1>9, RunKeeps
<1>10. CASE UNCHANGED vars
  <2>1. UNCHANGED vmvars /\ UNCHANGED compiler /\ UNCHANGED phase
    BY <1>10 DEF vars
  <2>2. PrintOk' /\ LabelsOk'
    BY <1>1, <2>1 DEF compiler, PrintOk, LabelsOk, Labels, CmdsIn
  <2> QED
    BY <1>1, <2>1, <2>2, CompilerLeavesMachine DEF BfcInv
<1> QED
  BY <1>2, <1>3, <1>4, <1>5, <1>6, <1>7, <1>8, <1>9, <1>10 DEF Next

LEMMA InitKeeps ==
  ASSUME Init
  PROVE  BfcInv
<1>1. VMTypeOK
  <2>1. [r \in Reg |-> 0] \in Registers
    <3>1. 0 \in Word
      BY WordInt
    <3> QED
      BY <3>1, RegsAre DEF Registers
  <2>2. [o \in CodeAddr |-> Unwritten] \in [CodeAddr -> Command]
    <3>1. Unwritten \in Command
      BY RegsAre, OpcodesAre DEF Unwritten, Command, ImmVal
    <3> QED
      BY <3>1
  <2>3. Callbacks \in Funcs
    BY DEF Callbacks, Funcs, Callback
  <2> QED
    BY <2>1, <2>2, <2>3, SegmentsAssumption DEF Init, VMTypeOK, Status
<1>2. printed = << >> /\ origin = << >> /\ counter = 0 /\ counter_stack = << >>
  BY DEF Init
<1>3. PrintOk
  <2>1. CmdsIn(printed) = {}
    BY <1>2 DEF CmdsIn
  <2>2. Cardinality(CmdsIn(printed)) = Len(origin)
    BY <1>2, <2>1, FS_EmptySet
  <2>3. origin \in Seq({}) /\ printed \in Seq(PrintLine) /\ counter_stack \in Seq(Nat)
    BY <1>2
  <2>4. text \in Seq(STRING) /\ rest \in Seq(STRING)
    BY TextsAssumption DEF Init
  <2> QED
    BY <1>2, <2>2, <2>3, <2>4 DEF Init, PrintOk
<1>4. LabelsOk
  <2>1. Labels = {} /\ DOMAIN counter_stack = {} /\ counter = Len(origin)
    BY <1>2 DEF Labels
  <2> QED
    BY <2>1 DEF Init, LabelsOk
<1> QED
  BY <1>1, <1>3, <1>4 DEF BfcInv

LEMMA InvTypes ==
  ASSUME BfcInv
  PROVE  BfcTypeOK
<1>1. counter_stack \in Seq(0 .. counter)
  <2>1. counter_stack \in Seq(Nat) /\ counter \in Nat
    BY DEF BfcInv, PrintOk
  <2>2. \A k \in DOMAIN counter_stack : counter_stack[k] \in Nat /\ counter_stack[k] < counter
    BY <2>1 DEF BfcInv, LabelsOk
  <2>3. \A k \in 1 .. Len(counter_stack) : counter_stack[k] \in 0 .. counter
    BY <2>1, <2>2
  <2> QED
    BY <2>1, <2>3
<1> QED
  BY <1>1 DEF BfcInv, PrintOk, BfcTypeOK, CmdsIn

LEMMA InvLabels ==
  ASSUME BfcInv
  PROVE  LabelsOnce
<1>1. LabelsOk
  BY DEF BfcInv
<1>2. \A i \in Labels : Defined(printed[i].label) = {i}
  BY <1>1 DEF LabelsOk, Defined
<1>3. \A k \in DOMAIN counter_stack :
        /\ Defined(LabelOf(counter_stack[k])) # {}
        /\ Defined(EndOf(counter_stack[k])) = {}
  BY <1>1 DEF LabelsOk, Defined
<1> QED
  BY <1>1, <1>2, <1>3 DEF LabelsOk, LabelsOnce

(* What is printed for any text is well formed, and what the assembler     *)
(* makes of it is a machine whose commands the interpreter can decode.     *)
THEOREM BfcTyped == Spec => []BfcTypeOK
<1>1. Init => BfcInv
  BY InitKeeps
<1>2. BfcInv /\ [Next]_vars => BfcInv'
  BY NextKeeps
<1>3. BfcInv => BfcTypeOK
  BY InvTypes
<1> QED
  BY <1>1, <1>2, <1>3, PTL DEF Spec

(* The counter and the commands printed keep in step for every text, so    *)
(* that no two loops, however nested, share a label.                       *)
THEOREM LabelsAlwaysOnce == Spec => []LabelsOnce
<1>1. Init => BfcInv
  BY InitKeeps
<1>2. BfcInv /\ [Next]_vars => BfcInv'
  BY NextKeeps
<1>3. BfcInv => LabelsOnce
  BY InvLabels
<1> QED
  BY <1>1, <1>2, <1>3, PTL DEF Spec
=============================================================================
