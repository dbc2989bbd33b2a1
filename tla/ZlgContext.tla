----------------------------- MODULE ZlgContext -----------------------------
(***************************************************************************)
(* The register allocator of the compiler (class context): reference       *)
(* counts, what each register holds, and the queue of registers that were  *)
(* let go.  A context is a record; each method is an operator on it.       *)
(*                                                                         *)
(* A search gives a set: of the register found, with the context it is     *)
(* found in, or empty where the code throws "No registers left".           *)
(***************************************************************************)
EXTENDS Integers, Sequences, FiniteSets

CONSTANT
  NReg    \* registers of the machine; 16

ASSUME NRegAssumption == NReg \in Nat /\ NReg >= 5

Reg == 0 .. NReg - 1

RZ == 0
RA == 1
RS == NReg - 3
RD == NReg - 2
RP == NReg - 1

(* The id of a register that holds nothing to find again.                  *)
NoTag == << >>

(* Reset *)
Fresh ==
  [count |-> [r \in Reg |-> 0],
   stat  |-> [r \in Reg |-> NoTag],
   queue |-> [i \in 1 .. NReg |-> i - 1]]

AddRef(m, r) == [m EXCEPT !.count = [m.count EXCEPT ![r] = @ + 1]]

(* fault: only a register nothing can be found in again is queued *)
Release_Forgets(m, r) ==
  LET n == [m.count EXCEPT ![r] = @ - 1]
  IN [m EXCEPT !.count = n,
               !.queue = IF n[r] = 0 /\ m.stat[r] = NoTag THEN Append(@, r) ELSE @]

Release(m, r) ==
  LET n == [m.count EXCEPT ![r] = @ - 1]
  IN [m EXCEPT !.count = n, !.queue = IF n[r] = 0 THEN Append(@, r) ELSE @]

MarkRegister(m, tag, r) == [m EXCEPT !.stat = [m.stat EXCEPT ![r] = tag]]

Free(m)  == {r \in Reg : m.count[r] = 0}
Clean(m) == {r \in Free(m) : m.stat[r] = NoTag}

CountFreeRegisters(m) == Cardinality(Free(m))

(* The queue after k registers were taken from its front and put back.     *)
Turned(q, k) ==
  LET n == k % Len(q) IN SubSeq(q, n + 1, Len(q)) \o SubSeq(q, 1, n)

(* The queue with the first register of S in front, if one comes up.       *)
Found(q, S) ==
  {Turned(q, k) : k \in {n \in 0 .. NReg - 1 :
     /\ Head(Turned(q, n)) \in S
     /\ \A j \in 0 .. n - 1 : Head(Turned(q, j)) \notin S}}

(* First a register that is not used at all, then one that is not in use.  *)
Queues(m) ==
  IF Found(m.queue, Clean(m)) # {}
  THEN Found(m.queue, Clean(m))
  ELSE Found(Turned(m.queue, NReg), Free(m))

Taken(m) ==
  {[reg |-> Head(q), map |-> AddRef([m EXCEPT !.queue = Tail(q)], Head(q))] : q \in Queues(m)}

Holding(m, tag) == {r \in Reg : m.stat[r] = tag}

(* fault: a register found is not kept from being given away *)
GetRegConst_NoRef(m, tag) ==
  IF Holding(m, tag) # {}
  THEN {[reg |-> r, map |-> m] :
          r \in {x \in Holding(m, tag) : \A y \in Holding(m, tag) : x <= y}}
  ELSE Taken(m)

(* SearchID takes the first; the register may be in the queue and stays.   *)
GetRegConst(m, tag) ==
  IF Holding(m, tag) # {}
  THEN {[reg |-> r, map |-> AddRef(m, r)] :
          r \in {x \in Holding(m, tag) : \A y \in Holding(m, tag) : x <= y}}
  ELSE Taken(m)

GetRegBinOp(m) ==
  {[reg |-> g.reg, map |-> MarkRegister(g.map, NoTag, g.reg)] : g \in Taken(m)}
=============================================================================
