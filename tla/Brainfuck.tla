------------------------------ MODULE Brainfuck ------------------------------
(***************************************************************************)
(* What a brainfuck program means: the language bfc compiles, over a tape  *)
(* of finitely many cells.  A step does one command, or several equal ones *)
(* at once; there is no machine here, no labels and no registers.          *)
(***************************************************************************)
EXTENDS Integers, Sequences, FiniteSets

CONSTANTS
  Programs,  \* sequences of commands
  Cells,     \* the addresses that have a cell; the pointer starts at 0
  Base,      \* the number of values of a cell
  Tapes,     \* the tapes a program may start with
  Given,     \* the bytes that may be read
  MaxOut,    \* bound on the bytes printed: the program is left alone then
  Fits       \* programs of at most Fits commands must be taken

VARIABLES
  prog,
  ip,        \* the command to do
  tape,
  ptr,
  out,       \* the bytes printed
  state      \* "given", "refused", "run", "halt", "fault"

vars == <<prog, ip, tape, ptr, out, state>>

(* The bracket at j closes the one at i.                                   *)
Count(p, c, i, j) == Cardinality({k \in i .. j : p[k] = c})
Pair(p, i, j) ==
  /\ p[i] = "[" /\ p[j] = "]" /\ i < j
  /\ Count(p, "[", i, j) = Count(p, "]", i, j)
  /\ \A k \in i .. j - 1 : Count(p, "[", i, k) > Count(p, "]", i, k)

Balanced(p) ==
  \A i \in DOMAIN p :
    /\ p[i] = "[" => \E j \in DOMAIN p : Pair(p, i, j)
    /\ p[i] = "]" => \E j \in DOMAIN p : Pair(p, j, i)

Init ==
  /\ prog \in Programs
  /\ ip = 1 /\ ptr = 0
  /\ tape \in Tapes
  /\ out = << >>
  /\ state = "given"

Begin ==
  /\ state = "given" /\ Balanced(prog)
  /\ state' = "run"
  /\ UNCHANGED <<prog, ip, tape, ptr, out>>

Refuse ==
  /\ state = "given"
  /\ ~Balanced(prog) \/ Len(prog) > Fits
  /\ state' = "refused"
  /\ UNCHANGED <<prog, ip, tape, ptr, out>>

-----------------------------------------------------------------------------
Doing(c) == state = "run" /\ Len(out) < MaxOut /\ ip <= Len(prog) /\ prog[ip] = c
OnTape   == ptr \in Cells

(* n commands c at once.                                                   *)
Times(c, n) ==
  /\ Doing(c) /\ ip + n <= Len(prog) + 1
  /\ \A i \in ip .. ip + n - 1 : prog[i] = c
  /\ ip' = ip + n

(* The pointer may leave the tape, as long as it does nothing there.       *)
Move(n) ==
  /\ \/ Times(">", n) /\ ptr' = ptr + n
     \/ Times("<", n) /\ ptr' = ptr - n
  /\ UNCHANGED <<prog, tape, out, state>>

Add(n) ==
  /\ OnTape
  /\ \/ Times("+", n) /\ tape' = [tape EXCEPT ![ptr] = (@ + n) % Base]
     \/ Times("-", n) /\ tape' = [tape EXCEPT ![ptr] = (@ - n) % Base]
  /\ UNCHANGED <<prog, ptr, out, state>>

Put ==
  /\ Times(".", 1) /\ OnTape
  /\ out' = Append(out, tape[ptr])
  /\ UNCHANGED <<prog, tape, ptr, state>>

Get ==
  /\ Times(",", 1) /\ OnTape
  /\ \E v \in Given : tape' = [tape EXCEPT ![ptr] = v]
  /\ UNCHANGED <<prog, ptr, out, state>>

Open ==
  /\ Doing("[") /\ OnTape
  /\ IF tape[ptr] = 0 THEN \E j \in DOMAIN prog : Pair(prog, ip, j) /\ ip' = j + 1
                      ELSE ip' = ip + 1
  /\ UNCHANGED <<prog, tape, ptr, out, state>>

Close ==
  /\ Doing("]") /\ OnTape
  /\ IF tape[ptr] # 0 THEN \E j \in DOMAIN prog : Pair(prog, j, ip) /\ ip' = j + 1
                      ELSE ip' = ip + 1
  /\ UNCHANGED <<prog, tape, ptr, out, state>>

(* A loop that only counts up or down ends with a 0 in the cell.           *)
Clear ==
  /\ Doing("[") /\ OnTape
  /\ ip + 2 <= Len(prog) /\ prog[ip + 1] \in {"+", "-"} /\ prog[ip + 2] = "]"
  /\ tape' = [tape EXCEPT ![ptr] = 0]
  /\ ip' = ip + 3
  /\ UNCHANGED <<prog, ptr, out, state>>

Fault ==
  /\ \E c \in {"+", "-", ".", ",", "[", "]"} : Doing(c)
  /\ ~OnTape
  /\ state' = "fault"
  /\ UNCHANGED <<prog, ip, tape, ptr, out>>

Halt ==
  /\ state = "run" /\ Len(out) < MaxOut /\ ip = Len(prog) + 1
  /\ state' = "halt"
  /\ UNCHANGED <<prog, ip, tape, ptr, out>>

Next ==
  \/ Begin \/ Refuse
  \/ \E n \in 1 .. Len(prog) : Move(n) \/ Add(n)
  \/ Put \/ Get \/ Open \/ Close \/ Clear
  \/ Fault \/ Halt

(* A program goes on until it halts, faults, or has printed MaxOut bytes.  *)
Spec == Init /\ [][Next]_vars /\ WF_vars(Next)
=============================================================================
