------------------------------ MODULE ZhvmRepl ------------------------------
(***************************************************************************)
(* The read-eval-print loop (src/repl/main.cpp): one machine, the file     *)
(* dump.bin, and a process that may die and be started again.  What the    *)
(* interpreter does to the machine is that of ZhvmExec and ZhvmBurst; here *)
(* it is any change of registers, set flag and data.                       *)
(***************************************************************************)
EXTENDS ZhvmImage

CONSTANTS
  Size,      \* bytes of a new machine's segments (1024)
  Foreign,   \* files the user may put in place of dump.bin
  DamageValues \* what a damaged cell may hold

CONSTANT NoFile

ASSUME SizeAssumption    == Size \in Nat
ASSUME DamageAssumption  == DamageValues \subseteq 0 .. HashMod - 1
ASSUME ForeignAssumption ==
  \A f \in Foreign : f \in Seq(Nat) /\ (Loadable(f) => Loaded(f) \in Machine(f[3], f[4]))

VARIABLES
  mem,       \* the machine
  file,      \* dump.bin, as far as it has reached the disk, or NoFile
  pending,   \* what Dump still has to write
  phase,     \* what the process is doing
  saved,     \* history: the machine of the last ~dump that opened the file
  harm,      \* history: what happened to the file since
  missed     \* history: a later ~dump, of another machine, did not open it

vars == <<mem, file, pending, phase, saved, harm, missed>>

(* The installed callbacks, as main sets them.                             *)
Install(m) ==
  [m EXCEPT !.funcs = [k \in Slots |->
     CASE k = 0 -> "put" [] k = 1 -> "get" [] k = 2 -> "putc" [] k = 3 -> "getc"
       [] OTHER -> m.funcs[k]]]

Fresh == {Install(m) : m \in NewMachine(Size, Size)}

(* "prompt": waiting in getline.  "exec" and "burst": inside Execute or    *)
(* ExecutePrefetch for the command of that name; "line": inside Execute    *)
(* for a line of program.  "left": main returned.  "dead": an exception    *)
(* nobody catches, a signal, or the machine was switched off.              *)
Phase == {"prompt", "dump", "exec", "burst", "line", "left", "dead"}

Init ==
  /\ mem \in Fresh
  /\ file = NoFile
  /\ pending = << >>
  /\ phase = "prompt"
  /\ saved = mem
  /\ harm = "none"
  /\ missed = FALSE

TypeOK ==
  /\ mem \in Machine(mem.csize, mem.dsize)
  /\ phase \in Phase
  /\ harm \in {"none", "cell", "foreign"}
  /\ missed \in BOOLEAN
  /\ pending # << >> => phase = "dump"

-----------------------------------------------------------------------------
(***************************************************************************)
(* ~dump.  The file is emptied when it is opened; the cells reach it in    *)
(* order, in pieces, and a write that fails is not noticed.  Neither is a  *)
(* file that cannot be opened: Dump then writes nothing, and dump.bin      *)
(* stays what it was.                                                      *)
(***************************************************************************)
DumpOpen ==
  /\ phase = "prompt"
  /\ \E junk \in Cells(HeaderExtra) : pending' = Dumped(mem, junk)
  /\ file' = << >>
  /\ phase' = "dump"
  /\ saved' = mem
  /\ harm' = "none"
  /\ missed' = FALSE
  /\ UNCHANGED mem

(* Two machines a dump does not tell apart.                                *)
SameImage(m, n) == [m EXCEPT !.funcs = NoFuncs] = [n EXCEPT !.funcs = NoFuncs]

DumpOpenFails ==
  /\ phase = "prompt"
  /\ missed' = ~SameImage(mem, saved)
  /\ UNCHANGED <<mem, file, pending, phase, saved, harm>>

DumpWrite ==
  /\ phase = "dump"
  /\ \E n \in 1 .. Len(pending) :
       /\ file' = file \o SubSeq(pending, 1, n)
       /\ pending' = SubSeq(pending, n + 1, Len(pending))
  /\ UNCHANGED <<mem, phase, saved, harm, missed>>

DumpFails ==
  /\ phase = "dump"
  /\ pending # << >>
  /\ pending' = << >>
  /\ phase' = "prompt"
  /\ UNCHANGED <<mem, file, saved, harm, missed>>

DumpClose ==
  /\ phase = "dump"
  /\ pending = << >>
  /\ phase' = "prompt"
  /\ UNCHANGED <<mem, file, pending, saved, harm, missed>>

(* ~load.  Nothing happens when the file is not there or cannot be opened; *)
(* an exception, for what is in the file or for a read that failed, leaves *)
(* replRound and main.                                                     *)
LoadNothing ==
  /\ phase = "prompt"
  /\ UNCHANGED vars

LoadThrows ==
  /\ phase = "prompt"
  /\ file # NoFile
  /\ phase' = "dead"
  /\ UNCHANGED <<mem, file, pending, saved, harm, missed>>

(* fault: the segments move, their sizes do not *)
LoadMoves_KeepsSizes ==
  /\ phase = "prompt"
  /\ file # NoFile
  /\ Loadable(file)
  /\ mem' = [Loaded(file) EXCEPT !.csize = mem.csize, !.dsize = mem.dsize]
  /\ UNCHANGED <<file, pending, phase, saved, harm, missed>>

LoadMoves ==
  /\ phase = "prompt"
  /\ file # NoFile
  /\ Loadable(file)
  /\ mem' = Loaded(file)
  /\ UNCHANGED <<file, pending, phase, saved, harm, missed>>

-----------------------------------------------------------------------------
(***************************************************************************)
(* Execution.                                                              *)
(***************************************************************************)
(* What running code does to the machine: all but the code, the sizes and  *)
(* the callbacks.                                                          *)
Ran(m, r, s, d) == [m EXCEPT !.regs = r, !.sflag = s, !.ddata = d]

Runs ==
  \E r \in Cells(NRegs), s \in Cell, d \in Cells(mem.dsize) : mem' = Ran(mem, r, s, d)

Kept == UNCHANGED <<file, pending, saved, harm, missed>>

(* ~exec, ~burst; a chunk or an instruction, which may never be the last.  *)
Start ==
  /\ phase = "prompt"
  /\ phase' \in {"exec", "burst"}
  /\ UNCHANGED mem
  /\ Kept

Running == phase \in {"exec", "burst", "line"} /\ Runs /\ Kept /\ UNCHANGED phase

(* IR_HALT returns to the prompt; so does an unknown opcode, but after a   *)
(* line of program it ends the session.                                    *)
Halts ==
  /\ phase \in {"exec", "burst", "line"}
  /\ phase' = "prompt"
  /\ UNCHANGED mem
  /\ Kept

Unknown ==
  /\ phase \in {"exec", "burst", "line"}
  /\ phase' = IF phase = "line" THEN "left" ELSE "prompt"
  /\ UNCHANGED mem
  /\ Kept

(* An access violation or SIGFPE.                                          *)
Faults ==
  /\ phase \in {"exec", "burst", "line"}
  /\ phase' = "dead"
  /\ UNCHANGED mem
  /\ Kept

(* ~step: one instruction, and back to the prompt whatever its result.     *)
StepOne == phase = "prompt" /\ Runs /\ Kept /\ phase' \in {"prompt", "dead"}

(* ~reset zeroes the registers; Set marks each.                            *)
Zeroed(m, s) == [m EXCEPT !.regs = [i \in 1 .. NRegs |-> 0], !.sflag = s]

Reset ==
  /\ phase = "prompt"
  /\ \E s \in Cell \ {0} : mem' = Zeroed(mem, s)
  /\ UNCHANGED phase
  /\ Kept

(* Any other line is compiled and assembled into the machine, code, data   *)
(* and registers; where that fails the part done so far stays.  A line     *)
(* that starts with "!" is not run.                                        *)
Compiled(m, c, d, r, s) == [m EXCEPT !.cdata = c, !.ddata = d, !.regs = r, !.sflag = s]

Line ==
  /\ phase = "prompt"
  /\ \E c \in Cells(mem.csize), d \in Cells(mem.dsize), r \in Cells(NRegs), s \in Cell :
       mem' = Compiled(mem, c, d, r, s)
  /\ phase' \in {"prompt", "line", "dead"}
  /\ Kept

Exit == phase = "prompt" /\ phase' = "left" /\ UNCHANGED mem /\ Kept

-----------------------------------------------------------------------------
(***************************************************************************)
(* Around the process: it is killed at any time and started again, and the *)
(* file is replaced, or has a byte changed, while the user is not at the   *)
(* prompt of a running ~dump.                                              *)
(***************************************************************************)
Kill ==
  /\ phase \notin {"left", "dead"}
  /\ phase' = "dead"
  /\ pending' = << >>
  /\ UNCHANGED <<mem, file, saved, harm, missed>>

Restart ==
  /\ phase \in {"left", "dead"}
  /\ mem' \in Fresh
  /\ phase' = "prompt"
  /\ UNCHANGED <<file, pending, saved, harm, missed>>

Replace ==
  /\ phase # "dump"
  /\ file' \in Foreign
  /\ harm' = "foreign"
  /\ UNCHANGED <<mem, pending, phase, saved, missed>>

(* One byte of a whole dump changes; the size words are left out, since a  *)
(* smaller size has the hash read from elsewhere.                          *)
Damage ==
  /\ phase # "dump"
  /\ harm = "none"
  /\ file # NoFile
  /\ Loadable(file)
  /\ \E i \in DOMAIN file \ {3, 4}, v \in DamageValues :
       v # file[i] /\ file' = [file EXCEPT ![i] = v]
  /\ harm' = "cell"
  /\ UNCHANGED <<mem, pending, phase, saved, missed>>

Next ==
  \/ DumpOpen \/ DumpOpenFails \/ DumpWrite \/ DumpFails \/ DumpClose
  \/ LoadNothing \/ LoadThrows \/ LoadMoves
  \/ Start \/ Running \/ Halts \/ Unknown \/ Faults \/ StepOne
  \/ Reset \/ Line \/ Exit
  \/ Kill \/ Restart \/ Replace \/ Damage

Spec == Init /\ [][Next]_vars

-----------------------------------------------------------------------------
(***************************************************************************)
(* Properties.                                                             *)
(***************************************************************************)
(* Whatever the moment at which a dump was cut off, by a failed write or   *)
(* by the end of the process, and whatever ~dumps could not open the file  *)
(* since, what Load accepts is the whole machine that the last ~dump which *)
(* opened the file was asked to save, but for its callbacks: never a part  *)
(* of it, never one part new and one part old, and never an older one      *)
(* that a later dump had begun to overwrite.                               *)
OnlyWholeDumpsLoad ==
  file # NoFile /\ harm = "none" /\ Loadable(file) =>
    Loaded(file) = [saved EXCEPT !.funcs = NoFuncs]

(* A dump whose writes all succeeded can be loaded, whatever was on the    *)
(* stack when its header was written.                                      *)
WholeDumpsLoad == [][ DumpClose => Loadable(file) ]_vars

(* A changed byte anywhere but in the sizes makes Load throw.              *)
DamageRefused == harm = "cell" => ~Loadable(file)

-----------------------------------------------------------------------------
(***************************************************************************)
(* What the code says of itself and does not do.                           *)
(***************************************************************************)
(* "~dump  - dump current vm memory to file "dump.bin"." and "~load  -     *)
(* load file "dump.bin" to vm memory." (main.cpp:48-49): what ~load        *)
(* accepts is what the last ~dump was asked to save.                       *)
LastDumpLoads ==
  file # NoFile /\ harm = "none" /\ Loadable(file) => ~missed

=============================================================================
