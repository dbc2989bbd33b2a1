----------------------------- MODULE ZhvmBurst ------------------------------
(***************************************************************************)
(* ExecutePrefetch: chunks of decoded commands are read ahead of the       *)
(* program counter (FillCache) and then interpreted from the cache         *)
(* (BurstStep).  The machine's variables are those of ZhvmExec, and the    *)
(* refinement is the identity on them: a fill stutters, a cached           *)
(* instruction is a Step.                                                  *)
(***************************************************************************)
EXTENDS ZhvmExec

CONSTANT CacheSize     \* ZHVM_PREFETCH_CACHE_SIZE

ASSUME CacheAssumption == CacheSize \in Nat \ {0}

VARIABLES
  cache,     \* the chunk; << >> when ExecutePrefetch is about to fill it
  pos        \* index of the next cached command

burstvars == <<cache, pos>>
allvars   == <<vmvars, burstvars>>

BurstInit == VMInit /\ cache = << >> /\ pos = 1

BurstTypeOK == VMTypeOK /\ cache \in Seq(Command) /\ pos \in 1 .. CacheSize

-----------------------------------------------------------------------------
Ahead(i) == Offset(regs[RP] + 4 * i)

(* fault: the scan goes on behind hlt *)
EndsFill_NoHalt(c) == c.dst = RP /\ c.opc \notin {"cmz", "cmn"}

(* The last command of a chunk: RP is its destination, for certain, or hlt.*)
EndsFill(c) == (c.dst = RP /\ c.opc \notin {"cmz", "cmn"}) \/ c.opc = "hlt"

(* The scan reaches command number n ahead of the program counter.         *)
Scanned(n) ==
  \A i \in 0 .. n - 1 : CodeOk(Ahead(i)) /\ ~EndsFill(code[Ahead(i)])

FillCache ==
  /\ status = "run"
  /\ cache = << >>
  /\ \E n \in 1 .. CacheSize :
       /\ Scanned(n - 1)
       /\ CodeOk(Ahead(n - 1))
       /\ EndsFill(code[Ahead(n - 1)]) \/ n = CacheSize
       /\ cache' = [i \in 1 .. n |-> code[Ahead(i - 1)]]
  /\ pos' = 1
  /\ UNCHANGED vmvars

(* GetCode throws out of the scan, whether or not the commands before the  *)
(* offending offset would have run as far as that.                         *)
FillFault ==
  /\ status = "run"
  /\ cache = << >>
  /\ \E n \in 0 .. CacheSize - 1 : Scanned(n) /\ ~CodeOk(Ahead(n))
  /\ CodeFault
  /\ UNCHANGED burstvars

(* fault: a write to RP does not end the chunk *)
Continues_AfterJump == status' = "run" /\ pos < Len(cache)

(* Ran leaves RP in the flag exactly when the instruction had not written  *)
(* it, which is when BurstStep goes on to the next cached command.         *)
Continues == status' = "run" /\ RP \in sflag' /\ pos < Len(cache)

BurstStep ==
  /\ status = "run"
  /\ cache # << >>
  /\ Interpret(cache[pos])
  /\ IF Continues THEN cache' = cache /\ pos' = pos + 1
                  ELSE cache' = << >> /\ pos' = 1

BurstNext == FillCache \/ FillFault \/ BurstStep

(* The same while loop as Execute's: only a result or an exception ends it.*)
BurstSpec == BurstInit /\ [][BurstNext]_allvars /\ WF_allvars(BurstNext)

-----------------------------------------------------------------------------
(***************************************************************************)
(* Properties.                                                             *)
(***************************************************************************)
(* What is left of the chunk is the code from the program counter on: the  *)
(* commands are read early, run late, and still are those a fetch at the   *)
(* time of running would find.                                             *)
CacheCoherent ==
  cache # << >> =>
    /\ pos \in 1 .. Len(cache)
    /\ \A i \in pos .. Len(cache) :
         /\ Ahead(i - pos) \in CodeAddr
         /\ cache[i] = code[Ahead(i - pos)]

(* No scan can run off the end of the code: whatever the alignment, the    *)
(* last command that can be fetched ends the chunk.                        *)
Sealed(m) == \A o \in CSize - 8 .. CSize - 5 : o \in CodeAddr => EndsFill(m[o])

(* The prefetching interpreter gives the results of Execute, and stops     *)
(* when Execute does: PROPERTY ExecSpec, which holds of sealed code.  The  *)
(* safety half by itself:                                                  *)
ExecSafety == VMInit /\ [][Step]_vmvars
=============================================================================
