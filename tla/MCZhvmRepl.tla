----------------------------- MODULE MCZhvmRepl -----------------------------
(***************************************************************************)
(* The REPL with segments of one byte, one register and bits for bytes.    *)
(***************************************************************************)
EXTENDS ZhvmRepl

(* The image an assembler run with other sizes left in dump.bin.           *)
Assembled ==
  [csize |-> 2, dsize |-> 0, cdata |-> << 1, 0 >>, ddata |-> << >>,
   regs |-> << 1 >>, sflag |-> 0, funcs |-> NoFuncs]

MCForeign == { Dumped(Assembled, << 1 >>), << Magic >> }
=============================================================================
