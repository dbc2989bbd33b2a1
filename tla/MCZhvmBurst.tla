---------------------------- MODULE MCZhvmBurst -----------------------------
(***************************************************************************)
(* Programs for ZhvmBurst: four commands in 20 bytes of code (the fifth    *)
(* cannot be fetched) read in chunks of two, or of three.                  *)
(***************************************************************************)
EXTENDS ZhvmBurst, MCZhvmPrograms

MCInputs == {1}

(* Commands that never, sometimes, always and unexpectedly write RP; eq    *)
(* toggles $a between 0 and 1, svb ends a chunk without writing RP.        *)
Body ==
  { I("eq", RA, RA, RZ, 0),   I("cmz", RP, RA, RP, 8),  I("zcl", RP, RS, RP, 4),
    I("zcl", RZ, RP, RZ, 8),  I("ret", RP, RS, RZ, 0),  I("svb", RP, RA, RZ, 0),
    I("ccl", RZ, RZ, RZ, 5) }

Last == { Hlt0, I("add", RP, RZ, RZ, 4), I("ret", RP, RS, RZ, 0) }

MCImages ==
  { StartImage(<< a, b, c, d >>, Hlt0, 0, 4, {RA}) :
      a \in Body, b \in Body, c \in Body, d \in Last }
=============================================================================
