---------------------------- MODULE MCZhvmCalls -----------------------------
(***************************************************************************)
(* Programs for ZhvmCalls: four commands that call forward, backward and   *)
(* themselves, return, store above the stack and into it, and drop a frame *)
(* by hand.                                                                *)
(***************************************************************************)
EXTENDS ZhvmCalls, MCZhvmPrograms

MCInputs == {1}

Body ==
  { I("zcl", RP, RS, RZ, 0),  I("zcl", RP, RS, RZ, 4), I("zcl", RP, RS, RZ, 8),
    I("zcl", RP, RS, RZ, 12), I("ret", RP, RS, RZ, 0), I("svl", RA, RS, RP, 3),
    I("svb", RS, RA, RZ, 0),  I("add", RS, RS, RZ, 4),
    I("add", RA, RA, RZ, 1),  Hlt0 }

MCImages ==
  { StartImage(p, Hlt0, 12, 8, {}) : p \in [1 .. 4 -> Body] }
=============================================================================
