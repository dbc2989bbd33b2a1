----------------------------- MODULE ZhvmCalls ------------------------------
(***************************************************************************)
(* zcl and ret as a call discipline, for any program.  frames is a history *)
(* variable: the places callers expect to be returned to, innermost last.  *)
(* disciplined is one too: it becomes FALSE when the program returns       *)
(* without having called, uses $s otherwise than for zcl and ret, or       *)
(* stores below the top of the stack; it is not followed any further.      *)
(***************************************************************************)
EXTENDS ZhvmExec, SequencesExt

CONSTANT StackTop     \* where $s starts

(* zcl pushes four bytes: the code's addresses fit them.                   *)
ASSUME StackAssumption ==
  /\ RS \in Reg
  /\ StackTop \in 0 .. DSize
  /\ CSize <= Half4
  /\ \A im \in Images : im.regs[RS] = StackTop

VARIABLES
  frames,     \* open calls
  disciplined

callvars == <<vmvars, frames, disciplined>>

CallsInit == VMInit /\ frames = << >> /\ disciplined = TRUE

IsCall == Current.opc = "zcl" /\ Current.dst = RP /\ Current.s0 = RS

IsReturn ==
  /\ Current.opc = "ret" /\ Current.dst = RP /\ Current.s0 = RS
  /\ Current.s1 = RZ /\ Current.imm = 0

LeavesStack ==
  /\ Current.opc \notin {"zcl", "ret"}
  /\ RS \notin MayWrite(Current)
  /\ Current.opc \in {"svb", "svs", "svl", "svq", "cpy"} =>
       Offset(regs[Current.dst]) >= StackTop

Observed == disciplined /\ Step

Other ==
  /\ Observed
  /\ status' = "run" => LeavesStack
  /\ UNCHANGED <<frames, disciplined>>

Enter ==
  /\ Observed
  /\ status' = "run" /\ IsCall
  /\ frames' = Append(frames, Offset(regs[RP] + 4))
  /\ UNCHANGED disciplined

Return ==
  /\ Observed
  /\ status' = "run" /\ IsReturn
  /\ frames # << >>
  /\ frames' = Front(frames)
  /\ UNCHANGED disciplined

Stray ==
  /\ Observed
  /\ status' = "run" /\ ~LeavesStack /\ ~IsCall
  /\ IsReturn => frames = << >>
  /\ disciplined' = FALSE
  /\ UNCHANGED frames

CallsNext == Other \/ Enter \/ Return \/ Stray

CallsSpec == CallsInit /\ [][CallsNext]_callvars /\ WF_callvars(CallsNext)

-----------------------------------------------------------------------------
(***************************************************************************)
(* Properties.                                                             *)
(***************************************************************************)
(* Below the stack top memory holds exactly the open frames, in order, and *)
(* $s points at the innermost; also in the cell in front of the segment    *)
(* that a call can still reach.                                            *)
FramesInMemory ==
  status = "run" /\ disciplined =>
    /\ regs[RS] = StackTop - 4 * Len(frames)
    /\ \A i \in DOMAIN frames : GetCell(ddata, StackTop - 4 * i, 4) = frames[i]

(* Each ret goes to the instruction behind the zcl it belongs to, across   *)
(* nested calls, recursion and stores made meanwhile.                      *)
ReturnsToCaller ==
  [][ disciplined /\ frames' # frames /\ Current.opc = "ret"
        => regs'[RP] = Last(frames) ]_callvars

(* The stack is finite: a disciplined program that jumps backwards only by *)
(* zcl and ret comes to an end.                                            *)
CallsTerminate == <>(status # "run" \/ ~disciplined)
=============================================================================
