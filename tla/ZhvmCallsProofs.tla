-------------------------- MODULE ZhvmCallsProofs ---------------------------
(***************************************************************************)
(* Theorems about ZhvmCalls: the call discipline, for every program, word  *)
(* size and segment size.                                                  *)
(***************************************************************************)
EXTENDS ZhvmCalls, ZhvmExecProofs

-----------------------------------------------------------------------------
(***************************************************************************)
(* The inductive invariant.  Where FramesInMemory says what is in memory,  *)
(* it adds where the frames can be: the check of the push keeps them       *)
(* between four bytes in front of the segment and five from its end.       *)
(***************************************************************************)
Slot(i) == StackTop - 4 * i

FramesOk(f, r, m) ==
  /\ r[RS] = Slot(Len(f))
  /\ \A i \in 1 .. Len(f) :
       Slot(i) \in -4 .. DSize - 5 /\ GetCell(m, Slot(i), 4) = f[i]

CallsInv ==
  /\ VMTypeOK
  /\ frames \in Seq(OffT)
  /\ status = "run" /\ disciplined => FramesOk(frames, regs, ddata)

LEMMA StackFacts ==
  /\ RS \in Reg /\ RS # RP /\ RS # RZ
  /\ StackTop \in Int /\ StackTop \in 0 .. DSize /\ DSize \in Nat
  /\ DSize + 8 <= AddrHalf /\ AddrHalf \in Nat /\ AddrHalf <= Half8 /\ Half8 \in Nat
BY StackAssumption, SizeAssumption, AddrFacts, HalvesPositive DEF RS, RP, RZ

(* Addresses near the segment are words and stay what they are.            *)
LEMMA NearSegment ==
  ASSUME NEW a \in -8 .. DSize
  PROVE  a \in Word /\ a \in OffT /\ Wrap(a) = a /\ Offset(a) = a
<1>1. a \in Word /\ a \in OffT
  BY StackFacts DEF Word, OffT
<1> QED
  BY <1>1, OffsetSmall DEF Wrap

LEMMA SetRegRead ==
  ASSUME NEW r, DOMAIN r = Reg, NEW y \in Reg, y # RZ, NEW v
  PROVE  SetReg(r, y, v)[y] = v
BY DEF SetReg

(* zcl keeps all of the return address: it fits four bytes.                *)
LEMMA ReturnAddressFits ==
  ASSUME VMTypeOK, CodeOk(Pc)
  PROVE  Signed((regs[RP] + 4) % (2 * Half4), Half4) = Offset(regs[RP] + 4)
<1> DEFINE a == regs[RP] + 4
<1>1. regs[RP] \in Word /\ regs[RP] \in Int
  BY RegFacts, GetWord DEF VMTypeOK
<1>2. CASE AddrHalf = Half4
  BY <1>2 DEF Offset, Size
<1>3. CASE AddrHalf = Half8
  <2>1. Word = OffT
    BY <1>3 DEF Word, OffT
  <2>2. Pc = regs[RP]
    BY <1>1, <2>1, OffsetSmall DEF Pc
  <2>3. regs[RP] \in CodeAddr
    BY <1>1, <2>1, <2>2, CodeOkIsCodeAddr
  <2>4. a \in 0 .. CSize - 1 /\ CSize <= Half4 /\ CSize \in Nat /\ CSize + 4 <= AddrHalf
    BY <1>1, <2>3, SizeAssumption, StackAssumption DEF CodeAddr
  <2>5. a \in OffT
    BY <2>4, AddrFacts DEF OffT
  <2>6. Offset(a) = a
    BY <2>5, OffsetSmall
  <2>7. a % (2 * Half4) = a
    <3> DEFINE m == 2 * Half4
    <3>1. m \in Nat \ {0} /\ a \in 0 .. m - 1
      BY <2>4, HalvesPositive
    <3> HIDE DEF m, a
    <3>2. (0 * m + a) % m = a
      BY <3>1, ModUnique
    <3>3. 0 * m + a = a
      BY <3>1
    <3> QED
      BY <3>2, <3>3 DEF m
  <2>8. Signed(a, Half4) = a
    BY <2>4, HalvesPositive DEF Signed
  <2> QED
    BY <2>6, <2>7, <2>8
<1> QED
  BY <1>2, <1>3, AddrAssumption

-----------------------------------------------------------------------------
(***************************************************************************)
(* The steps.                                                              *)
(***************************************************************************)
LEMMA RunningStep ==
  ASSUME VMTypeOK, Step, status' = "run"
  PROVE  CodeOk(Pc) /\ Current \in Command /\ Interpret(Current)
<1>1. FetchAndInterpret
  BY DEF Step, FetchFault, CodeFault
<1> QED
  BY <1>1, FetchedIsCommand DEF FetchAndInterpret, Current

(* An instruction that leaves the stack alone keeps $s and the bytes below *)
(* the top of the stack.                                                   *)
LEMMA StackLeft ==
  ASSUME VMTypeOK, Step, status' = "run", LeavesStack
  PROVE  /\ regs'[RS] = regs[RS]
         /\ \A a \in DataAddr : a < StackTop => ddata'[a] = ddata[a]
<1> DEFINE c == Current
<1>1. Current \in Command /\ Interpret(Current)
  BY RunningStep
<1>2. regs'[RS] = regs[RS]
  <2>1. PICK r, w : /\ Ran(r, w) /\ DOMAIN r = Reg /\ w \subseteq MayWrite(Current)
                    /\ \A z \in Reg : z \notin w => r[z] = regs[z]
    BY <1>1, RunningInstructions DEF Effect
  <2>2. RS \notin w /\ r[RS] = regs[RS]
    BY <2>1, StackFacts DEF LeavesStack
  <2> QED
    BY <2>1, <2>2, StackFacts, RegFacts, SetRegFrame DEF Ran
<1>3. ASSUME NEW a \in DataAddr, a < StackTop
      PROVE  ddata'[a] = ddata[a]
  <2>1. Current.dst \in Reg /\ regs[Current.dst] \in Int /\ Offset(regs[Current.dst]) \in Int
    BY <1>1, CommandFields, GetWord, OffsetRange DEF VMTypeOK
  <2>2. a \in Int /\ StackTop \in Int /\ DOMAIN ddata = DataAddr
    BY StackFacts DEF DataAddr, VMTypeOK
  <2>3. CASE Store(Current)
    <3> DEFINE o == Offset(regs[Current.dst])
               n == Width(Current.opc)
    <3>1. PICK v : ddata' = SetCell(ddata, o, n, v)
      BY <2>3 DEF Store
    <3>2. o >= StackTop
      BY <2>3 DEF Store, LeavesStack
    <3> HIDE DEF o, n
    <3>3. a \notin o .. o + n - 1
      BY <2>1, <2>2, <3>2, <1>3 DEF o
    <3> QED
      BY <2>2, <3>1, <3>3 DEF SetCell
  <2>4. CASE Copy(Current)
    <3> DEFINE d == Offset(regs[Current.dst])
    <3>1. d >= StackTop
      BY <2>4 DEF Copy, LeavesStack
    <3>2. PICK l, s : ddata' = [x \in DataAddr |->
                        IF x \in d .. d + l - 1 THEN ddata[s + (x - d)] ELSE ddata[x]]
      BY <2>4 DEF Copy
    <3> HIDE DEF d
    <3>3. a \notin d .. d + l - 1
      BY <2>1, <2>2, <3>1, <1>3 DEF d
    <3> QED
      BY <3>2, <3>3
  <2>5. CASE ~Store(Current) /\ ~Copy(Current)
    <3>1. ~ZCall(Current)
      BY DEF LeavesStack, ZCall
    <3>2. ddata' = ddata
      BY <1>1, <2>5, <3>1
         DEF Interpret, Hlt, Reserved, Nop, Arith, Trap, CondMove, Load, AccessFault,
             Compare, Wild, CallNone, CallPut, CallGet, ZCallFault, Ret, Silent
    <3> QED
      BY <3>2
  <2> QED
    BY <2>3, <2>4, <2>5
<1> QED
  BY <1>2, <1>3

(* Frames keep their contents when the bytes below the top do.             *)
LEMMA FramesKept ==
  ASSUME NEW f \in Seq(OffT), NEW r, NEW q, NEW m, NEW p, FramesOk(f, r, m),
         q[RS] = r[RS], \A a \in DataAddr : a < StackTop => p[a] = m[a]
  PROVE  FramesOk(f, q, p)
<1>1. ASSUME NEW i \in 1 .. Len(f)
      PROVE  GetCell(p, Slot(i), 4) = GetCell(m, Slot(i), 4)
  <2>1. Slot(i) \in -4 .. DSize - 5 /\ Slot(i) + 4 <= StackTop /\ Slot(i) \in Int
    BY StackFacts, SMTT(30) DEF FramesOk, Slot
  <2>2. \A a \in Slot(i) .. Slot(i) + 4 - 1 : a \in DataAddr /\ a < StackTop
    BY <2>1, StackFacts DEF DataAddr
  <2>3. \A a \in Slot(i) .. Slot(i) + 4 - 1 : p[a] = m[a]
    BY <2>2
  <2> QED
    BY <2>1, <2>3, SameCell
<1> QED
  BY <1>1 DEF FramesOk

LEMMA EnterFrames ==
  ASSUME CallsInv, Enter
  PROVE  FramesOk(frames', regs', ddata') /\ frames' \in Seq(OffT)
<1> DEFINE c == Current
           n == Len(frames)
           b == Slot(n + 1)
           r == SetReg(regs, RS, Below(c))
           ra == Offset(regs[RP] + 4)
<1>1. VMTypeOK /\ frames \in Seq(OffT) /\ FramesOk(frames, regs, ddata)
  BY DEF CallsInv, Enter, Observed, Step
<1>2. CodeOk(Pc) /\ c \in Command /\ Interpret(c)
      /\ c.opc = "zcl" /\ c.dst = RP /\ c.s0 = RS
  BY <1>1, RunningStep DEF Enter, Observed, IsCall
<1>3. ZCall(c)
  <2> HIDE DEF c
  <2>1. status' = "run" /\ c.opc = "zcl"
    BY <1>2 DEF Enter
  <2>2. ~ZCallFault(c)
    BY <2>1 DEF ZCallFault, Stop
  <2> QED
    BY <1>2, <2>1, <2>2
       DEF Interpret, Hlt, Reserved, Nop, Arith, Trap, CondMove, Load, Store, AccessFault,
           Copy, Compare, Wild, CallNone, CallPut, CallGet, Calls, Ret, ArithOps
<1>4. n \in Nat /\ b \in Int /\ regs[RS] - 4 = b /\ b <= DSize - 4
  BY <1>1, StackFacts DEF FramesOk, Slot
<1>5. Below(c) = Wrap(b)
  BY <1>2, <1>4 DEF Below
<1>6. b >= -8
  <2>1. CASE n = 0
    BY <2>1, StackFacts DEF Slot
  <2>2. CASE n > 0
    <3>1. n \in 1 .. Len(frames) /\ b = Slot(n) - 4 /\ Slot(n) \in Int
      BY <1>4, <2>2, StackFacts DEF Slot
    <3>2. Slot(n) \in -4 .. DSize - 5
      BY <1>1, <3>1 DEF FramesOk
    <3> QED
      BY <3>1, <3>2, StackFacts
  <2> QED
    BY <1>4, <2>1, <2>2
<1>7. b \in Word /\ b \in OffT /\ Wrap(b) = b /\ Offset(b) = b
  BY <1>4, <1>6, StackFacts, NearSegment
<1>8. /\ DataOk(b, 4)
      /\ Ran(SetReg(r, RP, Operand(r, c)), {RS, RP})
      /\ ddata' = SetCell(ddata, b, 4, r[RP] + 4)
  BY <1>2, <1>3, <1>5, <1>7 DEF ZCall
<1>9. b \in -4 .. DSize - 5
  <2> HIDE DEF b
  <2>1. \A o \in OffT : DataOk(o, 4) => o \in -4 .. DSize - 5
    BY DataOkIsInside, StackFacts, AddrFacts DEF OffT
  <2> QED
    BY <1>7, <1>8, <2>1
<1>10. RP \in Reg /\ RP # RZ /\ DOMAIN regs = Reg /\ RS \in Reg /\ RS # RZ /\ RS # RP
       /\ regs[RP] \in Int
  BY <1>1, RegFacts, StackFacts, GetWord DEF VMTypeOK, Registers
<1>11. DOMAIN r = Reg /\ r[RP] = regs[RP] /\ r[RS] = b
  BY <1>5, <1>7, <1>10, SetRegFrame, SetRegRead
<1> HIDE DEF r
<1>12. regs'[RS] = b
  <2>1. regs' = SetReg(r, RP, Operand(r, c))
    BY <1>8 DEF Ran
  <2> QED
    BY <1>10, <1>11, <2>1, SetRegFrame
<1>13. ra \in OffT
  BY <1>10, OffsetRange
<1>14. GetCell(ddata', b, 4) = ra
  <2>1. \A a \in b .. b + 4 - 1 : a \in DOMAIN ddata
    BY <1>1, <1>9, StackFacts DEF VMTypeOK, DataAddr
  <2>2. GetCell(SetCell(ddata, b, 4, regs[RP] + 4), b, 4)
          = Signed((regs[RP] + 4) % (2 * HalfOf(4)), HalfOf(4))
    <3>1. regs[RP] + 4 \in Int /\ b \in Int
      BY <1>4, <1>10
    <3> HIDE DEF b
    <3> QED
      BY <2>1, <3>1, StoredCell
  <2>3. HalfOf(4) = Half4
    BY DEF HalfOf
  <2>4. Signed((regs[RP] + 4) % (2 * Half4), Half4) = ra
    BY <1>1, <1>2, ReturnAddressFits
  <2> QED
    BY <1>8, <1>11, <2>2, <2>3, <2>4, Zenon
<1>15. frames' = Append(frames, ra)
  BY DEF Enter
<1> HIDE DEF ra
<1>16. frames' \in Seq(OffT) /\ Len(frames') = n + 1
       /\ frames'[n + 1] = ra /\ \A i \in 1 .. n : frames'[i] = frames[i]
  BY <1>1, <1>13, <1>15
<1>17. ASSUME NEW i \in 1 .. n
       PROVE  GetCell(ddata', Slot(i), 4) = frames[i] /\ Slot(i) \in -4 .. DSize - 5
  <2>1. GetCell(ddata, Slot(i), 4) = frames[i] /\ Slot(i) \in -4 .. DSize - 5
    BY <1>1 DEF FramesOk
  <2>2. Slot(i) >= b + 4 /\ Slot(i) \in Int
    BY <1>4, StackFacts DEF Slot
  <2>3. \A a \in Slot(i) .. Slot(i) + 4 - 1 : a \in DataAddr /\ a \notin b .. b + 4 - 1
    BY <1>4, <2>1, <2>2, StackFacts DEF DataAddr
  <2>4. \A a \in Slot(i) .. Slot(i) + 4 - 1 : ddata'[a] = ddata[a]
    BY <1>1, <1>8, <2>3 DEF SetCell, VMTypeOK
  <2> QED
    BY <2>1, <2>2, <2>4, SameCell
<1> HIDE DEF n, b
<1>18. \A i \in 1 .. n + 1 : Slot(i) \in -4 .. DSize - 5 /\ GetCell(ddata', Slot(i), 4) = frames'[i]
  <2>1. \A i \in 1 .. n + 1 : i \in 1 .. n \/ i = n + 1
    BY <1>4 DEF n
  <2> QED
    BY <1>9, <1>14, <1>16, <1>17, <2>1 DEF b
<1> QED
  BY <1>12, <1>16, <1>18 DEF FramesOk, b

LEMMA ReturnFrames ==
  ASSUME CallsInv, Return
  PROVE  /\ FramesOk(frames', regs', ddata') /\ frames' \in Seq(OffT)
         /\ regs'[RP] = Last(frames)
<1> DEFINE c == Current
           n == Len(frames)
           b == Slot(n)
           r == SetReg(regs, RS, Wrap(b + 4))
<1>1. VMTypeOK /\ frames \in Seq(OffT) /\ FramesOk(frames, regs, ddata) /\ frames # << >>
  BY DEF CallsInv, Return, Observed, Step
<1>2. c \in Command /\ Interpret(c) /\ c.opc = "ret" /\ c.dst = RP /\ c.s0 = RS
      /\ c.s1 = RZ /\ c.imm = 0
  BY <1>1, RunningStep DEF Return, Observed, IsReturn
<1>3. Ret(c)
  <2> HIDE DEF c
  <2>1. status' = "run" /\ c.opc = "ret"
    BY <1>2 DEF Return
  <2>2. ~AccessFault(c)
    BY <2>1 DEF AccessFault, Stop
  <2> QED
    BY <1>2, <2>1, <2>2
       DEF Interpret, Hlt, Reserved, Nop, Arith, Trap, CondMove, Load, Store, ZCallFault,
           Copy, Compare, Wild, CallNone, CallPut, CallGet, Calls, ZCall, ArithOps
<1>4. n \in Nat \ {0} /\ n \in 1 .. Len(frames) /\ frames[n] \in OffT /\ regs[RS] = b
  BY <1>1 DEF FramesOk
<1>5. b \in -4 .. DSize - 5 /\ GetCell(ddata, b, 4) = frames[n] /\ b + 4 = Slot(n - 1)
  BY <1>1, <1>4, StackFacts DEF FramesOk, Slot
<1>6. Offset(b) = b /\ Wrap(b + 4) = b + 4
  <2>1. b \in -8 .. DSize /\ b + 4 \in -8 .. DSize
    BY <1>5, StackFacts
  <2> QED
    BY <2>1, NearSegment
<1>7. Ran(SetReg(r, RP, Wrap(frames[n] + r[RZ] + 0)), {RS, RP}) /\ ddata' = ddata
  BY <1>2, <1>3, <1>4, <1>5, <1>6 DEF Ret, Silent
<1>8. RP \in Reg /\ RZ \in Reg /\ RP # RZ /\ DOMAIN regs = Reg /\ RS \in Reg /\ RS # RZ
      /\ RS # RP /\ regs[RZ] = 0
  BY <1>1, RegFacts, StackFacts, GetWord DEF VMTypeOK, Registers
<1>9. DOMAIN r = Reg /\ r[RZ] = 0 /\ r[RS] = b + 4
  BY <1>6, <1>8, SetRegFrame, SetRegRead
<1>10. Wrap(frames[n] + r[RZ] + 0) = frames[n]
  <2>1. frames[n] \in Word /\ frames[n] \in Int
    BY <1>4, AddrFacts, HalvesPositive DEF OffT, Word
  <2>2. frames[n] + r[RZ] + 0 = frames[n]
    BY <1>9, <2>1
  <2> QED
    BY <2>1, <2>2 DEF Wrap
<1> HIDE DEF r
<1>11. regs' = SetReg(r, RP, frames[n])
  BY <1>7, <1>10 DEF Ran
<1>12. regs'[RS] = b + 4 /\ regs'[RP] = frames[n]
  BY <1>8, <1>9, <1>11, SetRegFrame, SetRegRead
<1>13. frames' = SubSeq(frames, 1, n - 1)
  BY DEF Return, Front
<1>14. frames' \in Seq(OffT) /\ Len(frames') = n - 1
       /\ \A i \in 1 .. n - 1 : frames'[i] = frames[i]
  <2> HIDE DEF n
  <2>1. n = Len(frames) /\ n - 1 \in Nat /\ n - 1 <= Len(frames)
    BY <1>4 DEF n
  <2>2. \A k \in 1 .. n - 1 : frames[k] \in OffT
    BY <1>1, <2>1
  <2>3. Len(SubSeq(frames, 1, n - 1)) = n - 1
        /\ \A i \in 1 .. n - 1 : SubSeq(frames, 1, n - 1)[i] = frames[i]
    BY <1>1, <2>1
  <2>4. SubSeq(frames, 1, n - 1) \in Seq(OffT)
    BY <1>1, <2>1, <2>2
  <2> QED
    BY <1>13, <2>3, <2>4
<1>15. \A i \in 1 .. n - 1 : i \in 1 .. Len(frames)
  BY <1>4
<1>16. FramesOk(frames', regs', ddata')
  BY <1>1, <1>5, <1>7, <1>12, <1>14, <1>15 DEF FramesOk
<1> QED
  BY <1>12, <1>14, <1>16 DEF Last

LEMMA CallsStep ==
  ASSUME CallsInv, CallsNext
  PROVE  CallsInv'
<1>1. VMTypeOK /\ Step /\ disciplined
  BY DEF CallsInv, CallsNext, Other, Enter, Return, Stray, Observed
<1>2. VMTypeOK'
  BY <1>1, StepType
<1>3. frames \in Seq(OffT) /\ FramesOk(frames, regs, ddata)
  BY <1>1 DEF CallsInv, Step
<1>4. CASE Other
  <2>1. frames' = frames
    BY <1>4 DEF Other
  <2>2. ASSUME status' = "run" PROVE FramesOk(frames', regs', ddata')
    <3>1. /\ regs'[RS] = regs[RS]
          /\ \A a \in DataAddr : a < StackTop => ddata'[a] = ddata[a]
      BY <1>1, <1>4, <2>2, StackLeft DEF Other
    <3>2. FramesOk(frames, regs', ddata')
      BY <1>3, <3>1, FramesKept
    <3> QED
      BY <2>1, <3>2
  <2> QED
    BY <1>2, <1>3, <2>1, <2>2 DEF CallsInv
<1>5. CASE Enter
  BY <1>2, <1>5, EnterFrames DEF CallsInv
<1>6. CASE Return
  BY <1>2, <1>6, ReturnFrames DEF CallsInv
<1>7. CASE Stray
  BY <1>2, <1>3, <1>7 DEF CallsInv, Stray
<1> QED
  BY <1>4, <1>5, <1>6, <1>7 DEF CallsNext

LEMMA CallsStart == CallsInit => CallsInv
<1> SUFFICES ASSUME CallsInit PROVE CallsInv
  OBVIOUS
<1>1. VMTypeOK /\ frames = << >>
  BY InitType DEF CallsInit
<1>2. regs[RS] = StackTop
  BY StackAssumption DEF CallsInit, VMInit
<1>3. frames \in Seq(OffT) /\ Len(frames) = 0 /\ Slot(0) = StackTop
  BY <1>1, StackFacts DEF Slot
<1> QED
  BY <1>1, <1>2, <1>3 DEF CallsInv, FramesOk

LEMMA CallsInvariant == CallsSpec => []CallsInv
<1>1. CallsInv /\ [CallsNext]_callvars => CallsInv'
  <2> SUFFICES ASSUME CallsInv, UNCHANGED callvars PROVE CallsInv'
    BY CallsStep
  <2> QED
    BY DEF CallsInv, callvars, vmvars, VMTypeOK, FramesOk
<1> QED
  BY <1>1, CallsStart, PTL DEF CallsSpec

(* As long as a program keeps to the discipline, however deep its calls    *)
(* nest and whatever it stores meanwhile, memory below the stack top holds *)
(* the open frames and $s points at the innermost: no push overwrites a    *)
(* frame, no return address loses a byte, also at the last push the check  *)
(* of zcl lets through in front of the segment.                            *)
THEOREM FramesHeld == CallsSpec => []FramesInMemory
<1>1. CallsInv => FramesInMemory
  <2> SUFFICES ASSUME CallsInv, status = "run", disciplined
               PROVE  /\ regs[RS] = StackTop - 4 * Len(frames)
                      /\ \A i \in DOMAIN frames :
                           GetCell(ddata, StackTop - 4 * i, 4) = frames[i]
    BY DEF FramesInMemory
  <2>1. DOMAIN frames = 1 .. Len(frames)
    BY DEF CallsInv
  <2> QED
    BY <2>1 DEF CallsInv, FramesOk, Slot
<1> QED
  BY <1>1, CallsInvariant, PTL

(* Every ret of such a program goes behind the zcl it belongs to.          *)
THEOREM ReturnsHome == CallsSpec => ReturnsToCaller
<1> DEFINE Home ==
      disciplined /\ frames' # frames /\ Current.opc = "ret" => regs'[RP] = Last(frames)
<1>1. CallsInv /\ [CallsNext]_callvars => [Home]_callvars
  <2> SUFFICES ASSUME CallsInv, CallsNext, frames' # frames, Current.opc = "ret"
               PROVE  regs'[RP] = Last(frames)
    OBVIOUS
  <2>1. Return
    BY DEF CallsNext, Other, Enter, Stray, IsCall
  <2> QED
    BY <2>1, ReturnFrames
<1>2. CallsSpec => [][Home]_callvars
  BY <1>1, CallsInvariant, PTL DEF CallsSpec
<1> QED
  BY <1>2 DEF ReturnsToCaller
=============================================================================
