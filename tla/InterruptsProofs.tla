--------------------------- MODULE InterruptsProofs ---------------------------
(***************************************************************************)
(* The safety properties of Interrupts, for every set of exceptions,       *)
(* lines, flags and every size of the stack.                               *)
(*                                                                         *)
(* A return would need a frame whose flags, which iretq takes for the      *)
(* selector, name a segment of kernel code.  The strengthening says that   *)
(* bit 1 is set in the flags of every frame, which it is in no selector of *)
(* privilege 0; that interrupts are enabled in code only, and that a       *)
(* processor in code with a line served has the timer in service.          *)
(***************************************************************************)
EXTENDS Interrupts, SequenceTheorems, TLAPS

FrameOK(frame) ==
  /\ frame \in Seq(Nat) /\ Len(frame) = 7
  /\ frame[5] \in Nat /\ frame[5] % 4 >= 2

FramesOK == \A i \in DOMAIN stack : FrameOK(stack[i])

EnabledInCode == (enabled => pc = "code") /\ (pc # "code" => stack # <<>>)

NothingBefore == stage \in {"start", "isrInstall"} => requested = {} /\ served = <<>>

TimerInService ==
  /\ Len(served) <= 1
  /\ pc = "code" /\ served # <<>> => 0 \in inService

IInv ==
  /\ TypeOK
  /\ FramesOK
  /\ EnabledInCode
  /\ NothingBefore
  /\ TimerInService

-----------------------------------------------------------------------------

LEMMA ConstantsTyped ==
  /\ RIP \in Nat /\ RSP \in Nat /\ DEPTH \in Nat \ {0}
  /\ \A f \in CodeFlags : f \in 0 .. 255 /\ f % 4 >= 2
  /\ \A f \in StubFlags : f \in 128 .. 255 /\ f % 4 >= 2
BY InterruptsAssumption DEF InterruptsAssumption

LEMMA FrameTyped ==
  ASSUME NEW vector \in Nat, NEW error \in Nat, NEW flags \in Nat, flags % 4 >= 2
  PROVE  FrameOK(Frame(vector, error, flags))
<1> DEFINE word == IF vector \in ErrorCode THEN error ELSE 0
<1>1. RIP \in Nat /\ RSP \in Nat /\ word \in Nat /\ CS \in Nat /\ SS \in Nat
  BY ConstantsTyped DEF CS, SS
<1>2. Frame(vector, error, flags) = <<vector, word, RIP, CS, flags, RSP, SS>>
  BY DEF Frame
<1> HIDE DEF word
<1> QED BY <1>1, <1>2 DEF FrameOK

LEMMA FieldsTyped ==
  ASSUME NEW frame, FrameOK(frame)
  PROVE  int_no(frame) \in Nat /\ rip(frame) \in Nat
<1>1. frame \in Seq(Nat) /\ 2 \in 1 .. Len(frame) /\ 4 \in 1 .. Len(frame)
  BY DEF FrameOK
<1>2. frame[2] \in Nat /\ frame[4] \in Nat
  BY <1>1, ElementOfSeq
<1> QED BY <1>2 DEF int_no, rip

LEMMA CodeFlagsTyped ==
  ASSUME NEW f \in CodeFlags, enabled \in BOOLEAN
  PROVE  Flags(f) \in Nat /\ Flags(f) % 4 >= 2
<1>1. f \in 0 .. 255 /\ f % 4 >= 2
  BY ConstantsTyped
<1>2. (f + 512) % 4 = f % 4 /\ f + 512 \in Nat
  BY <1>1
<1> QED BY <1>1, <1>2 DEF Flags, InterruptFlag

(* An interrupt keeps what is said of the stack.                           *)
LEMMA EnterKeeps ==
  ASSUME IInv, NEW vector \in Nat, NEW error \in Nat, NEW flags \in Nat, flags % 4 >= 2,
         Enter(vector, error, flags)
  PROVE  /\ enabled' = FALSE /\ pc' \in {"handler", "overflow"}
         /\ stack' \in Seq(Seq(Nat)) /\ Len(stack') <= DEPTH /\ stack' # <<>>
         /\ FramesOK'
         /\ SubSeq(stack', 1, Len(stack)) = stack /\ Len(stack') >= Len(stack)
<1> DEFINE frame == Frame(vector, error, flags)
<1>1. FrameOK(frame)
  BY FrameTyped
<1>2. stack \in Seq(Seq(Nat)) /\ Len(stack) <= DEPTH /\ DEPTH \in Nat \ {0}
  BY ConstantsTyped DEF IInv, TypeOK
<1>3. frame \in Seq(Nat)
  BY <1>1 DEF FrameOK
<1> HIDE DEF frame
<1>4. CASE Len(stack) < DEPTH
  <2>1. stack' = Append(stack, frame) /\ pc' = "handler" /\ enabled' = FALSE
    BY <1>4 DEF Enter, frame
  <2>2. /\ stack' \in Seq(Seq(Nat)) /\ Len(stack') = Len(stack) + 1
        /\ \A i \in 1 .. Len(stack) : stack'[i] = stack[i]
        /\ stack'[Len(stack) + 1] = frame
    BY <1>2, <1>3, <2>1
  <2>3. FramesOK'
    <3> SUFFICES ASSUME NEW i \in 1 .. Len(stack) + 1 PROVE FrameOK(stack'[i])
      BY <2>2 DEF FramesOK
    <3>1. CASE i = Len(stack) + 1
      BY <3>1, <2>2, <1>1
    <3>2. CASE i \in 1 .. Len(stack)
      <4>1. i \in DOMAIN stack /\ stack'[i] = stack[i]
        BY <3>2, <2>2, <1>2
      <4> QED BY <4>1 DEF IInv, FramesOK
    <3> QED BY <3>1, <3>2, <1>2
  <2>4. SubSeq(stack', 1, Len(stack)) = stack
    BY <1>2, <1>3, <2>1
  <2>5. Len(stack') <= DEPTH /\ stack' # <<>> /\ Len(stack') >= Len(stack)
    BY <1>2, <1>4, <2>2
  <2> QED BY <2>1, <2>2, <2>3, <2>4, <2>5
<1>5. CASE ~ Len(stack) < DEPTH
  <2>1. stack' = stack /\ pc' = "overflow" /\ enabled' = FALSE
    BY <1>5 DEF Enter
  <2>2. FramesOK'
    BY <2>1 DEF IInv, FramesOK
  <2>3. stack # <<>>
    BY <1>2, <1>5
  <2>4. SubSeq(stack, 1, Len(stack)) = stack
    BY <1>2
  <2> QED BY <1>2, <2>1, <2>2, <2>3, <2>4
<1> QED BY <1>4, <1>5

LEMMA TopOK ==
  ASSUME IInv, pc # "code"
  PROVE  FrameOK(Top)
<1>1. stack \in Seq(Seq(Nat)) /\ stack # <<>>
  BY DEF IInv, TypeOK, EnabledInCode
<1>2. Len(stack) \in DOMAIN stack
  BY <1>1
<1> QED BY <1>2 DEF IInv, FramesOK, Top

(* No frame leads iretq back to code.                                      *)
LEMMA IretqFaults ==
  ASSUME IInv, Iretq
  PROVE  \E f \in StubFlags, e \in Nat : Enter(13, e, f)
<1>1. FrameOK(Top)
  BY TopOK DEF Iretq
<1>2. ReturnCS(Top) = Top[5]
  BY DEF ReturnCS, DROPPED
<1>3. Top[5] \in Nat /\ Top[5] % 4 >= 2
  BY <1>1 DEF FrameOK
<1>4. Top[5] \notin KernelCode
  BY <1>3 DEF KernelCode
<1>5. SelectorError(Top[5]) \in Nat
  BY <1>3 DEF SelectorError
<1> QED BY <1>2, <1>4, <1>5 DEF Iretq

(* One leads to a user's code, unless the selector of the stack faults.    *)
LEMMA IretqToUserFaults ==
  ASSUME IretqToUser
  PROVE  \/ pc' = "user" /\ UNCHANGED <<enabled, stack>>
         \/ \E f \in StubFlags, e \in Nat : Enter(13, e, f)
<1>1. ASSUME NEW ss \in Above, NEW f \in StubFlags, Enter(13, SelectorError(ss), f)
      PROVE  \E g \in StubFlags, e \in Nat : Enter(13, e, g)
  <2>1. ss \in Nat
    BY InterruptsAssumption DEF InterruptsAssumption
  <2>2. SelectorError(ss) \in Nat
    BY <2>1 DEF SelectorError
  <2> QED BY <1>1, <2>2
<1> QED BY <1>1 DEF IretqToUser

-----------------------------------------------------------------------------
(* One lemma for each action.                                              *)

(* Where nothing but the stage, the flag and the lines changes.            *)
LEMMA SetupKeeps ==
  ASSUME IInv, Setup
  PROVE  IInv' /\ stack' = stack /\ pc' = pc
<1> USE DEF IInv, TypeOK, FramesOK, EnabledInCode, NothingBefore, TimerInService
<1>1. CASE isrInstall
  BY <1>1 DEF isrInstall, picVars
<1>2. CASE RemapPIC
  BY <1>2 DEF RemapPIC
<1>3. CASE pitInit
  BY <1>3 DEF pitInit, picVars
<1>4. CASE Cli
  BY <1>4 DEF Cli, picVars
<1>5. CASE Sti
  BY <1>5 DEF Sti, picVars
<1> QED BY <1>1, <1>2, <1>3, <1>4, <1>5 DEF Setup

LEMMA RaiseKeeps ==
  ASSUME IInv, NEW line \in Lines, Raise(line)
  PROVE  IInv' /\ stack' = stack /\ pc' = pc
BY DEF Raise, kernelVars, IInv, TypeOK, FramesOK, EnabledInCode, NothingBefore, TimerInService

(* A line is served only while none has been.                              *)
LEMMA ServesOnce ==
  ASSUME IInv, NEW line \in 0 .. 15, Serves(line)
  PROVE  /\ served = <<>> /\ served' = <<line>> /\ requested' \subseteq Lines
         /\ line \in Lines /\ stage \notin {"start", "isrInstall"} /\ pc = "code"
<1>1. /\ pc = "code" /\ line \in requested /\ requested' = requested \ {line}
      /\ \A l \in inService : Priority(line) < Priority(l)
      /\ served' = Append(served, line)
  BY DEF Serves
<1>2. ~ (0 \in inService)
  <2>1. Priority(0) = 0 /\ Priority(line) \in Nat
    BY DEF Priority
  <2>2. ~ (Priority(line) < Priority(0))
    BY <2>1
  <2> QED BY <1>1, <2>2
<1>3. served \in Seq(Lines) /\ requested \subseteq Lines
  BY DEF IInv, TypeOK
<1>4. served = <<>>
  BY <1>1, <1>2 DEF IInv, TimerInService
<1>5. stage \notin {"start", "isrInstall"}
  BY <1>1 DEF IInv, NothingBefore
<1> QED BY <1>1, <1>3, <1>4, <1>5

LEMMA TickKeeps ==
  ASSUME IInv, Tick
  PROVE  IInv' /\ stack' = stack /\ pc' = pc
<1>1. /\ served' = <<0>> /\ requested' \subseteq Lines /\ 0 \in Lines
      /\ stage \notin {"start", "isrInstall"} /\ pc = "code"
  BY ServesOnce DEF Tick
<1>2. /\ inService' = inService \cup {0}
      /\ UNCHANGED <<stage, enabled, pc, stack, reports>>
  BY DEF Tick, kernelVars
<1> QED BY <1>1, <1>2
    DEF IInv, TypeOK, FramesOK, EnabledInCode, NothingBefore, TimerInService

LEMMA LineInterruptKeeps ==
  ASSUME IInv, NEW line \in Lines, LineInterrupt(line)
  PROVE  /\ IInv' /\ SubSeq(stack', 1, Len(stack)) = stack /\ Len(stack') >= Len(stack)
         /\ pc = "code"
<1>1. line \in 0 .. 15
  BY InterruptsAssumption DEF InterruptsAssumption
<1>2. /\ served' = <<line>> /\ requested' \subseteq Lines
      /\ stage \notin {"start", "isrInstall"} /\ pc = "code"
  BY <1>1, ServesOnce DEF LineInterrupt
<1>3. PICK f \in CodeFlags : Enter(32 + line, 0, Flags(f))
  BY DEF LineInterrupt
<1>4. Flags(f) \in Nat /\ Flags(f) % 4 >= 2
  BY CodeFlagsTyped DEF IInv, TypeOK
<1>5. /\ enabled' = FALSE /\ pc' \in {"handler", "overflow"}
      /\ stack' \in Seq(Seq(Nat)) /\ Len(stack') <= DEPTH /\ stack' # <<>>
      /\ FramesOK'
      /\ SubSeq(stack', 1, Len(stack)) = stack /\ Len(stack') >= Len(stack)
  <2>1. 32 + line \in Nat
    BY <1>1
  <2> QED BY <2>1, <1>3, <1>4, EnterKeeps
<1>6. inService' = inService \cup {line} /\ UNCHANGED <<stage, reports>>
  BY DEF LineInterrupt
<1>7. served' \in Seq(Lines) /\ Len(served') = 1
  BY ONLY <1>2, line \in Lines
<1>8. TypeOK'
  BY <1>2, <1>5, <1>6, <1>7 DEF IInv, TypeOK, Ends
<1>9. EnabledInCode' /\ NothingBefore' /\ TimerInService'
  BY <1>2, <1>5, <1>6, <1>7 DEF EnabledInCode, NothingBefore, TimerInService
<1> QED BY <1>2, <1>5, <1>8, <1>9 DEF IInv

LEMMA ExceptionKeeps ==
  ASSUME IInv, NEW e \in Exceptions, Exception(e)
  PROVE  /\ IInv' /\ SubSeq(stack', 1, Len(stack)) = stack /\ Len(stack') >= Len(stack)
         /\ pc = "code"
<1>1. e.vector \in Nat /\ e.error \in Nat
  BY InterruptsAssumption DEF InterruptsAssumption
<1>2. PICK f \in CodeFlags : Enter(e.vector, e.error, Flags(f))
  BY DEF Exception
<1>3. Flags(f) \in Nat /\ Flags(f) % 4 >= 2
  BY CodeFlagsTyped DEF IInv, TypeOK
<1>4. /\ enabled' = FALSE /\ pc' \in {"handler", "overflow"}
      /\ stack' \in Seq(Seq(Nat)) /\ Len(stack') <= DEPTH /\ stack' # <<>>
      /\ FramesOK'
      /\ SubSeq(stack', 1, Len(stack)) = stack /\ Len(stack') >= Len(stack)
  BY <1>1, <1>2, <1>3, EnterKeeps
<1>5. pc = "code" /\ UNCHANGED <<stage, requested, inService, served, reports>>
  BY DEF Exception, picVars
<1> QED BY <1>4, <1>5
    DEF IInv, TypeOK, Ends, EnabledInCode, NothingBefore, TimerInService

LEMMA HandlerKeeps ==
  ASSUME IInv, Handler
  PROVE  /\ IInv' /\ SubSeq(stack', 1, Len(stack)) = stack /\ Len(stack') >= Len(stack)
         /\ pc' # "code"
<1>1. stack \in Seq(Seq(Nat)) /\ SubSeq(stack, 1, Len(stack)) = stack /\ Len(stack) \in Nat
  BY DEF IInv, TypeOK
<1>2. CASE Report
  <2>1. FrameOK(Top) /\ pc = "handler"
    BY <1>2, TopOK DEF Report, Goto
  <2>2. /\ Top \in Seq(Nat) /\ int_no(Top) \in 0 .. 31 /\ rip(Top) \in Nat
    <3>1. Top \in Seq(Nat) /\ int_no(Top) \in Nat /\ rip(Top) \in Nat
      BY <2>1, FieldsTyped DEF FrameOK
    <3>2. int_no(Top) < 32
      BY <1>2 DEF Report
    <3>3. \A n \in Nat : n < 32 => n \in 0 .. 31
      OBVIOUS
    <3> QED BY <3>1, <3>2, <3>3, Zenon
  <2>3. /\ reports' = Append(reports, [frame |-> Top, message |-> int_no(Top), rip |-> rip(Top)])
        /\ pc' = "halted" /\ UNCHANGED <<stage, enabled, stack, requested, inService, served>>
    BY <1>2 DEF Report, Goto, picVars
  <2>4. reports' \in Seq([frame : Seq(Nat), message : 0 .. 31, rip : Nat])
    BY <2>2, <2>3 DEF IInv, TypeOK
  <2> QED BY <1>1, <2>1, <2>3, <2>4
      DEF IInv, TypeOK, Ends, FramesOK, EnabledInCode, NothingBefore, TimerInService
<1>3. CASE CallsPitHandler
  BY <1>1, <1>3 DEF CallsPitHandler, Goto, picVars,
      IInv, TypeOK, Ends, FramesOK, EnabledInCode, NothingBefore, TimerInService
<1>4. CASE CallsBeyondTable
  BY <1>1, <1>4 DEF CallsBeyondTable, Goto, picVars,
      IInv, TypeOK, Ends, FramesOK, EnabledInCode, NothingBefore, TimerInService
<1>5. CASE NoHandler
  BY <1>1, <1>5 DEF NoHandler, Goto,
      IInv, TypeOK, Ends, FramesOK, EnabledInCode, NothingBefore, TimerInService
<1>6. ASSUME Iretq \/ IretqToUser, \E f \in StubFlags, e \in Nat : Enter(13, e, f)
      PROVE  /\ IInv' /\ SubSeq(stack', 1, Len(stack)) = stack /\ Len(stack') >= Len(stack)
             /\ pc' # "code"
  <2>1. PICK f \in StubFlags, e \in Nat : Enter(13, e, f)
    BY <1>6
  <2>2. f \in Nat /\ f % 4 >= 2
    BY ConstantsTyped
  <2>3. /\ enabled' = FALSE /\ pc' \in {"handler", "overflow"}
        /\ stack' \in Seq(Seq(Nat)) /\ Len(stack') <= DEPTH /\ stack' # <<>>
        /\ FramesOK'
        /\ SubSeq(stack', 1, Len(stack)) = stack /\ Len(stack') >= Len(stack)
    BY <2>1, <2>2, EnterKeeps
  <2>4. UNCHANGED <<stage, requested, inService, served, reports>> /\ pc # "code"
    BY <1>6 DEF Iretq, IretqToUser, picVars
  <2> QED BY <2>3, <2>4
      DEF IInv, TypeOK, Ends, EnabledInCode, NothingBefore, TimerInService
<1>7. CASE Iretq
  BY <1>6, <1>7, IretqFaults
<1>8. CASE IretqToUser
  <2>1. CASE pc' = "user" /\ UNCHANGED <<enabled, stack>>
    BY <1>1, <1>8, <2>1 DEF IretqToUser, picVars,
        IInv, TypeOK, Ends, FramesOK, EnabledInCode, NothingBefore, TimerInService
  <2> QED BY <1>6, <1>8, <2>1, IretqToUserFaults
<1> QED BY <1>2, <1>3, <1>4, <1>5, <1>7, <1>8 DEF Handler

-----------------------------------------------------------------------------

LEMMA Step ==
  ASSUME IInv, [Next]_vars
  PROVE  /\ IInv' /\ SubSeq(stack', 1, Len(stack)) = stack /\ Len(stack') >= Len(stack)
         /\ pc # "code" => pc' # "code"
<1>1. stack \in Seq(Seq(Nat)) /\ SubSeq(stack, 1, Len(stack)) = stack /\ Len(stack) \in Nat
  BY DEF IInv, TypeOK
<1>2. CASE Setup
  BY <1>1, <1>2, SetupKeeps
<1>3. CASE \E line \in Lines : Raise(line)
  BY <1>1, <1>3, RaiseKeeps
<1>4. CASE Tick
  BY <1>1, <1>4, TickKeeps
<1>5. CASE \E line \in Lines : LineInterrupt(line)
  BY <1>5, LineInterruptKeeps
<1>6. CASE \E e \in Exceptions : Exception(e)
  BY <1>6, ExceptionKeeps
<1>7. CASE Handler
  BY <1>7, HandlerKeeps
<1>8. CASE UNCHANGED vars
  BY <1>1, <1>8 DEF vars, kernelVars, picVars,
      IInv, TypeOK, FramesOK, EnabledInCode, NothingBefore, TimerInService
<1> QED BY <1>2, <1>3, <1>4, <1>5, <1>6, <1>7, <1>8 DEF Next

LEMMA InitKeeps == Init => IInv
<1>1. DEPTH \in Nat
  BY ConstantsTyped
<1> DEFINE Reports == Seq([frame : Seq(Nat), message : 0 .. 31, rip : Nat])
<1>2. /\ <<>> \in Seq(Seq(Nat)) /\ <<>> \in Seq(Lines) /\ <<>> \in Reports
      /\ Len(<<>>) = 0
  OBVIOUS
<1> HIDE DEF Reports
<1>3. ASSUME Init PROVE TypeOK
  <2>1. /\ stage = "start" /\ enabled = FALSE /\ pc = "code" /\ stack = <<>>
        /\ requested = {} /\ inService = {} /\ served = <<>> /\ reports = <<>>
    BY <1>3 DEF Init
  <2>2. reports \in Reports /\ served \in Seq(Lines) /\ stack \in Seq(Seq(Nat))
    BY <1>2, <2>1
  <2>3. Len(stack) <= DEPTH
    BY <1>1, <1>2, <2>1
  <2> QED BY <2>1, <2>2, <2>3 DEF TypeOK, Reports
<1>4. Init => FramesOK
  BY DEF Init, FramesOK
<1>5. Init => EnabledInCode /\ NothingBefore /\ TimerInService
  BY <1>2 DEF Init, EnabledInCode, NothingBefore, TimerInService
<1> QED BY <1>3, <1>4, <1>5 DEF IInv

LEMMA Invariance == Spec => []IInv
<1>1. IInv /\ [Next]_vars => IInv'
  BY Step
<1> QED BY <1>1, InitKeeps, PTL DEF Spec

(* Every variable keeps its type; the stack of frames stays in its bound.  *)
THEOREM TypeCorrect == Spec => []TypeOK
<1>1. IInv => TypeOK
  BY DEF IInv
<1> QED BY <1>1, Invariance, PTL

(* The controllers get through to the kernel once at most.                 *)
THEOREM InterruptedOnce == Spec => []OneInterrupt
<1>1. IInv => OneInterrupt
  BY DEF IInv, TimerInService, OneInterrupt
<1> QED BY <1>1, Invariance, PTL

(* No code interrupted through a stub of isr.asm ever goes on.             *)
THEOREM StubsNeverReturn == Spec => NothingReturns
<1>1. IInv /\ [Next]_vars =>
        [/\ Len(stack') >= Len(stack) /\ SubSeq(stack', 1, Len(stack)) = stack
         /\ pc # "code" => pc' # "code"]_vars
  BY Step
<1> QED BY <1>1, Invariance, PTL DEF Spec, NothingReturns
=============================================================================
