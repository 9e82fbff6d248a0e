------------------------------ MODULE Interrupts ------------------------------
(***************************************************************************)
(* Interrupts on the boot processor: the gates of idt.cpp, the stubs of    *)
(* isr.asm, isrHandler of isr.cpp, and the two 8259 controllers as         *)
(* setupOptimist leaves them.                                              *)
(*                                                                         *)
(* A frame is the sequence of the words that the processor and a stub push *)
(* on the stack; the fifteen general registers below them are saved and    *)
(* restored and are left out.  The handler sees the frame through the      *)
(* struct cpuRegs.  What the timer's own handler does is in Scheduler: the *)
(* model stops where the table of handlers leads there, where it leads     *)
(* through a word that is not a handler, where the stack is used up, and   *)
(* where iretq goes to the privilege of users.                             *)
(***************************************************************************)
EXTENDS Integers, Sequences

CONSTANTS
  Exceptions,   \* what the kernel's code may raise: [vector, error]
  Lines,        \* the interrupt lines whose devices are alive; 0 is the timer
  CodeFlags,    \* RFLAGS of the interrupted code, but for the interrupt flag
  StubFlags,    \* RFLAGS after the addition to rsp at the end of a stub
  RIP, RSP,     \* of the interrupted code
  Above,        \* what may lie above a frame on the stack, taken for a selector
  DEPTH         \* frames that fit on the stack

(* Bit 1 of RFLAGS is always 1; rsp is in the upper half and leaves the    *)
(* sign flag set.                                                          *)
ASSUME InterruptsAssumption ==
  /\ Exceptions \subseteq [vector : 0 .. 31, error : Nat]
  /\ Lines \subseteq 0 .. 15
  /\ \A f \in CodeFlags : f \in 0 .. 255 /\ f % 4 >= 2
  /\ \A f \in StubFlags : f \in 128 .. 255 /\ f % 4 >= 2
  /\ Above \subseteq Nat
  /\ RIP \in Nat /\ RSP \in Nat /\ DEPTH \in Nat \ {0}

VARIABLES
  stage,      \* of setupOptimist: "start", or the last of isrInstall, "PIC", pitInit
  enabled,    \* the interrupt flag
  pc,         \* "code", inside a stub, or where the model stops
  stack,      \* the frames pushed
  requested,  \* lines raised and not yet served
  inService,  \* lines served and not ended
  served,     \* history: the lines served, in order
  reports     \* history: the exceptions reported

kernelVars == <<stage, enabled, pc, stack>>
picVars    == <<requested, inService>>
vars       == <<kernelVars, picVars, served, reports>>

-----------------------------------------------------------------------------
(* The frame.                                                              *)

CS == 40   \* 0x28, the selector of every gate and of all code
SS == 48

(* The vectors for which isr.asm pushes no 0 of its own.                   *)
ErrorCode == {8} \cup 10 .. 14 \cup {17, 21, 29, 30}

InterruptFlag == 512

Frame(vector, error, flags) ==
  <<vector, IF vector \in ErrorCode THEN error ELSE 0, RIP, CS, flags, RSP, SS>>

(* The fields of cpuRegs that isrHandler reads.  The first word after the  *)
(* registers is its field core.                                            *)
int_no(frame) == frame[2]
rip(frame)    == frame[4]

(* A mutant of DROPPED: the vector and the error code.                     *)
DROPPEDTwo == 2

(* Words that the stub drops before iretq: 24 bytes.                       *)
DROPPED == 3

(* What iretq makes of the words above those.                              *)
ReturnCS(frame)    == frame[DROPPED + 2]
ReturnFlags(frame) == frame[DROPPED + 3]

(* Selectors of code segments of the gdt at privilege 0.                   *)
KernelCode == {8, 24, 40}

(* Selectors of the segments of users, with their privilege of 3.          *)
UserCode == 67
UserData == 59

(* The error code of the fault that any other selector raises.             *)
SelectorError(selector) == selector - (selector % 4)

-----------------------------------------------------------------------------
(* setupOptimist.                                                          *)

Goto(from, to) == pc = from /\ pc' = to
Top == stack[Len(stack)]

isrInstall ==
  /\ pc = "code" /\ stage = "start"
  /\ stage' = "isrInstall"
  /\ enabled' = TRUE
  /\ UNCHANGED <<pc, stack, picVars, served, reports>>

(* The controllers are initialised, which forgets what they had seen, and  *)
(* all lines unmasked.                                                     *)
RemapPIC ==
  /\ pc = "code" /\ stage = "isrInstall"
  /\ stage' = "PIC"
  /\ requested' = {} /\ inService' = {}
  /\ UNCHANGED <<enabled, pc, stack, served, reports>>

(* pitInit, which registers pitHandler for vector 32.                      *)
pitInit ==
  /\ pc = "code" /\ stage = "PIC" /\ enabled
  /\ stage' = "pitInit"
  /\ UNCHANGED <<enabled, pc, stack, picVars, served, reports>>

(* createProcessFromRoutine and pitInit disable interrupts for a while.    *)
Cli == pc = "code" /\ enabled /\ enabled' = FALSE
       /\ UNCHANGED <<stage, pc, stack, picVars, served, reports>>
Sti == pc = "code" /\ stage # "start" /\ ~ enabled /\ enabled' = TRUE
       /\ UNCHANGED <<stage, pc, stack, picVars, served, reports>>

-----------------------------------------------------------------------------
(* The processor takes an interrupt: an interrupt gate clears the flag.    *)

(* A mutant of Enter: the stack has no end.                                *)
EnterDeep(vector, error, flags) ==
  /\ enabled' = FALSE
  /\ stack' = Append(stack, Frame(vector, error, flags)) /\ pc' = "handler"

Enter(vector, error, flags) ==
  /\ enabled' = FALSE
  /\ IF Len(stack) < DEPTH
       THEN stack' = Append(stack, Frame(vector, error, flags)) /\ pc' = "handler"
       ELSE stack' = stack /\ pc' = "overflow"

Flags(f) == IF enabled THEN f + InterruptFlag ELSE f

Exception(e) ==
  /\ pc = "code" /\ stage # "start"
  /\ \E f \in CodeFlags : Enter(e.vector, e.error, Flags(f))
  /\ UNCHANGED <<stage, picVars, served, reports>>

(* The lines 8 to 15 of the second controller share line 2 of the first.   *)
Priority(line) == IF line < 8 THEN 16 * line ELSE 24 + line

Raise(line) ==
  /\ stage \in {"PIC", "pitInit"}
  /\ requested' = requested \cup {line}
  /\ UNCHANGED <<kernelVars, inService, served, reports>>

(* The line that interrupts: the first of those raised, if it comes before *)
(* all that are in service.                                                *)
Serves(line) ==
  /\ pc = "code" /\ enabled /\ line \in requested
  /\ \A l \in requested : Priority(line) <= Priority(l)
  /\ \A l \in inService : Priority(line) < Priority(l)
  /\ requested' = requested \ {line}
  /\ served' = Append(served, line)

(* A mutant of Tick: the handler ends the interrupt.                       *)
TickEnds ==
  /\ Serves(0)
  /\ UNCHANGED <<kernelVars, inService, reports>>

(* The gate of the timer is pitHandler itself, which enables interrupts    *)
(* and never ends the one it serves.                                       *)
Tick ==
  /\ Serves(0)
  /\ inService' = inService \cup {0}
  /\ UNCHANGED <<kernelVars, reports>>

LineInterrupt(line) ==
  /\ line # 0
  /\ Serves(line)
  /\ inService' = inService \cup {line}
  /\ \E f \in CodeFlags : Enter(32 + line, 0, Flags(f))
  /\ UNCHANGED <<stage, reports>>

-----------------------------------------------------------------------------
(* isrHandler, and the end of the stub.                                    *)

(* The report, and hlt with interrupts disabled.                           *)
Report ==
  /\ Goto("handler", "halted")
  /\ int_no(Top) < 32
  /\ reports' = Append(reports, [frame |-> Top, message |-> int_no(Top), rip |-> rip(Top)])
  /\ UNCHANGED <<stage, enabled, stack, picVars, served>>

(* handlers has 256 entries; those of 13 and, from pitInit on, of 32 are   *)
(* set.                                                                    *)
CallsPitHandler ==
  /\ Goto("handler", "pitHandler")
  /\ int_no(Top) = 32 /\ stage = "pitInit"
  /\ UNCHANGED <<stage, enabled, stack, picVars, served, reports>>

CallsBeyondTable ==
  /\ Goto("handler", "wild")
  /\ int_no(Top) > 255
  /\ UNCHANGED <<stage, enabled, stack, picVars, served, reports>>

(* The first controller ends the line in service that comes first; one of  *)
(* the second stays in service there.                                      *)
Ended ==
  LET first == {l \in inService : \A m \in inService : Priority(l) <= Priority(m)}
  IN  {l \in first : l < 8}

NoHandler ==
  /\ Goto("handler", "iretq")
  /\ int_no(Top) >= 32
  /\ int_no(Top) = 32 => stage # "pitInit"
  /\ inService' = inService \ Ended
  /\ UNCHANGED <<stage, enabled, stack, requested, served, reports>>

(* iretq goes back to the interrupted code if the selector is one of       *)
(* kernel code; it faults with any other.                                  *)
Iretq ==
  /\ pc = "iretq" /\ ReturnCS(Top) # UserCode
  /\ IF ReturnCS(Top) \in KernelCode
       THEN /\ stack' = SubSeq(stack, 1, Len(stack) - 1)
            /\ enabled' = (ReturnFlags(Top) >= InterruptFlag)
            /\ pc' = IF Len(stack) = 1 THEN "code" ELSE "iretq"
       ELSE \E f \in StubFlags : Enter(13, SelectorError(ReturnCS(Top)), f)
  /\ UNCHANGED <<stage, picVars, served, reports>>

(* It goes to a user's code only with a user's stack, whose selector is    *)
(* taken from above the frame.                                             *)
IretqToUser ==
  /\ pc = "iretq" /\ ReturnCS(Top) = UserCode
  /\ \E ss \in Above :
       IF ss = UserData
         THEN pc' = "user" /\ UNCHANGED <<enabled, stack>>
         ELSE \E f \in StubFlags : Enter(13, SelectorError(ss), f)
  /\ UNCHANGED <<stage, picVars, served, reports>>

-----------------------------------------------------------------------------

Init ==
  /\ stage = "start" /\ enabled = FALSE
  /\ pc = "code"
  /\ stack = <<>>
  /\ requested = {} /\ inService = {}
  /\ served = <<>>
  /\ reports = <<>>

Setup   == isrInstall \/ RemapPIC \/ pitInit \/ Cli \/ Sti
Handler == Report \/ CallsPitHandler \/ CallsBeyondTable \/ NoHandler \/ Iretq \/ IretqToUser

Next ==
  \/ Setup
  \/ \E e \in Exceptions : Exception(e)
  \/ \E line \in Lines : Raise(line)
  \/ Tick
  \/ \E line \in Lines : LineInterrupt(line)
  \/ Handler

Spec == Init /\ [][Next]_vars

(* The processor keeps executing.                                          *)
FairSpec == Spec /\ WF_vars(Handler)

-----------------------------------------------------------------------------

Ends == {"halted", "pitHandler", "wild", "overflow", "user"}

(* Every variable keeps its type.                                          *)
TypeOK ==
  /\ stage \in {"start", "isrInstall", "PIC", "pitInit"} /\ enabled \in BOOLEAN
  /\ pc \in {"code", "handler", "iretq"} \cup Ends
  /\ stack \in Seq(Seq(Nat)) /\ Len(stack) <= DEPTH
  /\ requested \subseteq Lines /\ inService \subseteq Lines
  /\ served \in Seq(Lines)
  /\ reports \in Seq([frame : Seq(Nat), message : 0 .. 31, rip : Nat])

(* No code interrupted through a stub ever goes on: the stack of frames    *)
(* only grows, and the processor does not come back to code, whatever      *)
(* raised the interrupt and whatever the flags were.                       *)
NothingReturns ==
  [][/\ Len(stack') >= Len(stack) /\ SubSeq(stack', 1, Len(stack)) = stack
     /\ pc # "code" => pc' # "code"]_vars

(* The controllers interrupt the kernel once, by the timer, which is never *)
(* ended, or by another line, whose stub never returns: though an error    *)
(* code taken for a vector may end an interrupt that it has not begun.     *)
OneInterrupt == Len(served) <= 1

(* A stub that is entered comes to an end without a return: it stops the   *)
(* processor with the report of an exception, goes astray in the table of  *)
(* handlers, faults in its own return until the stack is used up, or goes  *)
(* on at the privilege of users.  The interrupt of a line other than the   *)
(* timer's is always reported as an exception.                             *)
LineStops == pc = "handler" /\ served # <<>> /\ served[1] # 0 ~> pc = "halted"

StubsEnd == (pc = "handler" ~> pc \in Ends) /\ LineStops

(* What is reported is the exception that was raised, and where:           *)
(* "Exception: %s", "RIP: %x".                                             *)
ReportsCause ==
  \A i \in DOMAIN reports :
    LET r == reports[i]
    IN  r.message = r.frame[1] /\ r.rip = r.frame[3]
=============================================================================
