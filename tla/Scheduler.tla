------------------------------ MODULE Scheduler ------------------------------
(***************************************************************************)
(* Creating threads and switching to them on the timer: process.cpp,       *)
(* scheduler.cpp and pitHandler of idt/isr.cpp, as setupOptimist of        *)
(* kernelEntry.cpp uses them.                                              *)
(*                                                                         *)
(* Only the boot processor takes interrupts.  The gate of vector 32 points *)
(* at pitHandler itself, not at an assembly stub: its argument is whatever *)
(* RDI held, it leaves through ret, and nobody tells the interrupt         *)
(* controller that the interrupt has been served.                          *)
(*                                                                         *)
(* Two thread pointers of process.cpp are used uninitialised.  What they   *)
(* hold is a parameter: null, or an address.  The model does not follow a  *)
(* store into memory that something else uses: what an address other than  *)
(* null designates is used by threads only, or the access faults, and the  *)
(* same holds of RDI.  Address 0 is mapped, and the process record lies    *)
(* there as well: a thread at null is in the list, and lost.               *)
(***************************************************************************)
EXTENDS Integers, Sequences

CONSTANTS
  CREATIONS,   \* number of calls of createProcessFromRoutine
  Threads,     \* addresses at which a thread can come to lie
  garbage,     \* what createThreadInternal's pointer may hold, per call
  NullRead,    \* whether createProcessFromRoutine's pointer may read as null
  Faults,      \* whether a wild access may fault
  NoThread     \* nullptr

Calls == 1 .. CREATIONS

ASSUME SchedulerAssumption ==
  /\ CREATIONS \in Nat \ {0}
  /\ garbage \in [Calls -> (SUBSET (Threads \cup {NoThread})) \ {{}}]
  /\ NullRead \in BOOLEAN /\ Faults \in BOOLEAN
  /\ NoThread \notin Threads

VARIABLES
  pc,             \* where the boot processor is
  resume,         \* where the interrupted code stood
  IF_,            \* the interrupt flag
  inService,      \* the controller has not been told of the end of the tick
  pitTicks,
  lockx,          \* the lock of pitHandler
  processMutex,
  made,           \* calls of createProcessFromRoutine that have returned
  refused,        \* history: one of them returned nullptr
  fresh,          \* the thread of the call in progress
  thread,         \* what is stored at each address
  threadHead,     \* the thread list
  threadCount,
  runningThread,
  cr3,            \* the table in use: that of a call, or 0
  ran             \* history: the routines that have finished, in order

interruptVars == <<resume, IF_, inService, pitTicks, lockx>>
processVars   == <<processMutex, made, refused, fresh>>
threadVars    == <<thread, threadHead, threadCount, runningThread, cr3, ran>>
vars == <<pc, interruptVars, processVars, threadVars>>

Goto(from, to) == pc = from /\ pc' = to

-----------------------------------------------------------------------------
(* createProcessFromRoutine.                                               *)

(* A mutant of Cli: interrupts stay on.                                    *)
CliForgotten ==
  /\ Goto("boot", "lockProcess")
  /\ made < CREATIONS
  /\ UNCHANGED <<interruptVars, processVars, threadVars>>

Cli ==
  /\ Goto("boot", "lockProcess")
  /\ made < CREATIONS
  /\ IF_' = FALSE
  /\ UNCHANGED <<resume, inService, pitTicks, lockx, processVars, threadVars>>

LockProcess ==
  /\ Goto("lockProcess", "setup")
  /\ processMutex = 0
  /\ processMutex' = 1
  /\ UNCHANGED <<interruptVars, made, refused, fresh, threadVars>>

(* threadInfo, which nobody has set yet, compares equal to nullptr: the    *)
(* call returns with the lock taken and interrupts off.                    *)
ReturnNull ==
  /\ NullRead
  /\ Goto("setup", "boot")
  /\ made' = made + 1
  /\ refused' = TRUE
  /\ UNCHANGED <<interruptVars, processMutex, fresh, threadVars>>

(* setupThreadContext, through the uninitialised pointer.  The stack and   *)
(* the routine are those of this call; identifier and parent keep what     *)
(* was there.  Through null it writes over the process record.             *)
SetupThreadContext ==
  /\ Goto("setup", "add")
  /\ \E t \in garbage[made + 1] :
       /\ fresh' = t
       /\ thread' = [u \in Threads |-> IF u # t THEN thread[u] ELSE
            [thread[t] EXCEPT !.entryPoint = made + 1, !.stack = made + 1,
                              !.state = "READY", !.lock = 0]]
  /\ threadCount' = threadCount + 1
  /\ UNCHANGED <<interruptVars, processMutex, made, refused, threadHead,
                 runningThread, cr3, ran>>

AddThreadToList ==
  /\ Goto("add", "publish")
  /\ threadHead' = Append(threadHead, fresh)
  /\ UNCHANGED <<interruptVars, processVars, thread, threadCount, runningThread,
                 cr3, ran>>

(* threadID = threadCount + 1 of a process record that lies at address 0,  *)
(* because mallocx refuses its size: the same number for every thread.  A  *)
(* thread at null is copied over itself, 16 bytes on.                      *)
SetParent ==
  /\ Goto("publish", "unlockProcess")
  /\ thread' = [u \in Threads |-> IF u # fresh THEN thread[u] ELSE
       [thread[fresh] EXCEPT !.threadID = 2, !.PML4 = made + 1]]
  /\ UNCHANGED <<interruptVars, processVars, threadHead, threadCount,
                 runningThread, cr3, ran>>

UnlockProcess ==
  /\ Goto("unlockProcess", "boot")
  /\ processMutex' = 0
  /\ IF_' = TRUE
  /\ made' = made + 1
  /\ fresh' = NoThread
  /\ UNCHANGED <<resume, inService, pitTicks, lockx, refused, threadVars>>

(* pitInit turns interrupts off and on again; then the kernel idles.       *)
PitInit ==
  /\ Goto("boot", "pitInit")
  /\ made = CREATIONS
  /\ IF_' = FALSE
  /\ UNCHANGED <<resume, inService, pitTicks, lockx, processVars, threadVars>>

PitInitDone ==
  /\ Goto("pitInit", "idle")
  /\ IF_' = TRUE
  /\ UNCHANGED <<resume, inService, pitTicks, lockx, processVars, threadVars>>

-----------------------------------------------------------------------------
(* The timer.                                                              *)

Tick ==
  /\ IF_ /\ ~ inService
  /\ resume' = pc
  /\ pc' = "pitHandler"
  /\ IF_' = FALSE
  /\ inService' = TRUE
  /\ UNCHANGED <<pitTicks, lockx, processVars, threadVars>>

PitHandler ==
  /\ Goto("pitHandler", "runThread")
  /\ lockx = 0
  /\ lockx' = 1
  /\ pitTicks' = pitTicks + 1
  /\ IF_' = TRUE
  /\ UNCHANGED <<resume, inService, processVars, threadVars>>

(* unlock(lockx), and ret to the code interrupted, whose stack pointer and *)
(* scratch registers are not restored.                                     *)
PitHandlerReturns ==
  /\ Goto("leave", resume)
  /\ lockx' = 0
  /\ UNCHANGED <<resume, IF_, inService, pitTicks, processVars, threadVars>>

(* A store through a wild pointer, or the return with a wrong stack.       *)
Fault ==
  /\ Faults
  /\ pc \in {"setup", "leave"} \/ (pc = "lockThread" /\ ran = <<>>)
  /\ pc' = "crashed"
  /\ UNCHANGED <<interruptVars, processVars, threadVars>>

-----------------------------------------------------------------------------
(* runThread, called by pitHandler and at the end of each thread.          *)

(* processHead has been set by the first creation that got this far.       *)
Startable == threadHead # <<>> /\ threadHead[1] # NoThread /\ threadCount # 0

(* It returns, to pitHandler or to the endless loop of schedulerWrapper.   *)
NothingToRun ==
  /\ ~ Startable
  /\ Goto("runThread", IF runningThread = NoThread THEN "leave" ELSE "forever")
  /\ UNCHANGED <<interruptVars, processVars, threadVars>>

(* A mutant of getNextThread: the head of the list itself.                 *)
getNextThreadFirst(t) == threadHead[1]

(* getThreadList gives the head of the list if its identifier matches and  *)
(* otherwise the second entry; the result is the thread after that.  Past  *)
(* the end it reads address 0, and threadCount is 0: nobody uses it.       *)
getNextThread(t) ==
  LET i == IF thread[threadHead[1]].threadID = thread[t].threadID THEN 2 ELSE 3
  IN  IF i <= Len(threadHead) THEN threadHead[i] ELSE NoThread

PickFirst ==
  /\ Startable
  /\ runningThread = NoThread
  /\ Goto("runThread", "lockThread")
  /\ runningThread' = threadHead[1]
  /\ UNCHANGED <<interruptVars, processVars, thread, threadHead, threadCount,
                 cr3, ran>>

(* runningThread->regs = *regs, and regs are those of the next thread.     *)
PickNext ==
  /\ Startable
  /\ runningThread # NoThread
  /\ LET next == getNextThread(runningThread)
     IN  /\ next # NoThread
         /\ Goto("runThread", "lockThread")
         /\ thread' = [thread EXCEPT ![runningThread].stack = thread[next].stack,
                                     ![runningThread].state = "READY"]
         /\ runningThread' = next
  /\ UNCHANGED <<interruptVars, processVars, threadHead, threadCount, cr3, ran>>

(* The next thread is at null.  runThread calls itself and starts with the *)
(* first thread again, but the registers are those found at address 0.     *)
PickNull ==
  /\ Startable
  /\ runningThread # NoThread
  /\ getNextThread(runningThread) = NoThread
  /\ Goto("runThread", "lockThread")
  /\ thread' = [thread EXCEPT ![runningThread].stack = 0,
                              ![runningThread].state = "READY"]
  /\ runningThread' = threadHead[1]
  /\ UNCHANGED <<interruptVars, processVars, threadHead, threadCount, cr3, ran>>

(* lock, load CR3, and iretq into schedulerWrapper(entryPoint).  The code  *)
(* segment found at address 0 is a null selector: it is 0, or 2 where the  *)
(* copy of SetParent repeats the identifier.  iretq refuses it.            *)
SwitchTo ==
  /\ Goto("lockThread", IF thread[runningThread].stack = 0 THEN "crashed" ELSE "thread")
  /\ thread[runningThread].lock = 0
  /\ thread' = [thread EXCEPT ![runningThread].lock = 1,
                              ![runningThread].state = "RUNNING"]
  /\ cr3' = thread[runningThread].PML4
  /\ IF_' = TRUE
  /\ UNCHANGED <<resume, inService, pitTicks, lockx, processVars, threadHead,
                 threadCount, runningThread, ran>>

(* Mutants of ThreadDone: it keeps the lock; it does not count.            *)
ThreadDoneLocked ==
  /\ Goto("thread", "runThread")
  /\ ran' = Append(ran, thread[runningThread].entryPoint)
  /\ thread' = [thread EXCEPT ![runningThread].state = "SUSPENDED"]
  /\ lockx' = 0
  /\ threadCount' = threadCount - 1
  /\ UNCHANGED <<resume, IF_, inService, pitTicks, processVars, threadHead,
                 runningThread, cr3>>
ThreadDoneUncounted ==
  /\ Goto("thread", "runThread")
  /\ Len(ran) <= CREATIONS
  /\ ran' = Append(ran, thread[runningThread].entryPoint)
  /\ thread' = [thread EXCEPT ![runningThread].state = "SUSPENDED",
                              ![runningThread].lock = 0]
  /\ lockx' = 0
  /\ UNCHANGED <<resume, IF_, inService, pitTicks, processVars, threadHead,
                 threadCount, runningThread, cr3>>

(* The routine returns to schedulerWrapper.                                *)
ThreadDone ==
  /\ Goto("thread", "runThread")
  /\ ran' = Append(ran, thread[runningThread].entryPoint)
  /\ thread' = [thread EXCEPT ![runningThread].state = "SUSPENDED",
                              ![runningThread].lock = 0]
  /\ lockx' = 0
  /\ threadCount' = threadCount - 1
  /\ IF_' = TRUE
  /\ UNCHANGED <<resume, inService, pitTicks, processVars, threadHead,
                 runningThread, cr3>>

-----------------------------------------------------------------------------

Init ==
  /\ pc = "boot"
  /\ resume = "boot"
  /\ IF_ = TRUE
  /\ inService = FALSE
  /\ pitTicks = 0
  /\ lockx = 0
  /\ processMutex = 0
  /\ made = 0
  /\ refused = FALSE
  /\ fresh = NoThread
  /\ thread = [t \in Threads |-> [threadID |-> 0, PML4 |-> 0, entryPoint |-> 0,
                                  stack |-> 0, state |-> "READY", lock |-> 0]]
  /\ threadHead = <<>>
  /\ threadCount = 0
  /\ runningThread = NoThread
  /\ cr3 = 0
  /\ ran = <<>>

Create ==
  Cli \/ LockProcess \/ ReturnNull \/ SetupThreadContext \/ AddThreadToList
      \/ SetParent \/ UnlockProcess

RunThread ==
  NothingToRun \/ PickFirst \/ PickNext \/ PickNull \/ SwitchTo \/ ThreadDone

(* What the processor does next.                                           *)
Execute ==
  Create \/ PitInit \/ PitInitDone \/ PitHandler \/ PitHandlerReturns \/ RunThread

Next == Execute \/ Tick \/ Fault

Spec == Init /\ [][Next]_vars

(* The processor executes, every routine returns, and the timer fires      *)
(* again and again, so that a tick is taken once it can be.                *)
FairSpec == Spec /\ WF_vars(Execute) /\ SF_vars(Tick)

-----------------------------------------------------------------------------

(* Every variable keeps its type.                                          *)
TypeOK ==
  /\ pc \in {"boot", "lockProcess", "setup", "add", "publish", "unlockProcess",
             "pitInit", "idle", "pitHandler", "runThread", "leave", "lockThread",
             "thread", "forever", "crashed"}
  /\ resume \in {"boot", "idle"}
  /\ IF_ \in BOOLEAN /\ inService \in BOOLEAN /\ refused \in BOOLEAN
  /\ pitTicks \in Nat
  /\ lockx \in {0, 1} /\ processMutex \in {0, 1}
  /\ made \in 0 .. CREATIONS
  /\ fresh \in Threads \cup {NoThread}
  /\ runningThread \in Threads \cup {NoThread}
  /\ thread \in [Threads -> [threadID : {0, 2}, PML4 : 0 .. CREATIONS,
                             entryPoint : 0 .. CREATIONS, stack : 0 .. CREATIONS,
                             state : {"READY", "RUNNING", "SUSPENDED"},
                             lock : {0, 1}]]
  /\ threadHead \in Seq(Threads \cup {NoThread})
  /\ threadCount \in Nat
  /\ cr3 \in 0 .. CREATIONS
  /\ ran \in Seq(Calls)

(* Whatever the tick interrupts, the thread switched to is complete: its   *)
(* routine, its stack and the page table in use were made by one and the   *)
(* same call, though the list holds the thread before its table is there.  *)
DispatchComplete ==
  pc = "thread" =>
    LET t == thread[runningThread]
    IN  t.PML4 \in Calls /\ t.stack = t.PML4 /\ t.entryPoint = t.PML4 /\ cr3 = t.PML4

(* threadCount is the number of threads set up and not yet finished, and   *)
(* so never passes below zero, even when two calls got the same memory.    *)
CountsUnfinished ==
  threadCount + Len(ran) = Len(threadHead) + (IF pc = "add" THEN 1 ELSE 0)

(* The only processor never waits for a lock it holds itself, unless a     *)
(* call of createProcessFromRoutine has returned nullptr.                  *)
NeverSpins ==
  /\ pc = "lockThread" => thread[runningThread].lock = 0
  /\ pc = "pitHandler" => lockx = 0
  /\ pc = "lockProcess" /\ processMutex = 1 => refused

(* Once a tick finds a thread to start, as many routines run as threads    *)
(* were set up, one after the other, and the scheduler comes to rest.  It  *)
(* finds none when the first thread of the list is at null: it returns, as *)
(* before the first creation, and nothing ever runs.                       *)
Drains == pc = "runThread" /\ Startable ~> pc \in {"forever", "crashed"}

(* Two threads, as setupOptimist makes, each in memory of its own.         *)
TwoThreads ==
  /\ Len(threadHead) = 2
  /\ threadHead[1] # threadHead[2]
  /\ threadHead[1] # NoThread /\ threadHead[2] # NoThread

(* Each end of a thread asks for the one after it, and the last has none.  *)
(* Of two threads no routine is started a second time.  Of more, and where *)
(* threads share their memory, a routine that is started again is that of  *)
(* the second thread of the list.                                          *)
RunsOnce ==
  \A i, j \in 1 .. Len(ran) : i < j /\ ran[i] = ran[j] =>
    ~ TwoThreads /\ ran[i] = thread[threadHead[2]].entryPoint

(* If the tick comes after both have been created, both routines run.      *)
AllRunWhenTickLate ==
  pitTicks = 0 /\ pc = "idle" /\ TwoThreads ~>
    \/ pc = "crashed"
    \/ TwoThreads /\ \A i \in 1 .. 2 : \E j \in DOMAIN ran :
         ran[j] = thread[threadHead[i]].entryPoint

(* process.cpp: the tick comes 100 times per second.                       *)
TicksComeAgain == pitTicks = 1 ~> pitTicks = 2
=============================================================================
