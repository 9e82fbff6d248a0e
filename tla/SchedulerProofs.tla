--------------------------- MODULE SchedulerProofs ---------------------------
(***************************************************************************)
(* The safety of Scheduler, for any number of creations, with              *)
(* uninitialised pointers that are null, or that fault, or that designate  *)
(* memory of threads only, shared by several or not.                       *)
(*                                                                         *)
(* Creation and scheduling never interleave: creation runs with interrupts *)
(* off, and once a thread runs the boot code does not (Phases).  So the    *)
(* list is complete when it is used, except for the stack of its first     *)
(* thread, which runThread overwrites when it leaves that thread for good  *)
(* (Listed, Stacks).  As all identifiers are equal, the next thread is     *)
(* always the second; threadCount ends the run (Rest, Order).              *)
(***************************************************************************)
EXTENDS Scheduler, TLAPS

Record == [threadID : {0, 2}, PML4 : 0 .. CREATIONS, entryPoint : 0 .. CREATIONS,
           stack : 0 .. CREATIONS, state : {"READY", "RUNNING", "SUSPENDED"},
           lock : {0, 1}]

Creating == {"lockProcess", "setup", "add", "publish", "unlockProcess"}
BootCode == {"boot", "pitInit", "idle"} \cup Creating

(* Where the processor can be before the tick, after it, and once a thread *)
(* has been chosen.                                                        *)
Phases ==
  /\ pc \in Creating \cup {"pitInit", "pitHandler"} => ~ IF_
  /\ pc \in Creating => made < CREATIONS
  /\ ~ inService => pc \in BootCode \cup {"crashed"} /\ lockx = 0
  /\ pc \in {"runThread", "leave", "lockThread", "thread", "forever"} => inService
  /\ pc = "crashed" => inService \/ ~ IF_
  /\ pc = "pitHandler" => lockx = 0
  /\ pc \in BootCode \cup {"pitHandler", "leave"} => runningThread = NoThread
  /\ runningThread = NoThread => ran = <<>> /\ pc \notin {"lockThread", "thread", "forever"}
  /\ pc = "runThread" /\ runningThread # NoThread => ran # <<>>

(* A lock is held only where its release is certain.                       *)
Locks ==
  /\ \A t \in Threads : thread[t].lock = 1 =>
       pc \in {"thread", "crashed"} /\ t = runningThread
  /\ processMutex = 1 =>
       refused \/ pc \in {"setup", "add", "publish", "unlockProcess", "crashed"}

(* Outside the creation of a thread those in the list are complete, except *)
(* for those at null.                                                      *)
Listed ==
  /\ \A i \in DOMAIN threadHead : LET t == thread[threadHead[i]] IN
       \/ threadHead[i] = NoThread
       \/ pc \in {"add", "publish"} /\ threadHead[i] = fresh
       \/ t.PML4 \in Calls /\ t.entryPoint = t.PML4 /\ t.threadID = 2
  /\ pc \in {"add", "publish"} /\ fresh \in Threads =>
       thread[fresh].entryPoint = made + 1 /\ thread[fresh].stack = made + 1

(* The first thread keeps the stack of another one when runThread leaves   *)
(* it; if the thread after it is at null it is chosen again, and faults.   *)
Stacks ==
  /\ \A i \in DOMAIN threadHead : LET t == threadHead[i] IN
       \/ t = NoThread
       \/ thread[t].stack = thread[t].entryPoint
       \/ t = threadHead[1] /\ runningThread # NoThread /\ runningThread # t
       \/ pc \in {"lockThread", "crashed"} /\ t = runningThread /\ thread[t].stack = 0
  /\ pc = "thread" => cr3 = thread[runningThread].PML4

(* The thread chosen is one of the first two of the list.                  *)
Rest ==
  /\ CountsUnfinished
  /\ pc \in {"lockThread", "thread"} => threadCount > 0
  /\ runningThread # NoThread =>
       /\ threadHead # <<>>
       /\ \/ runningThread = threadHead[1]
          \/ Len(threadHead) > 1 /\ runningThread = threadHead[2]

(* The j-th routine to run was that of the i-th thread of the list.        *)
Ran(j, i) ==
  /\ i \in DOMAIN threadHead /\ threadHead[i] # NoThread
  /\ ran[j] = thread[threadHead[i]].entryPoint

(* Each routine was given to at most one thread.  The first thread of the  *)
(* list runs, then the second each time, unless that one is at null.       *)
Order ==
  /\ \A t \in Threads :
       \/ thread[t].entryPoint <= made
       \/ pc \in {"add", "publish", "unlockProcess"} /\ t = fresh
  /\ pc \in {"add", "publish", "unlockProcess"} /\ fresh \in Threads =>
       thread[fresh].entryPoint = made + 1
  /\ \A t, u \in Threads :
       thread[t].entryPoint # 0 /\ thread[t].entryPoint = thread[u].entryPoint => t = u
  /\ \A j \in DOMAIN ran : Ran(j, IF j = 1 THEN 1 ELSE 2)
  /\ pc \in {"lockThread", "thread"} =>
       \/ runningThread = threadHead[IF ran = <<>> THEN 1 ELSE 2]
       \/ pc = "lockThread" /\ thread[runningThread].stack = 0

IInv ==
  /\ TypeOK
  /\ Phases
  /\ Locks
  /\ Listed
  /\ Stacks
  /\ Rest
  /\ Order

-----------------------------------------------------------------------------
(* The invariant holds at first, and each action preserves it.             *)

LEMMA Types ==
  ASSUME IInv
  PROVE  /\ thread \in [Threads -> Record] /\ \A t \in Threads : thread[t] \in Record
         /\ made \in 0 .. CREATIONS /\ threadCount \in Nat
         /\ Len(threadHead) \in Nat /\ DOMAIN threadHead = 1 .. Len(threadHead)
         /\ \A i \in DOMAIN threadHead : threadHead[i] \in Threads \cup {NoThread}
         /\ Len(ran) \in Nat /\ DOMAIN ran = 1 .. Len(ran) /\ (ran # <<>> => Len(ran) > 0)
         /\ runningThread # NoThread => runningThread \in Threads
<1> USE DEF IInv, TypeOK
<1>1. thread \in [Threads -> Record]
  BY DEF Record
<1>2. threadHead \in Seq(Threads \cup {NoThread}) /\ ran \in Seq(Calls)
  OBVIOUS
<1>3. Len(ran) = 0 => ran = <<>>
  BY <1>2
<1> QED BY <1>1, <1>2, <1>3

LEMMA InitStep == Init => IInv
<1> SUFFICES ASSUME Init PROVE IInv
  OBVIOUS
<1> USE SchedulerAssumption DEF SchedulerAssumption, Init, Calls, Creating, BootCode
<1>1. TypeOK
  <2>1. thread \in [Threads -> Record]
    BY DEF Record
  <2>2. threadHead \in Seq(Threads \cup {NoThread}) /\ ran \in Seq(Calls)
    OBVIOUS
  <2>3. /\ IF_ \in BOOLEAN /\ inService \in BOOLEAN /\ refused \in BOOLEAN
    OBVIOUS
  <2>4. /\ pitTicks \in Nat /\ lockx \in {0, 1} /\ processMutex \in {0, 1}
        /\ made \in 0 .. CREATIONS /\ threadCount \in Nat /\ cr3 \in 0 .. CREATIONS
    OBVIOUS
  <2>5. /\ pc = "boot" /\ resume = "boot"
        /\ fresh = NoThread /\ runningThread = NoThread
    OBVIOUS
  <2> HIDE DEF Init
  <2> QED BY <2>1, <2>2, <2>3, <2>4, <2>5 DEF TypeOK, Record
<1>2. Phases /\ Locks /\ Listed /\ Stacks
  BY DEF Phases, Locks, Listed, Stacks
<1>3. Rest
  BY DEF Rest, CountsUnfinished
<1>4. Order
  BY DEF Order, Ran
<1> QED BY <1>1, <1>2, <1>3, <1>4 DEF IInv

LEMMA CliStep ==
  ASSUME IInv, Cli
  PROVE  IInv'
<1> USE SchedulerAssumption
    DEF SchedulerAssumption, Cli, Goto, Calls, BootCode, Creating, interruptVars,
        processVars, threadVars, IInv, TypeOK
<1>1. TypeOK'
  BY DEF Phases
<1>2. Phases'
  BY DEF Phases, Rest, CountsUnfinished
<1>3. Locks'
  BY DEF Locks, Phases
<1>4. Listed'
  BY DEF Listed, Phases
<1>5. Stacks'
  BY DEF Stacks, Phases, Listed
<1>6. Rest'
  BY DEF Rest, CountsUnfinished, Phases
<1>7. Order'
  BY DEF Order, Ran, Phases, Rest
<1> QED BY <1>1, <1>2, <1>3, <1>4, <1>5, <1>6, <1>7

LEMMA LockProcessStep ==
  ASSUME IInv, LockProcess
  PROVE  IInv'
<1> USE SchedulerAssumption
    DEF SchedulerAssumption, LockProcess, Goto, Calls, BootCode, Creating, interruptVars,
        processVars, threadVars, IInv, TypeOK
<1>1. TypeOK'
  BY DEF Phases
<1>2. Phases'
  BY DEF Phases, Rest, CountsUnfinished
<1>3. Locks'
  BY DEF Locks, Phases
<1>4. Listed'
  BY DEF Listed, Phases
<1>5. Stacks'
  BY DEF Stacks, Phases, Listed
<1>6. Rest'
  BY DEF Rest, CountsUnfinished, Phases
<1>7. Order'
  BY DEF Order, Ran, Phases, Rest
<1> QED BY <1>1, <1>2, <1>3, <1>4, <1>5, <1>6, <1>7

LEMMA ReturnNullStep ==
  ASSUME IInv, ReturnNull
  PROVE  IInv'
<1> USE SchedulerAssumption
    DEF SchedulerAssumption, ReturnNull, Goto, Calls, BootCode, Creating, interruptVars,
        processVars, threadVars, IInv, TypeOK
<1>1. TypeOK'
  BY DEF Phases
<1>2. Phases'
  BY DEF Phases, Rest, CountsUnfinished
<1>3. Locks'
  BY DEF Locks, Phases
<1>4. Listed'
  BY DEF Listed, Phases
<1>5. Stacks'
  BY DEF Stacks, Phases, Listed
<1>6. Rest'
  BY DEF Rest, CountsUnfinished, Phases
<1>7. Order'
  BY DEF Order, Ran, Phases, Rest
<1> QED BY <1>1, <1>2, <1>3, <1>4, <1>5, <1>6, <1>7

LEMMA SetupThreadContextStep ==
  ASSUME IInv, SetupThreadContext
  PROVE  IInv'
<1> USE SchedulerAssumption DEF SchedulerAssumption, Calls, Goto
<1>p. Phases /\ Locks /\ Listed /\ Stacks /\ Rest /\ Order /\ TypeOK
  BY DEF IInv
<1>t. /\ thread \in [Threads -> Record] /\ \A t \in Threads : thread[t] \in Record
      /\ made \in 0 .. CREATIONS /\ threadCount \in Nat
      /\ Len(threadHead) \in Nat /\ DOMAIN threadHead = 1 .. Len(threadHead)
      /\ \A i \in DOMAIN threadHead : threadHead[i] \in Threads \cup {NoThread}
      /\ Len(ran) \in Nat /\ DOMAIN ran = 1 .. Len(ran) /\ (ran # <<>> => Len(ran) > 0)
      /\ runningThread # NoThread => runningThread \in Threads
  BY Types
<1>a. PICK t \in garbage[made + 1] :
         /\ fresh' = t
         /\ thread' = [u \in Threads |-> IF u # t THEN thread[u] ELSE
              [thread[t] EXCEPT !.entryPoint = made + 1, !.stack = made + 1,
                                !.state = "READY", !.lock = 0]]
  BY DEF SetupThreadContext
<1>k. /\ pc = "setup" /\ pc' = "add" /\ threadCount' = threadCount + 1
      /\ UNCHANGED <<interruptVars, processMutex, made, refused, threadHead,
                     runningThread, cr3, ran>>
  BY DEF SetupThreadContext
<1>b. made + 1 \in Calls /\ made + 1 \in 0 .. CREATIONS /\ t \in Threads \cup {NoThread}
  BY <1>p, <1>t, <1>k DEF Phases, Creating
<1>c. \A u \in Threads : u # t => thread'[u] = thread[u]
  BY <1>a, <1>b, <1>t
<1>d. t \in Threads =>
        /\ thread'[t] \in Record /\ thread'[t].lock = 0
        /\ thread'[t].entryPoint = made + 1 /\ thread'[t].stack = made + 1
        /\ thread'[t].PML4 = thread[t].PML4 /\ thread'[t].threadID = thread[t].threadID
  <2> SUFFICES ASSUME t \in Threads
               PROVE  /\ thread'[t] \in Record /\ thread'[t].lock = 0
                      /\ thread'[t].entryPoint = made + 1 /\ thread'[t].stack = made + 1
                      /\ thread'[t].PML4 = thread[t].PML4
                      /\ thread'[t].threadID = thread[t].threadID
    OBVIOUS
  <2>1. thread'[t] = [thread[t] EXCEPT !.entryPoint = made + 1, !.stack = made + 1,
                                       !.state = "READY", !.lock = 0]
    BY <1>a, <1>b, <1>t
  <2>2. thread[t] \in Record /\ made + 1 \in 0 .. CREATIONS
    BY <1>b, <1>t
  <2> QED BY ONLY <2>1, <2>2 DEF Record
<1>e. runningThread = NoThread /\ ran = <<>>
  BY <1>p, <1>k DEF Phases, BootCode, Creating
<1>1. TypeOK'
  <2>1. thread' \in [Threads -> Record]
    BY <1>a, <1>b, <1>c, <1>d, <1>t
  <2>2. threadCount' \in Nat /\ fresh' \in Threads \cup {NoThread}
    BY <1>a, <1>b, <1>k, <1>t
  <2> QED BY <1>p, <1>t, <1>k, <1>a, <1>b, <2>1 , <2>2 DEF TypeOK, Record, interruptVars, processVars
<1>2. Phases'
  BY <1>a, <1>b, <1>e, <1>k, <1>p DEF Phases, BootCode, Creating, interruptVars
<1>3. Locks'
  BY <1>b, <1>c, <1>d, <1>k, <1>p DEF Locks
<1>4. Listed'
  BY <1>a, <1>b, <1>c, <1>d, <1>k, <1>p, <1>t DEF Listed
<1>5. Stacks'
  BY <1>a, <1>b, <1>c, <1>d, <1>e, <1>k, <1>p, <1>t DEF Stacks
<1>6. Rest'
  BY <1>e, <1>k, <1>p, <1>t DEF Rest, CountsUnfinished
<1>7. Order'
  <2>1. \A u \in Threads : u # t => /\ thread'[u].entryPoint = thread[u].entryPoint
                                   /\ thread[u].entryPoint <= made
                                   /\ thread[u].entryPoint \in 0 .. CREATIONS
    BY <1>c, <1>k, <1>p, <1>t DEF Order, Record
  <2>2. \A u, v \in Threads :
           thread'[u].entryPoint # 0 /\ thread'[u].entryPoint = thread'[v].entryPoint => u = v
    BY <1>b, <1>d, <1>p, <1>t, <2>1 DEF Order
  <2> QED BY <1>a, <1>b, <1>d, <1>e, <1>k, <2>1, <2>2 DEF Order, Ran
<1> QED BY <1>1, <1>2, <1>3, <1>4, <1>5, <1>6, <1>7 DEF IInv

LEMMA AddThreadToListStep ==
  ASSUME IInv, AddThreadToList
  PROVE  IInv'
<1> USE SchedulerAssumption
    DEF SchedulerAssumption, AddThreadToList, Goto, Calls, BootCode, Creating, interruptVars,
        processVars, threadVars, IInv, TypeOK
<1>1. TypeOK'
  BY DEF Phases
<1>2. Phases'
  BY DEF Phases, Rest, CountsUnfinished
<1>3. Locks'
  BY DEF Locks, Phases
<1>4. Listed'
  BY DEF Listed, Phases
<1>5. Stacks'
  BY DEF Stacks, Phases, Listed
<1>6. Rest'
  BY DEF Rest, CountsUnfinished, Phases
<1>7. Order'
  BY DEF Order, Ran, Phases, Rest
<1> QED BY <1>1, <1>2, <1>3, <1>4, <1>5, <1>6, <1>7

LEMMA SetParentStep ==
  ASSUME IInv, SetParent
  PROVE  IInv'
<1> USE SchedulerAssumption DEF SchedulerAssumption, Calls, Goto
<1>p. Phases /\ Locks /\ Listed /\ Stacks /\ Rest /\ Order /\ TypeOK
  BY DEF IInv
<1>t. /\ thread \in [Threads -> Record] /\ \A t \in Threads : thread[t] \in Record
      /\ made \in 0 .. CREATIONS /\ threadCount \in Nat
      /\ Len(threadHead) \in Nat /\ DOMAIN threadHead = 1 .. Len(threadHead)
      /\ \A i \in DOMAIN threadHead : threadHead[i] \in Threads \cup {NoThread}
      /\ Len(ran) \in Nat /\ DOMAIN ran = 1 .. Len(ran) /\ (ran # <<>> => Len(ran) > 0)
      /\ runningThread # NoThread => runningThread \in Threads
  BY Types
<1>k. /\ pc = "publish" /\ pc' = "unlockProcess"
      /\ thread' = [u \in Threads |-> IF u # fresh THEN thread[u] ELSE
           [thread[fresh] EXCEPT !.threadID = 2, !.PML4 = made + 1]]
      /\ UNCHANGED <<interruptVars, processVars, threadHead, threadCount,
                     runningThread, cr3, ran>>
  BY DEF SetParent
<1>b. /\ made + 1 \in Calls /\ made + 1 \in 0 .. CREATIONS
      /\ fresh \in Threads =>
           thread[fresh].entryPoint = made + 1 /\ thread[fresh].stack = made + 1
  BY <1>p, <1>t, <1>k DEF Phases, Creating, Listed
<1>c. \A u \in Threads : u # fresh => thread'[u] = thread[u]
  BY <1>k, <1>b, <1>t
<1>d. fresh \in Threads =>
        /\ thread'[fresh] \in Record /\ thread'[fresh].lock = thread[fresh].lock
        /\ thread'[fresh].entryPoint = made + 1 /\ thread'[fresh].stack = made + 1
        /\ thread'[fresh].PML4 = made + 1 /\ thread'[fresh].threadID = 2
  <2> SUFFICES ASSUME fresh \in Threads
               PROVE  /\ thread'[fresh] \in Record /\ thread'[fresh].lock = thread[fresh].lock
                      /\ thread'[fresh].entryPoint = made + 1 /\ thread'[fresh].stack = made + 1
                      /\ thread'[fresh].PML4 = made + 1 /\ thread'[fresh].threadID = 2
    OBVIOUS
  <2>1. thread'[fresh] = [thread[fresh] EXCEPT !.threadID = 2, !.PML4 = made + 1]
    BY <1>b, <1>k, <1>t DEF Record
  <2>2. /\ thread[fresh] \in Record /\ made + 1 \in 0 .. CREATIONS
        /\ thread[fresh].entryPoint = made + 1 /\ thread[fresh].stack = made + 1
    BY <1>b, <1>t
  <2> QED BY ONLY <2>1, <2>2 DEF Record
<1>e. runningThread = NoThread /\ ran = <<>>
  BY <1>p, <1>k DEF Phases, BootCode, Creating
<1>1. TypeOK'
  <2>1. thread' \in [Threads -> Record]
    BY <1>b, <1>c, <1>d, <1>k, <1>t
  <2> QED BY <1>p, <1>t, <1>k, <1>b, <2>1  DEF TypeOK, Record, interruptVars, processVars
<1>2. Phases'
  BY <1>b, <1>e, <1>k, <1>p DEF Phases, BootCode, Creating, interruptVars, processVars
<1>3. Locks'
  BY <1>b, <1>c, <1>d, <1>k, <1>p DEF Locks, processVars
<1>4. Listed'
  BY <1>b, <1>c, <1>d, <1>k, <1>p, <1>t DEF Listed
<1>5. Stacks'
  BY <1>b, <1>c, <1>d, <1>e, <1>k, <1>p, <1>t DEF Stacks
<1>6. Rest'
  BY <1>e, <1>k, <1>p, <1>t DEF Rest, CountsUnfinished
<1>7. Order'
  <2>1. \A u \in Threads : thread'[u].entryPoint = thread[u].entryPoint
    BY <1>b, <1>c, <1>d
  <2>2. \A u \in Threads : thread[u].entryPoint <= made \/ u = fresh
    BY <1>k, <1>p DEF Order
  <2>3. \A u, v \in Threads :
           thread'[u].entryPoint # 0 /\ thread'[u].entryPoint = thread'[v].entryPoint => u = v
    BY <1>p, <2>1 DEF Order
  <2>4. pc' = "unlockProcess" /\ made' = made /\ fresh' = fresh
    BY <1>k DEF processVars
  <2>5. fresh' \in Threads => thread'[fresh'].entryPoint = made' + 1
    BY <1>d, <2>4
  <2>6. \A j \in DOMAIN ran' : FALSE
    BY <1>e, <1>k
  <2> QED BY <2>1, <2>2, <2>3, <2>4, <2>5, <2>6 DEF Order
<1> QED BY <1>1, <1>2, <1>3, <1>4, <1>5, <1>6, <1>7 DEF IInv

LEMMA UnlockProcessStep ==
  ASSUME IInv, UnlockProcess
  PROVE  IInv'
<1> USE SchedulerAssumption
    DEF SchedulerAssumption, UnlockProcess, Goto, Calls, BootCode, Creating, interruptVars,
        processVars, threadVars, IInv, TypeOK
<1>1. TypeOK'
  BY DEF Phases
<1>2. Phases'
  BY DEF Phases, Rest, CountsUnfinished
<1>3. Locks'
  BY DEF Locks, Phases
<1>4. Listed'
  BY DEF Listed, Phases
<1>5. Stacks'
  BY DEF Stacks, Phases, Listed
<1>6. Rest'
  BY DEF Rest, CountsUnfinished, Phases
<1>7. Order'
  <2>1. \A u \in Threads : thread[u].entryPoint <= made' /\ thread[u].entryPoint \in 0 .. CREATIONS
    <3>1. \A u \in Threads : thread[u].entryPoint \in 0 .. CREATIONS
      OBVIOUS
    <3>2. \A u \in Threads : thread[u].entryPoint <= made \/ thread[u].entryPoint = made + 1
      BY DEF Order
    <3>3. made \in Nat /\ made' = made + 1
      OBVIOUS
    <3> QED BY ONLY <3>1, <3>2, <3>3, SchedulerAssumption DEF SchedulerAssumption
  <2>2. runningThread' = NoThread /\ ran' = <<>>
    BY DEF Phases
  <2> QED BY <2>1, <2>2 DEF Order, Ran
<1> QED BY <1>1, <1>2, <1>3, <1>4, <1>5, <1>6, <1>7

LEMMA PitInitStep ==
  ASSUME IInv, PitInit
  PROVE  IInv'
<1> USE SchedulerAssumption
    DEF SchedulerAssumption, PitInit, Goto, Calls, BootCode, Creating, interruptVars,
        processVars, threadVars, IInv, TypeOK
<1>1. TypeOK'
  BY DEF Phases
<1>2. Phases'
  BY DEF Phases, Rest, CountsUnfinished
<1>3. Locks'
  BY DEF Locks, Phases
<1>4. Listed'
  BY DEF Listed, Phases
<1>5. Stacks'
  BY DEF Stacks, Phases, Listed
<1>6. Rest'
  BY DEF Rest, CountsUnfinished, Phases
<1>7. Order'
  BY DEF Order, Ran, Phases, Rest
<1> QED BY <1>1, <1>2, <1>3, <1>4, <1>5, <1>6, <1>7

LEMMA PitInitDoneStep ==
  ASSUME IInv, PitInitDone
  PROVE  IInv'
<1> USE SchedulerAssumption
    DEF SchedulerAssumption, PitInitDone, Goto, Calls, BootCode, Creating, interruptVars,
        processVars, threadVars, IInv, TypeOK
<1>1. TypeOK'
  BY DEF Phases
<1>2. Phases'
  BY DEF Phases, Rest, CountsUnfinished
<1>3. Locks'
  BY DEF Locks, Phases
<1>4. Listed'
  BY DEF Listed, Phases
<1>5. Stacks'
  BY DEF Stacks, Phases, Listed
<1>6. Rest'
  BY DEF Rest, CountsUnfinished, Phases
<1>7. Order'
  BY DEF Order, Ran, Phases, Rest
<1> QED BY <1>1, <1>2, <1>3, <1>4, <1>5, <1>6, <1>7

LEMMA TickStep ==
  ASSUME IInv, Tick
  PROVE  IInv'
<1> USE SchedulerAssumption
    DEF SchedulerAssumption, Tick, Goto, Calls, BootCode, Creating, interruptVars,
        processVars, threadVars, IInv, TypeOK
<1>1. TypeOK'
  BY DEF Phases
<1>2. Phases'
  BY DEF Phases, Rest, CountsUnfinished
<1>3. Locks'
  BY DEF Locks, Phases
<1>4. Listed'
  BY DEF Listed, Phases
<1>5. Stacks'
  BY DEF Stacks, Phases, Listed
<1>6. Rest'
  BY DEF Rest, CountsUnfinished, Phases
<1>7. Order'
  BY DEF Order, Ran, Phases, Rest
<1> QED BY <1>1, <1>2, <1>3, <1>4, <1>5, <1>6, <1>7

LEMMA PitHandlerStep ==
  ASSUME IInv, PitHandler
  PROVE  IInv'
<1> USE SchedulerAssumption
    DEF SchedulerAssumption, PitHandler, Goto, Calls, BootCode, Creating, interruptVars,
        processVars, threadVars, IInv, TypeOK
<1>1. TypeOK'
  BY DEF Phases
<1>2. Phases'
  BY DEF Phases, Rest, CountsUnfinished
<1>3. Locks'
  BY DEF Locks, Phases
<1>4. Listed'
  BY DEF Listed, Phases
<1>5. Stacks'
  BY DEF Stacks, Phases, Listed
<1>6. Rest'
  BY DEF Rest, CountsUnfinished, Phases
<1>7. Order'
  BY DEF Order, Ran, Phases, Rest
<1> QED BY <1>1, <1>2, <1>3, <1>4, <1>5, <1>6, <1>7

LEMMA PitHandlerReturnsStep ==
  ASSUME IInv, PitHandlerReturns
  PROVE  IInv'
<1> USE SchedulerAssumption
    DEF SchedulerAssumption, PitHandlerReturns, Goto, Calls, BootCode, Creating, interruptVars,
        processVars, threadVars, IInv, TypeOK
<1>1. TypeOK'
  BY DEF Phases
<1>2. Phases'
  BY DEF Phases, Rest, CountsUnfinished
<1>3. Locks'
  BY DEF Locks, Phases
<1>4. Listed'
  BY DEF Listed, Phases
<1>5. Stacks'
  BY DEF Stacks, Phases, Listed
<1>6. Rest'
  BY DEF Rest, CountsUnfinished, Phases
<1>7. Order'
  BY DEF Order, Ran, Phases, Rest
<1> QED BY <1>1, <1>2, <1>3, <1>4, <1>5, <1>6, <1>7

LEMMA FaultStep ==
  ASSUME IInv, Fault
  PROVE  IInv'
<1> USE SchedulerAssumption
    DEF SchedulerAssumption, Fault, Goto, Calls, BootCode, Creating, interruptVars,
        processVars, threadVars, IInv, TypeOK
<1>1. TypeOK'
  BY DEF Phases
<1>2. Phases'
  BY DEF Phases, Rest, CountsUnfinished
<1>3. Locks'
  BY DEF Locks, Phases
<1>4. Listed'
  BY DEF Listed, Phases
<1>5. Stacks'
  BY DEF Stacks, Phases, Listed
<1>6. Rest'
  BY DEF Rest, CountsUnfinished, Phases
<1>7. Order'
  BY DEF Order, Ran, Phases, Rest
<1> QED BY <1>1, <1>2, <1>3, <1>4, <1>5, <1>6, <1>7

LEMMA NothingToRunStep ==
  ASSUME IInv, NothingToRun
  PROVE  IInv'
<1> USE SchedulerAssumption
    DEF SchedulerAssumption, NothingToRun, Goto, Calls, BootCode, Creating, interruptVars,
        processVars, threadVars, IInv, TypeOK, Startable
<1>1. TypeOK'
  BY DEF Phases
<1>2. Phases'
  BY DEF Phases, Rest, CountsUnfinished
<1>3. Locks'
  BY DEF Locks, Phases
<1>4. Listed'
  BY DEF Listed, Phases
<1>5. Stacks'
  BY DEF Stacks, Phases, Listed
<1>6. Rest'
  BY DEF Rest, CountsUnfinished, Phases
<1>7. Order'
  BY DEF Order, Ran, Phases, Rest
<1> QED BY <1>1, <1>2, <1>3, <1>4, <1>5, <1>6, <1>7

LEMMA PickFirstStep ==
  ASSUME IInv, PickFirst
  PROVE  IInv'
<1> USE SchedulerAssumption
    DEF SchedulerAssumption, PickFirst, Goto, Calls, BootCode, Creating, interruptVars,
        processVars, threadVars, IInv, TypeOK, Startable
<1>1. TypeOK'
  BY DEF Phases
<1>2. Phases'
  BY DEF Phases, Rest, CountsUnfinished
<1>3. Locks'
  BY DEF Locks, Phases
<1>4. Listed'
  BY DEF Listed, Phases
<1>5. Stacks'
  BY DEF Stacks, Phases, Listed
<1>6. Rest'
  BY DEF Rest, CountsUnfinished, Phases
<1>7. Order'
  BY DEF Order, Ran, Phases, Rest
<1> QED BY <1>1, <1>2, <1>3, <1>4, <1>5, <1>6, <1>7

LEMMA PickNextStep ==
  ASSUME IInv, PickNext
  PROVE  IInv'
<1> USE SchedulerAssumption DEF SchedulerAssumption, Calls, Goto
<1>p. Phases /\ Locks /\ Listed /\ Stacks /\ Rest /\ Order /\ TypeOK
  BY DEF IInv
<1>t. /\ thread \in [Threads -> Record] /\ \A t \in Threads : thread[t] \in Record
      /\ made \in 0 .. CREATIONS /\ threadCount \in Nat
      /\ Len(threadHead) \in Nat /\ DOMAIN threadHead = 1 .. Len(threadHead)
      /\ \A i \in DOMAIN threadHead : threadHead[i] \in Threads \cup {NoThread}
      /\ Len(ran) \in Nat /\ DOMAIN ran = 1 .. Len(ran) /\ (ran # <<>> => Len(ran) > 0)
      /\ runningThread # NoThread => runningThread \in Threads
  BY Types
<1>a. /\ pc = "runThread" /\ Len(ran) > 0 /\ threadHead # <<>>
      /\ runningThread \in Threads /\ runningThread # NoThread /\ threadCount > 0
      /\ threadHead[1] # NoThread /\ getNextThread(runningThread) # NoThread
  BY <1>p, <1>t DEF PickNext, Goto, Startable, Phases
<1>b. Len(threadHead) > 1 /\ threadCount + Len(ran) = Len(threadHead)
  BY <1>a, <1>p, <1>t DEF Rest, CountsUnfinished
<1>f. threadHead[1] \in Threads /\ threadHead[2] \in Threads \cup {NoThread}
  BY <1>a, <1>b, <1>t
<1>d. runningThread = threadHead[1] \/ runningThread = threadHead[2]
  BY <1>a, <1>p DEF Rest
<1>e. getNextThread(runningThread) = threadHead[2]
  <2>1. \A i \in {1, 2} : threadHead[i] # NoThread => thread[threadHead[i]].threadID = 2
    BY <1>a, <1>b, <1>p, <1>t DEF Listed
  <2>2. thread[threadHead[1]].threadID = thread[runningThread].threadID
    BY <1>a, <1>d, <2>1
  <2> QED BY <1>b, <1>t, <2>2 DEF getNextThread
<1>c. threadHead[1] \in Threads /\ threadHead[2] \in Threads
  BY <1>a, <1>e, <1>f
<1>k. /\ pc' = "lockThread" /\ runningThread' = threadHead[2]
      /\ thread' = [thread EXCEPT ![runningThread].stack = thread[threadHead[2]].stack,
                                  ![runningThread].state = "READY"]
      /\ UNCHANGED <<interruptVars, processVars, threadHead, threadCount, cr3, ran>>
  BY <1>e DEF PickNext
<1>h. \A u \in Threads : u # runningThread => thread'[u] = thread[u]
  BY <1>a, <1>k, <1>t
<1>i. /\ thread'[runningThread] \in Record
      /\ thread'[runningThread].stack = thread[threadHead[2]].stack
      /\ \A u \in Threads : /\ thread'[u].entryPoint = thread[u].entryPoint
                            /\ thread'[u].PML4 = thread[u].PML4
                            /\ thread'[u].threadID = thread[u].threadID
                            /\ thread'[u].lock = thread[u].lock
  <2>1. thread'[runningThread] =
          [thread[runningThread] EXCEPT !.stack = thread[threadHead[2]].stack,
                                        !.state = "READY"]
    BY <1>a, <1>k, <1>t DEF Record
  <2>2. thread[threadHead[2]].stack \in 0 .. CREATIONS
    BY <1>c, <1>t DEF Record
  <2>3. thread[runningThread] \in Record
    BY <1>a, <1>t
  <2>4. /\ thread'[runningThread] \in Record
        /\ thread'[runningThread].stack = thread[threadHead[2]].stack
        /\ thread'[runningThread].lock = thread[runningThread].lock
        /\ thread'[runningThread].entryPoint = thread[runningThread].entryPoint
        /\ thread'[runningThread].PML4 = thread[runningThread].PML4
        /\ thread'[runningThread].threadID = thread[runningThread].threadID
    BY ONLY <2>1, <2>2, <2>3 DEF Record
  <2> QED BY <1>a, <1>h, <2>4
<1>1. TypeOK'
  <2>1. thread' \in [Threads -> Record]
    BY <1>a, <1>h, <1>i, <1>k, <1>t
  <2> QED BY <1>p, <1>t, <1>k, <1>c, <2>1  DEF TypeOK, Record, interruptVars, processVars
<1>2. Phases'
  BY <1>a, <1>c, <1>k, <1>p, <1>t DEF Phases, BootCode, Creating, interruptVars, processVars
<1>3. Locks'
  BY <1>a, <1>i, <1>k, <1>p DEF Locks, processVars
<1>4. Listed'
  BY <1>a, <1>i, <1>k, <1>p, <1>t DEF Listed
<1>5. Stacks'
  <2>1. thread[threadHead[2]].stack = thread[threadHead[2]].entryPoint
    BY <1>a, <1>b, <1>c, <1>d, <1>p, <1>t, SchedulerAssumption DEF Stacks
  <2>2. ASSUME NEW i \in DOMAIN threadHead
        PROVE  \/ threadHead[i] = NoThread
               \/ thread'[threadHead[i]].stack = thread'[threadHead[i]].entryPoint
               \/ threadHead[i] = threadHead[1] /\ runningThread' # NoThread
                    /\ runningThread' # threadHead[i]
    <3>1. CASE threadHead[i] = runningThread
      BY <1>c, <1>d, <1>i, <1>k, <1>t, <2>1, <3>1
    <3>2. CASE threadHead[i] # runningThread
      <4>1. threadHead[i] # NoThread => thread'[threadHead[i]] = thread[threadHead[i]]
        BY <1>h, <1>t, <3>2
      <4>2. \/ threadHead[i] = NoThread
            \/ thread[threadHead[i]].stack = thread[threadHead[i]].entryPoint
            \/ threadHead[i] = threadHead[1] /\ runningThread # threadHead[i]
        BY <1>a, <1>p DEF Stacks
      <4>3. threadHead[i] = threadHead[1] /\ runningThread # threadHead[i] =>
               runningThread' = threadHead[2]
        BY <1>k
      <4>4. threadHead[1] = threadHead[2] => runningThread = threadHead[1]
        BY <1>d
      <4> QED BY <1>c, <1>k, <3>2, <4>1, <4>2, <4>3, <4>4, SchedulerAssumption
             DEF SchedulerAssumption
    <3> QED BY <3>1, <3>2
  <2> QED BY <1>k, <2>2 DEF Stacks
<1>6. Rest'
  BY <1>a, <1>b, <1>k DEF Rest, CountsUnfinished
<1>7. Order'
  <2>1. runningThread' = threadHead[2] /\ ran # <<>>
    BY <1>a, <1>k, <1>p, <1>t DEF TypeOK
  <2>2. \A j \in DOMAIN ran : Ran(j, IF j = 1 THEN 1 ELSE 2)'
    <3>1. \A j \in DOMAIN ran, i \in {1, 2} : Ran(j, i) => Ran(j, i)'
      BY <1>c, <1>i, <1>k DEF Ran
    <3> QED BY <1>p, <3>1 DEF Order
  <2>3. \A u \in Threads : thread[u].entryPoint <= made
    BY <1>a, <1>p DEF Order
  <2>4. \A u, v \in Threads :
           thread'[u].entryPoint # 0 /\ thread'[u].entryPoint = thread'[v].entryPoint => u = v
    BY <1>i, <1>p DEF Order
  <2>5. \A u \in Threads : thread'[u].entryPoint = thread[u].entryPoint
    BY <1>i
  <2>6. pc' = "lockThread" /\ ran' = ran /\ threadHead' = threadHead /\ made' = made
    BY <1>k DEF processVars
  <2> QED BY <2>1, <2>2, <2>3, <2>4, <2>5, <2>6 DEF Order
<1> QED BY <1>1, <1>2, <1>3, <1>4, <1>5, <1>6, <1>7 DEF IInv

LEMMA PickNullStep ==
  ASSUME IInv, PickNull
  PROVE  IInv'
<1> USE SchedulerAssumption DEF SchedulerAssumption, Calls, Goto
<1>p. Phases /\ Locks /\ Listed /\ Stacks /\ Rest /\ Order /\ TypeOK
  BY DEF IInv
<1>t. /\ thread \in [Threads -> Record] /\ \A t \in Threads : thread[t] \in Record
      /\ made \in 0 .. CREATIONS /\ threadCount \in Nat
      /\ Len(threadHead) \in Nat /\ DOMAIN threadHead = 1 .. Len(threadHead)
      /\ \A i \in DOMAIN threadHead : threadHead[i] \in Threads \cup {NoThread}
      /\ Len(ran) \in Nat /\ DOMAIN ran = 1 .. Len(ran) /\ (ran # <<>> => Len(ran) > 0)
      /\ runningThread # NoThread => runningThread \in Threads
  BY Types
<1>a. /\ pc = "runThread" /\ Len(ran) > 0 /\ threadHead # <<>> /\ threadHead[1] # NoThread
      /\ runningThread \in Threads /\ runningThread # NoThread /\ threadCount > 0
      /\ getNextThread(runningThread) = NoThread
  BY <1>p, <1>t DEF PickNull, Goto, Startable, Phases
<1>b. Len(threadHead) > 1 /\ threadCount + Len(ran) = Len(threadHead)
  BY <1>a, <1>p, <1>t DEF Rest, CountsUnfinished
<1>d. runningThread = threadHead[1] \/ runningThread = threadHead[2]
  BY <1>a, <1>p DEF Rest
<1>e. threadHead[2] = NoThread
  <2>1. \A i \in {1, 2} : threadHead[i] # NoThread => thread[threadHead[i]].threadID = 2
    BY <1>a, <1>b, <1>p, <1>t DEF Listed
  <2>2. thread[threadHead[1]].threadID = thread[runningThread].threadID
    BY <1>a, <1>d, <2>1
  <2> QED BY <1>a, <1>b, <1>t, <2>2 DEF getNextThread
<1>c. runningThread = threadHead[1] /\ threadHead[1] \in Threads
  BY <1>a, <1>d, <1>e
<1>k. /\ pc' = "lockThread" /\ runningThread' = runningThread
      /\ thread' = [thread EXCEPT ![runningThread].stack = 0,
                                  ![runningThread].state = "READY"]
      /\ UNCHANGED <<interruptVars, processVars, threadHead, threadCount, cr3, ran>>
  BY <1>c DEF PickNull
<1>h. \A u \in Threads : u # runningThread => thread'[u] = thread[u]
  BY <1>a, <1>k, <1>t
<1>i. /\ thread'[runningThread] \in Record /\ thread'[runningThread].stack = 0
      /\ \A u \in Threads : /\ thread'[u].entryPoint = thread[u].entryPoint
                            /\ thread'[u].PML4 = thread[u].PML4
                            /\ thread'[u].threadID = thread[u].threadID
                            /\ thread'[u].lock = thread[u].lock
  <2>1. thread'[runningThread] =
          [thread[runningThread] EXCEPT !.stack = 0, !.state = "READY"]
    BY <1>a, <1>k, <1>t DEF Record
  <2>2. 0 \in 0 .. CREATIONS
    OBVIOUS
  <2>3. thread[runningThread] \in Record
    BY <1>a, <1>t
  <2>4. /\ thread'[runningThread] \in Record
        /\ thread'[runningThread].stack = 0
        /\ thread'[runningThread].lock = thread[runningThread].lock
        /\ thread'[runningThread].entryPoint = thread[runningThread].entryPoint
        /\ thread'[runningThread].PML4 = thread[runningThread].PML4
        /\ thread'[runningThread].threadID = thread[runningThread].threadID
    BY ONLY <2>1, <2>2, <2>3 DEF Record
  <2> QED BY <1>a, <1>h, <2>4
<1>1. TypeOK'
  <2>1. thread' \in [Threads -> Record]
    BY <1>a, <1>h, <1>i, <1>k, <1>t
  <2> QED BY <1>p, <1>t, <1>k, <2>1 DEF TypeOK, Record, interruptVars, processVars
<1>2. Phases'
  BY <1>a, <1>k, <1>p, <1>t DEF Phases, BootCode, Creating, interruptVars, processVars
<1>3. Locks'
  BY <1>a, <1>i, <1>k, <1>p DEF Locks, processVars
<1>4. Listed'
  BY <1>a, <1>i, <1>k, <1>p, <1>t DEF Listed
<1>5. Stacks'
  <2>1. ASSUME NEW i \in DOMAIN threadHead
        PROVE  \/ threadHead[i] = NoThread
               \/ thread'[threadHead[i]].stack = thread'[threadHead[i]].entryPoint
               \/ threadHead[i] = runningThread /\ thread'[threadHead[i]].stack = 0
    <3>1. CASE threadHead[i] = runningThread
      BY <1>i, <3>1
    <3>2. CASE threadHead[i] # runningThread /\ threadHead[i] # NoThread
      <4>1. thread'[threadHead[i]] = thread[threadHead[i]]
        BY <1>h, <1>t, <3>2
      <4> QED BY <1>a, <1>c, <1>p, <3>2, <4>1 DEF Stacks
    <3> QED BY <3>1, <3>2
  <2> QED BY <1>k, <2>1 DEF Stacks
<1>6. Rest'
  BY <1>a, <1>b, <1>c, <1>k DEF Rest, CountsUnfinished
<1>7. Order'
  <2>1. \A j \in DOMAIN ran : Ran(j, IF j = 1 THEN 1 ELSE 2)'
    <3>1. \A j \in DOMAIN ran, i \in {1, 2} : Ran(j, i) => Ran(j, i)'
      BY <1>c, <1>e, <1>i, <1>k DEF Ran
    <3> QED BY <1>p, <3>1 DEF Order
  <2>2. \A u \in Threads : thread[u].entryPoint <= made
    BY <1>a, <1>p DEF Order
  <2>3. \A u, v \in Threads :
           thread'[u].entryPoint # 0 /\ thread'[u].entryPoint = thread'[v].entryPoint => u = v
    BY <1>i, <1>p DEF Order
  <2>4. \A u \in Threads : thread'[u].entryPoint = thread[u].entryPoint
    BY <1>i
  <2>5. /\ pc' = "lockThread" /\ ran' = ran /\ threadHead' = threadHead /\ made' = made
        /\ thread'[runningThread'].stack = 0
    BY <1>i, <1>k DEF processVars
  <2> QED BY <2>1, <2>2, <2>3, <2>4, <2>5 DEF Order
<1> QED BY <1>1, <1>2, <1>3, <1>4, <1>5, <1>6, <1>7 DEF IInv

LEMMA SwitchToStep ==
  ASSUME IInv, SwitchTo
  PROVE  IInv'
<1> USE SchedulerAssumption DEF SchedulerAssumption, Calls, Goto
<1>p. Phases /\ Locks /\ Listed /\ Stacks /\ Rest /\ Order /\ TypeOK
  BY DEF IInv
<1>t. /\ thread \in [Threads -> Record] /\ \A t \in Threads : thread[t] \in Record
      /\ made \in 0 .. CREATIONS /\ threadCount \in Nat
      /\ Len(threadHead) \in Nat /\ DOMAIN threadHead = 1 .. Len(threadHead)
      /\ \A i \in DOMAIN threadHead : threadHead[i] \in Threads \cup {NoThread}
      /\ Len(ran) \in Nat /\ DOMAIN ran = 1 .. Len(ran) /\ (ran # <<>> => Len(ran) > 0)
      /\ runningThread # NoThread => runningThread \in Threads
  BY Types
<1>k. /\ pc = "lockThread"
      /\ pc' = IF thread[runningThread].stack = 0 THEN "crashed" ELSE "thread"
      /\ thread' = [thread EXCEPT ![runningThread].lock = 1,
                                  ![runningThread].state = "RUNNING"]
      /\ cr3' = thread[runningThread].PML4 /\ IF_' = TRUE
      /\ UNCHANGED <<resume, inService, pitTicks, lockx, processVars, threadHead,
                     threadCount, runningThread, ran>>
  BY DEF SwitchTo
<1>a. /\ runningThread \in Threads /\ runningThread # NoThread /\ threadHead # <<>>
      /\ threadCount > 0
  BY <1>k, <1>p, <1>t DEF Phases, Rest
<1>b. \E i \in DOMAIN threadHead : threadHead[i] = runningThread
  <2>1. Len(threadHead) > 0
    BY <1>a, <1>p, <1>t DEF TypeOK
  <2> QED BY <1>a, <1>p, <1>t, <2>1 DEF Rest
<1>d. \A u \in Threads : u # runningThread => thread'[u] = thread[u]
  BY <1>a, <1>k, <1>t
<1>e. /\ thread'[runningThread] \in Record /\ thread'[runningThread].lock = 1
      /\ \A u \in Threads : /\ thread'[u].entryPoint = thread[u].entryPoint
                            /\ thread'[u].PML4 = thread[u].PML4
                            /\ thread'[u].threadID = thread[u].threadID
                            /\ thread'[u].stack = thread[u].stack
  <2>1. thread'[runningThread] =
          [thread[runningThread] EXCEPT !.lock = 1, !.state = "RUNNING"]
    BY <1>a, <1>k, <1>t DEF Record
  <2>2. thread[runningThread] \in Record
    BY <1>a, <1>t
  <2>3. /\ thread'[runningThread] \in Record
        /\ thread'[runningThread].lock = 1
        /\ thread'[runningThread].stack = thread[runningThread].stack
        /\ thread'[runningThread].entryPoint = thread[runningThread].entryPoint
        /\ thread'[runningThread].PML4 = thread[runningThread].PML4
        /\ thread'[runningThread].threadID = thread[runningThread].threadID
    BY ONLY <2>1, <2>2 DEF Record
  <2> QED BY <1>a, <1>d, <2>3
<1>f. thread[runningThread].PML4 \in Calls
      /\ thread[runningThread].entryPoint = thread[runningThread].PML4
  BY <1>a, <1>b, <1>k, <1>p DEF Listed
<1>1. TypeOK'
  <2>1. thread' \in [Threads -> Record]
    BY <1>a, <1>d, <1>e, <1>k, <1>t
  <2> QED BY <1>p, <1>t, <1>k, <1>a, <1>f, <2>1  DEF TypeOK, Record, interruptVars, processVars
<1>2. Phases'
  BY <1>a, <1>k, <1>p DEF Phases, BootCode, Creating, processVars
<1>3. Locks'
  BY <1>a, <1>d, <1>e, <1>k, <1>p DEF Locks, processVars
<1>4. Listed'
  BY <1>e, <1>k, <1>p, <1>t DEF Listed
<1>5. Stacks'
  <2>1. cr3' = thread'[runningThread].PML4
    BY <1>a, <1>e, <1>k
  <2>2. ASSUME NEW i \in DOMAIN threadHead, threadHead[i] # NoThread
        PROVE  \/ thread'[threadHead[i]].stack = thread'[threadHead[i]].entryPoint
               \/ threadHead[i] = threadHead[1] /\ runningThread # threadHead[i]
               \/ /\ pc' = "crashed" /\ threadHead[i] = runningThread
                  /\ thread'[threadHead[i]].stack = 0
    <3>1. threadHead[i] \in Threads
      BY <1>t, <2>2
    <3>2. \/ thread[threadHead[i]].stack = thread[threadHead[i]].entryPoint
          \/ threadHead[i] = threadHead[1] /\ runningThread # threadHead[i]
          \/ threadHead[i] = runningThread /\ thread[threadHead[i]].stack = 0
      BY <1>p, <2>2 DEF Stacks
    <3> QED BY <1>e, <1>k, <3>1, <3>2
  <2> QED BY <1>a, <1>k, <2>1, <2>2 DEF Stacks
<1>6. Rest'
  BY <1>a, <1>k, <1>p, <1>t DEF Rest, CountsUnfinished
<1>7. Order'
  <2>1. \A j \in DOMAIN ran : Ran(j, IF j = 1 THEN 1 ELSE 2)'
    <3>1. \A j \in DOMAIN ran, i \in {1, 2} : Ran(j, i) => Ran(j, i)'
      BY <1>e, <1>k, <1>t DEF Ran
    <3> QED BY <1>p, <3>1 DEF Order
  <2>2. \A u, v \in Threads :
           thread'[u].entryPoint # 0 /\ thread'[u].entryPoint = thread'[v].entryPoint => u = v
    BY <1>e, <1>p DEF Order
  <2>3. \A u \in Threads : thread'[u].entryPoint = thread[u].entryPoint
                            /\ thread[u].entryPoint <= made
    BY <1>e, <1>k, <1>p DEF Order
  <2>4. ran' = ran /\ threadHead' = threadHead /\ made' = made
        /\ runningThread' = runningThread /\ pc' \in {"thread", "crashed"}
    BY <1>k DEF processVars
  <2>5. pc' = "thread" => runningThread = threadHead[IF ran = <<>> THEN 1 ELSE 2]
    BY <1>k, <1>p DEF Order
  <2> QED BY <2>1, <2>2, <2>3, <2>4, <2>5 DEF Order
<1> QED BY <1>1, <1>2, <1>3, <1>4, <1>5, <1>6, <1>7 DEF IInv

LEMMA ThreadDoneStep ==
  ASSUME IInv, ThreadDone
  PROVE  IInv'
<1> USE SchedulerAssumption DEF SchedulerAssumption, Calls, Goto
<1>p. Phases /\ Locks /\ Listed /\ Stacks /\ Rest /\ Order /\ TypeOK
  BY DEF IInv
<1>t. /\ thread \in [Threads -> Record] /\ \A t \in Threads : thread[t] \in Record
      /\ made \in 0 .. CREATIONS /\ threadCount \in Nat
      /\ Len(threadHead) \in Nat /\ DOMAIN threadHead = 1 .. Len(threadHead)
      /\ \A i \in DOMAIN threadHead : threadHead[i] \in Threads \cup {NoThread}
      /\ Len(ran) \in Nat /\ DOMAIN ran = 1 .. Len(ran) /\ (ran # <<>> => Len(ran) > 0)
      /\ runningThread # NoThread => runningThread \in Threads
  BY Types
<1>k. /\ pc = "thread" /\ pc' = "runThread"
      /\ thread' = [thread EXCEPT ![runningThread].state = "SUSPENDED",
                                  ![runningThread].lock = 0]
      /\ ran' = Append(ran, thread[runningThread].entryPoint)
      /\ lockx' = 0 /\ threadCount' = threadCount - 1 /\ IF_' = TRUE
      /\ UNCHANGED <<resume, inService, pitTicks, processVars, threadHead,
                     runningThread, cr3>>
  BY DEF ThreadDone
<1>a. /\ runningThread \in Threads /\ runningThread # NoThread /\ threadHead # <<>>
      /\ threadCount > 0
  BY <1>k, <1>p, <1>t DEF Phases, Rest
<1>b. \E i \in DOMAIN threadHead : threadHead[i] = runningThread
  <2>1. Len(threadHead) > 0
    BY <1>a, <1>p, <1>t DEF TypeOK
  <2> QED BY <1>a, <1>p, <1>t, <2>1 DEF Rest
<1>d. \A u \in Threads : u # runningThread => thread'[u] = thread[u]
  BY <1>a, <1>k, <1>t
<1>e. /\ thread'[runningThread] \in Record /\ thread'[runningThread].lock = 0
      /\ \A u \in Threads : /\ thread'[u].entryPoint = thread[u].entryPoint
                            /\ thread'[u].PML4 = thread[u].PML4
                            /\ thread'[u].threadID = thread[u].threadID
                            /\ thread'[u].stack = thread[u].stack
  <2>1. thread'[runningThread] =
          [thread[runningThread] EXCEPT !.lock = 0, !.state = "SUSPENDED"]
    BY <1>a, <1>k, <1>t DEF Record
  <2>2. thread[runningThread] \in Record
    BY <1>a, <1>t
  <2>3. /\ thread'[runningThread] \in Record
        /\ thread'[runningThread].lock = 0
        /\ thread'[runningThread].stack = thread[runningThread].stack
        /\ thread'[runningThread].entryPoint = thread[runningThread].entryPoint
        /\ thread'[runningThread].PML4 = thread[runningThread].PML4
        /\ thread'[runningThread].threadID = thread[runningThread].threadID
    BY ONLY <2>1, <2>2 DEF Record
  <2> QED BY <1>a, <1>d, <2>3
<1>f. thread[runningThread].PML4 \in Calls
      /\ thread[runningThread].entryPoint = thread[runningThread].PML4
  BY <1>a, <1>b, <1>k, <1>p DEF Listed
<1>g. /\ ran' \in Seq(Calls) /\ Len(ran') = Len(ran) + 1 /\ ran' # <<>>
      /\ DOMAIN ran' = 1 .. Len(ran) + 1
      /\ \A j \in 1 .. Len(ran) : ran'[j] = ran[j]
      /\ ran'[Len(ran) + 1] = thread[runningThread].entryPoint
  <2>1. ran \in Seq(Calls) /\ thread[runningThread].entryPoint \in Calls
    BY <1>f, <1>p DEF TypeOK
  <2>2. ran' = Append(ran, thread[runningThread].entryPoint)
    BY <1>k
  <2>3. ran' \in Seq(Calls) /\ Len(ran') = Len(ran) + 1
    BY <2>1, <2>2
  <2>4. ran' # <<>>
    BY <1>t, <2>3
  <2> QED BY <1>t, <2>1, <2>2, <2>3, <2>4
<1>1. TypeOK'
  <2>1. thread' \in [Threads -> Record]
    BY <1>a, <1>d, <1>e, <1>k, <1>t
  <2>2. threadCount' \in Nat /\ lockx' \in {0, 1} /\ IF_' \in BOOLEAN
    BY <1>a, <1>k, <1>t
  <2>3. ran' \in Seq(Calls)
    BY <1>g
  <2>4. UNCHANGED <<resume, inService, pitTicks, processMutex, made, refused, fresh,
                    threadHead, runningThread, cr3>>
    BY <1>k DEF processVars
  <2>5. pc' = "runThread"
    BY <1>k
  <2> QED BY ONLY <1>p, <2>1, <2>2, <2>3, <2>4, <2>5 DEF TypeOK, Record
<1>2. Phases'
  BY <1>a, <1>g, <1>k, <1>p DEF Phases, BootCode, Creating, processVars
<1>3. Locks'
  <2>1. ASSUME NEW u \in Threads PROVE thread'[u].lock # 1
    <3>1. CASE u = runningThread
      BY <1>e, <3>1
    <3>2. CASE u # runningThread
      BY <1>d, <1>p, <3>2 DEF Locks
    <3> QED BY <3>1, <3>2
  <2>2. processMutex' = 1 => refused'
    BY <1>k, <1>p DEF Locks, processVars
  <2> QED BY <2>1, <2>2 DEF Locks
<1>4. Listed'
  BY <1>e, <1>k, <1>p, <1>t DEF Listed
<1>5. Stacks'
  BY <1>a, <1>e, <1>k, <1>p, <1>t DEF Stacks
<1>6. Rest'
  BY <1>a, <1>g, <1>k, <1>p, <1>t DEF Rest, CountsUnfinished
<1>7. Order'
  <2>1. ASSUME NEW j \in 1 .. Len(ran) + 1
        PROVE  Ran(j, IF j = 1 THEN 1 ELSE 2)'
    <3>1. CASE j \in 1 .. Len(ran)
      <4>1. Ran(j, IF j = 1 THEN 1 ELSE 2) /\ ran'[j] = ran[j]
        BY <1>g, <1>p, <1>t, <3>1 DEF Order
      <4> QED BY <1>e, <1>k, <1>t, <4>1 DEF Ran
    <3>2. CASE j = Len(ran) + 1
      <4>1. (ran = <<>>) <=> (j = 1)
        BY <1>t, <3>2
      <4>2. runningThread = threadHead[IF j = 1 THEN 1 ELSE 2]
        BY <1>k, <1>p, <4>1 DEF Order
      <4>3. (IF j = 1 THEN 1 ELSE 2) \in DOMAIN threadHead
        BY <1>a, <1>k, <1>p, <1>t, <3>2 DEF Rest, CountsUnfinished
      <4>4. ran'[j] = thread'[runningThread].entryPoint
        BY <1>a, <1>e, <1>g, <3>2
      <4>5. threadHead' = threadHead
        BY <1>k
      <4> QED BY <1>a, <4>2, <4>3, <4>4, <4>5 DEF Ran
    <3> QED BY <1>t, <3>1, <3>2
  <2>2. \A u \in Threads : thread[u].entryPoint <= made
    BY <1>k, <1>p DEF Order
  <2>3. \A u, v \in Threads :
           thread'[u].entryPoint # 0 /\ thread'[u].entryPoint = thread'[v].entryPoint => u = v
    BY <1>e, <1>p DEF Order
  <2> QED BY <1>e, <1>g, <1>k, <2>1, <2>2, <2>3 DEF Order, Ran, processVars
<1> QED BY <1>1, <1>2, <1>3, <1>4, <1>5, <1>6, <1>7 DEF IInv

LEMMA NextStep == IInv /\ [Next]_vars => IInv'
<1> SUFFICES ASSUME IInv, [Next]_vars PROVE IInv'
  OBVIOUS
<1>1. CASE Create
  BY <1>1, CliStep, LockProcessStep, ReturnNullStep, SetupThreadContextStep,
     AddThreadToListStep, SetParentStep, UnlockProcessStep DEF Create
<1>2. CASE RunThread
  BY <1>2, NothingToRunStep, PickFirstStep, PickNextStep, PickNullStep, SwitchToStep,
     ThreadDoneStep DEF RunThread
<1>3. CASE PitInit \/ PitInitDone \/ PitHandler \/ PitHandlerReturns
  BY <1>3, PitInitStep, PitInitDoneStep, PitHandlerStep, PitHandlerReturnsStep
<1>4. CASE Tick \/ Fault
  BY <1>4, TickStep, FaultStep
<1>5. CASE UNCHANGED vars
  <2>1. TypeOK' /\ Phases'
    BY <1>5 DEF IInv, TypeOK, Phases, vars, interruptVars, processVars, threadVars
  <2>2. Locks' /\ Listed' /\ Stacks'
    BY <1>5 DEF IInv, Locks, Listed, Stacks, vars, interruptVars, processVars, threadVars
  <2>3. Rest' /\ Order'
    BY <1>5 DEF IInv, Rest, CountsUnfinished, Order, Ran, vars, interruptVars,
                processVars, threadVars
  <2> QED BY <2>1, <2>2, <2>3 DEF IInv
<1> QED BY <1>1, <1>2, <1>3, <1>4, <1>5 DEF Next, Execute

LEMMA Invariance == Spec => []IInv
  BY InitStep, NextStep, PTL DEF Spec

-----------------------------------------------------------------------------
(* What follows for every execution.                                       *)

(* Every variable of the boot processor, the thread list and the threads   *)
(* keeps its type, if the uninitialised pointers are null, fault or point  *)
(* into memory of threads: createProcessFromRoutine, runThread,            *)
(* schedulerWrapper and pitHandler never count below zero and run no       *)
(* routine that nobody gave.                                               *)
THEOREM TypeCorrect == Spec => []TypeOK
<1>1. IInv => TypeOK
  BY DEF IInv
<1> QED BY <1>1, Invariance, PTL

(* Whatever the tick interrupts in createProcessFromRoutine, runThread     *)
(* only ever switches to a thread whose routine, stack and page table one  *)
(* and the same call has made, with that table in CR3.                     *)
THEOREM DispatchIsComplete == Spec => []DispatchComplete
<1>1. IInv => DispatchComplete
  <2> SUFFICES ASSUME IInv, pc = "thread"
               PROVE  LET t == thread[runningThread]
                      IN  /\ t.PML4 \in Calls /\ t.stack = t.PML4
                          /\ t.entryPoint = t.PML4 /\ cr3 = t.PML4
    BY DEF DispatchComplete
  <2>1. runningThread # NoThread /\ threadHead # <<>>
    BY DEF IInv, Phases, Rest
  <2>2. \E i \in DOMAIN threadHead : threadHead[i] = runningThread
    <3>1. Len(threadHead) > 0 /\ DOMAIN threadHead = 1 .. Len(threadHead)
      BY <2>1 DEF IInv, TypeOK
    <3>2. \/ runningThread = threadHead[1]
          \/ Len(threadHead) > 1 /\ runningThread = threadHead[2]
      BY <2>1 DEF IInv, Rest
    <3> QED BY <3>1, <3>2
  <2>3. LET t == thread[runningThread] IN t.PML4 \in Calls /\ t.entryPoint = t.PML4
    BY <2>1, <2>2 DEF IInv, Listed
  <2>4. thread[runningThread].stack = thread[runningThread].entryPoint
    BY <2>1, <2>2 DEF IInv, Stacks
  <2>5. cr3 = thread[runningThread].PML4
    BY DEF IInv, Stacks
  <2> QED BY <2>3, <2>4, <2>5
<1> QED BY <1>1, Invariance, PTL

(* threadCount, which createThreadInternal increments and schedulerWrapper *)
(* decrements, is at every moment the number of threads not yet finished,  *)
(* whatever memory the threads share.                                      *)
THEOREM CountIsCorrect == Spec => []CountsUnfinished
<1>1. IInv => CountsUnfinished
  BY DEF IInv, Rest
<1> QED BY <1>1, Invariance, PTL

(* The lock of a thread, lockx and processMutex are free when the only     *)
(* processor comes to take them, unless a creation has returned nullptr.   *)
THEOREM NoSelfDeadlock == Spec => []NeverSpins
<1>1. IInv => NeverSpins
  <2> SUFFICES ASSUME IInv PROVE NeverSpins
    OBVIOUS
  <2>1. ASSUME pc = "lockThread" PROVE thread[runningThread].lock = 0
    <3>1. runningThread \in Threads
      BY <2>1, Types DEF IInv, Phases
    <3>2. thread[runningThread].lock # 1
      BY <2>1, <3>1 DEF IInv, Locks
    <3> QED BY <3>1, <3>2, Types DEF Record
  <2>2. pc = "pitHandler" => lockx = 0
    BY DEF IInv, Phases
  <2>3. pc = "lockProcess" /\ processMutex = 1 => refused
    BY DEF IInv, Locks
  <2> QED BY <2>1, <2>2, <2>3 DEF NeverSpins
<1> QED BY <1>1, Invariance, PTL

(* The threads end in the order of the list and runThread always goes on   *)
(* with the second: a routine it starts again is the second's, and of two  *)
(* threads in memory of their own, as setupOptimist means to make them,    *)
(* it starts neither again.                                                *)
THEOREM RunsOnceEach == Spec => []RunsOnce
<1>1. IInv => RunsOnce
  <2> SUFFICES ASSUME IInv, NEW i \in 1 .. Len(ran), NEW j \in 1 .. Len(ran),
                      i < j, ran[i] = ran[j]
               PROVE  ~ TwoThreads /\ ran[i] = thread[threadHead[2]].entryPoint
    BY DEF RunsOnce
  <2>1. i \in DOMAIN ran /\ j \in DOMAIN ran /\ j # 1
    BY Types
  <2>2. Ran(i, IF i = 1 THEN 1 ELSE 2) /\ Ran(j, 2)
    BY <2>1 DEF IInv, Order
  <2>3. ran[i] # 0
    BY <2>1, SchedulerAssumption DEF IInv, TypeOK, Calls, SchedulerAssumption
  <2>4. ASSUME TwoThreads PROVE FALSE
    <3>1. Len(ran) <= 2
      <4>1. ran # <<>>
        BY <2>1, Types
      <4>2. pc # "add"
        BY <4>1 DEF IInv, Phases, BootCode, Creating
      <4> QED BY <2>4, <4>2, Types DEF IInv, Rest, CountsUnfinished, TwoThreads
    <3>2. i = 1
      BY <3>1, Types
    <3>3. threadHead[1] \in Threads /\ threadHead[2] \in Threads
      BY <2>4, Types DEF TwoThreads
    <3>4. threadHead[1] = threadHead[2]
      BY <2>2, <2>3, <3>2, <3>3 DEF IInv, Order, Ran
    <3> QED BY <2>4, <3>4 DEF TwoThreads
  <2> QED BY <2>2, <2>4 DEF Ran
<1> QED BY <1>1, Invariance, PTL
=============================================================================
