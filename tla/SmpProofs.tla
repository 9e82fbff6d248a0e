------------------------------ MODULE SmpProofs ------------------------------
(***************************************************************************)
(* The safety of the start-up of Smp, for any number of processors whose   *)
(* ids are contiguous.                                                     *)
(*                                                                         *)
(* Three things keep the processors apart: the BSP has built its tables    *)
(* and initialised the heap before it releases anybody (BSPFirst), the     *)
(* mutex of paging.cpp (PagingLocked), and the turns: an AP has finished   *)
(* exactly when its id is below cpusStarted, and the one that is           *)
(* registering is the one whose id equals it (Turns).                      *)
(***************************************************************************)
EXTENDS Smp, TLAPS

(* The BSP never waits to be released, an AP never runs initSMP, and an AP *)
(* moves only once it has been released, by a BSP past its own start.      *)
BSPFirst ==
  /\ pc[BSP] \notin {"parked", "turn", "publish", "count", "counting", "idle"}
  /\ \A c \in APs : pc[c] \notin {"initNodes", "nodesAllocate", "wake"} \cup Up
  /\ \A c \in APs : pc[c] # "parked" =>
       pc[BSP] \in {"wake"} \cup Up /\ c \in goto_address
  /\ goto_address # {} => pc[BSP] \in {"wake"} \cup Up
  /\ pc[BSP] \in {"search", "mark", "fill", "wake"} \cup Up => heapReady

PagingLocked ==
  /\ \A c \in CPUs : pc[c] \in InPaging => pagingMutex = 1
  /\ \A c, d \in CPUs : pc[c] \in InPaging /\ pc[d] \in InPaging => c = d

Turns ==
  /\ cpusStarted \in 1 .. cpu_count
  /\ \A c \in APs : pc[c] = "idle" <=> lapic_id[c] < cpusStarted
  /\ \A c \in APs : pc[c] \in InTurn => lapic_id[c] = cpusStarted
  /\ \A c \in APs : pc[c] = "counting" => loaded[c] = cpusStarted
  /\ pc[BSP] \in Up => cpusStarted = cpu_count

(* The frame being handed out is still the next one, hence new.            *)
FreshFrames ==
  /\ \A c \in CPUs : pc[c] \in Allocating => cursor[c] = nextFrame
  /\ \A c \in CPUs : root[c] < nextFrame

(* From init() on, and until it unlocks, the global PML4 is the table of   *)
(* the processor in initPaging, by one address or the other.               *)
Tables ==
  /\ \A c \in CPUs : pc[c] \in {"map", "lower", "lowerAllocates", "paged"} =>
       PML4 = Physical(root[c])
  /\ \A c \in CPUs : pc[c] \in {"walk", "walkAllocates", "walked"} =>
       PML4 = Virtual(root[c]) /\ PML4x[c] = Physical(root[c])
  /\ \A c \in CPUs : pc[c] = "paged" => cr3[c] = root[c]
  /\ \A c \in CPUs : pc[c] \in {"parked", "initPaging", "init", "initAllocates"} =>
       cr3[c] = 0

(* Inside map() the loop of initPaging has not ended.                      *)
MapLoop ==
  \A c \in CPUs :
     pc[c] \in {"walk", "walkAllocates", "walked", "lower", "lowerAllocates"} =>
       maps[c] < MAPS

IInv ==
  /\ TypeOK
  /\ MapLoop
  /\ BSPFirst
  /\ PagingLocked
  /\ Turns
  /\ FreshFrames
  /\ Tables
  /\ OwnTables
  /\ PML4Settled

LEMMA Alone == 
  ASSUME IInv, ContiguousIds
  PROVE  AllocatesAlone /\ RegistersAlone /\ ReturnsWhenAllStarted
<1> USE DEF APs, BSP
<1>1. \A c \in APs : lapic_id[c] \in 1 .. cpu_count - 1
  BY DEF ContiguousIds
<1>2. RegistersAlone
  <2> SUFFICES ASSUME NEW c \in CPUs, NEW d \in CPUs, pc[c] \in InTurn, pc[d] \in InTurn
               PROVE  c = d
    BY DEF RegistersAlone
  <2>1. CASE c \in APs /\ d \in APs
    BY <2>1 DEF IInv, Turns, ContiguousIds
  <2>2. CASE c \notin APs \/ d \notin APs
    BY <2>2 DEF IInv, BSPFirst, InTurn, InMallocx, Up
  <2> QED BY <2>1, <2>2
<1>3. ReturnsWhenAllStarted
  <2> SUFFICES ASSUME pc[BSP] \in Up, NEW c \in APs
               PROVE  cpusStarted = cpu_count /\ pc[c] = "idle"
    BY DEF ReturnsWhenAllStarted, IInv, Turns
  <2>1. cpusStarted = cpu_count /\ lapic_id[c] \in 1 .. cpu_count - 1
    BY <1>1 DEF IInv, Turns
  <2>2. lapic_id[c] < cpusStarted
    BY <2>1, SmpAssumption DEF SmpAssumption
  <2> QED BY <2>1, <2>2 DEF IInv, Turns
<1>4. AllocatesAlone
  <2> SUFFICES ASSUME NEW c \in CPUs, NEW d \in CPUs,
                      pc[c] \in Allocating, pc[d] \in Allocating
               PROVE  c = d
    BY DEF AllocatesAlone
  <2>1. CASE pc[c] \in InPaging /\ pc[d] \in InPaging
    BY <2>1 DEF IInv, PagingLocked
  <2>2. CASE pc[c] \notin InPaging \/ pc[d] \notin InPaging
    <3>1. \A e \in APs : pc[e] \in Allocating => pc[e] \in InPaging /\ pc[e] # "idle" /\ pc[e] # "parked"
      BY DEF IInv, BSPFirst, Allocating, InPaging, Up
    <3>2. pc[BSP] \in Allocating /\ pc[BSP] \notin InPaging => pc[BSP] \in Up \cup {"nodesAllocate"}
      BY DEF Allocating, InPaging, Up
    <3>3. ASSUME pc[BSP] \in Allocating \ InPaging, NEW e \in APs PROVE pc[e] \notin Allocating
      BY <1>3, <3>1, <3>2, <3>3 DEF IInv, BSPFirst, ReturnsWhenAllStarted, Up
    <3> QED BY <2>2, <3>1, <3>3
  <2> QED BY <2>1, <2>2
<1> QED BY <1>2, <1>3, <1>4

LEMMA InitStep == ContiguousIds /\ Init => IInv
<1> SUFFICES ASSUME ContiguousIds, Init PROVE IInv
  OBVIOUS
<1> USE SmpAssumption DEF SmpAssumption, Init, CPUs, APs, BSP, Physical, NULL
<1>1. TypeOK
  <2>1. /\ record \in [1 .. 3 -> [lapicID : Nat, cpuNumber : Nat]]
        /\ PML4 \in [frame : Nat, virtual : BOOLEAN]
        /\ PML4x \in [CPUs -> [frame : Nat, virtual : BOOLEAN]]
    OBVIOUS
  <2>2. pc \in [CPUs -> {"parked", "initPaging", "turn", "wake", "idle"}
                        \cup InPaging \cup InTurn \cup Up]
    OBVIOUS
  <2>3. /\ maps \in [CPUs -> 0 .. MAPS] /\ block \in [CPUs -> 0 .. 3]
        /\ cpuInformation \in [CPUs -> 0 .. 3]
    OBVIOUS
  <2>4. /\ cursor \in [CPUs -> Nat] /\ root \in [CPUs -> Nat]
        /\ cr3 \in [CPUs -> Nat] /\ loaded \in [CPUs -> Nat]
    OBVIOUS
  <2>5. /\ nextFrame \in Nat \ {0} /\ cpusStarted \in Nat /\ heapCalls \in Nat
        /\ pagingMutex \in {0, 1} /\ heapMutex \in {0, 1}
        /\ goto_address \subseteq APs
    OBVIOUS
  <2>6. heapReady \in BOOLEAN
    OBVIOUS
  <2> HIDE DEF Init
  <2> QED BY <2>1, <2>2, <2>3, <2>4, <2>5, <2>6 DEF TypeOK
<1>2. MapLoop /\ BSPFirst /\ PagingLocked
  BY DEF MapLoop, BSPFirst, PagingLocked, InPaging, Up
<1>3. Turns
  BY DEF Turns, ContiguousIds, InTurn, InMallocx, Up
<1>4. FreshFrames /\ Tables /\ OwnTables /\ PML4Settled
  BY DEF FreshFrames, Tables, OwnTables, PML4Settled, Allocating
<1> QED BY <1>1, <1>2, <1>3, <1>4 DEF IInv

-----------------------------------------------------------------------------
(* One lemma for each action, with one step for each part of IInv it can   *)
(* disturb.                                                                *)

LEMMA LockPagingStep ==
  ASSUME IInv, ContiguousIds, NEW c \in CPUs, LockPaging(c)
  PROVE  IInv'
<1> USE SmpAssumption
    DEF LockPaging, Move, FrameRead, FrameTaken, Physical, Virtual, BSP, APs,
        InPaging, InTurn, InMallocx, Up, Allocating, frameVars, pagingVars,
        heapVars, infoVars, SmpAssumption, IInv, TypeOK
<1>1. TypeOK' /\ MapLoop'
  BY DEF MapLoop, PagingLocked
<1>2. BSPFirst' /\ PagingLocked'
  BY DEF BSPFirst, PagingLocked
<1>3. Turns'
  BY DEF BSPFirst, Turns, ContiguousIds
<1>4. FreshFrames'
  BY Alone DEF FreshFrames, AllocatesAlone, PagingLocked
<1>5. Tables'
  BY DEF Tables, PagingLocked
<1>6. OwnTables' /\ PML4Settled'
  BY DEF OwnTables, PML4Settled, Tables, PagingLocked, FreshFrames
<1> QED BY <1>1, <1>2, <1>3, <1>4, <1>5, <1>6

LEMMA InitReadsFrameStep ==
  ASSUME IInv, ContiguousIds, NEW c \in CPUs, InitReadsFrame(c)
  PROVE  IInv'
<1> USE SmpAssumption
    DEF InitReadsFrame, Move, FrameRead, FrameTaken, Physical, Virtual, BSP, APs,
        InPaging, InTurn, InMallocx, Up, Allocating, frameVars, pagingVars,
        heapVars, infoVars, SmpAssumption, IInv, TypeOK
<1>1. TypeOK' /\ MapLoop'
  BY DEF MapLoop, PagingLocked
<1>2. BSPFirst' /\ PagingLocked'
  BY DEF BSPFirst, PagingLocked
<1>3. Turns'
  BY DEF BSPFirst, Turns, ContiguousIds
<1>4. FreshFrames'
  BY Alone DEF FreshFrames, AllocatesAlone, PagingLocked
<1>5. Tables'
  BY DEF Tables, PagingLocked
<1>6. OwnTables' /\ PML4Settled'
  BY DEF OwnTables, PML4Settled, Tables, PagingLocked, FreshFrames
<1> QED BY <1>1, <1>2, <1>3, <1>4, <1>5, <1>6

LEMMA InitTakesFrameStep ==
  ASSUME IInv, ContiguousIds, NEW c \in CPUs, InitTakesFrame(c)
  PROVE  IInv'
<1> USE SmpAssumption
    DEF InitTakesFrame, Move, FrameRead, FrameTaken, Physical, Virtual, BSP, APs,
        InPaging, InTurn, InMallocx, Up, Allocating, frameVars, pagingVars,
        heapVars, infoVars, SmpAssumption, IInv, TypeOK
<1>1. TypeOK' /\ MapLoop'
  BY DEF MapLoop, PagingLocked
<1>2. BSPFirst' /\ PagingLocked'
  BY DEF BSPFirst, PagingLocked
<1>3. Turns'
  BY DEF BSPFirst, Turns, ContiguousIds
<1>4. FreshFrames'
  BY Alone DEF FreshFrames, AllocatesAlone, PagingLocked
<1>5. Tables'
  BY DEF Tables, PagingLocked
<1>6. OwnTables' /\ PML4Settled'
  BY DEF OwnTables, PML4Settled, Tables, PagingLocked, FreshFrames
<1> QED BY <1>1, <1>2, <1>3, <1>4, <1>5, <1>6

LEMMA MapEntersStep ==
  ASSUME IInv, ContiguousIds, NEW c \in CPUs, MapEnters(c)
  PROVE  IInv'
<1> USE SmpAssumption
    DEF MapEnters, Move, FrameRead, FrameTaken, Physical, Virtual, BSP, APs,
        InPaging, InTurn, InMallocx, Up, Allocating, frameVars, pagingVars,
        heapVars, infoVars, SmpAssumption, IInv, TypeOK
<1>1. TypeOK' /\ MapLoop'
  BY DEF MapLoop, PagingLocked
<1>2. BSPFirst' /\ PagingLocked'
  BY DEF BSPFirst, PagingLocked
<1>3. Turns'
  BY DEF BSPFirst, Turns, ContiguousIds
<1>4. FreshFrames'
  BY Alone DEF FreshFrames, AllocatesAlone, PagingLocked
<1>5. Tables'
  <2>1. PML4 = Physical(root[c])
    BY DEF Tables
  <2>2. PML4.frame = root[c]
    BY <2>1
  <2>3. PML4' = Virtual(root[c]) /\ PML4x'[c] = Physical(root[c])
    BY <2>1, <2>2
  <2> QED BY <2>3 DEF Tables, PagingLocked
<1>6. OwnTables' /\ PML4Settled'
  BY DEF OwnTables, PML4Settled, Tables, PagingLocked, FreshFrames
<1> QED BY <1>1, <1>2, <1>3, <1>4, <1>5, <1>6

LEMMA WalkReadsFrameStep ==
  ASSUME IInv, ContiguousIds, NEW c \in CPUs, WalkReadsFrame(c)
  PROVE  IInv'
<1> USE SmpAssumption
    DEF WalkReadsFrame, Move, FrameRead, FrameTaken, Physical, Virtual, BSP, APs,
        InPaging, InTurn, InMallocx, Up, Allocating, frameVars, pagingVars,
        heapVars, infoVars, SmpAssumption, IInv, TypeOK
<1>1. TypeOK' /\ MapLoop'
  BY DEF MapLoop, PagingLocked
<1>2. BSPFirst' /\ PagingLocked'
  BY DEF BSPFirst, PagingLocked
<1>3. Turns'
  BY DEF BSPFirst, Turns, ContiguousIds
<1>4. FreshFrames'
  BY Alone DEF FreshFrames, AllocatesAlone, PagingLocked
<1>5. Tables'
  BY DEF Tables, PagingLocked
<1>6. OwnTables' /\ PML4Settled'
  BY DEF OwnTables, PML4Settled, Tables, PagingLocked, FreshFrames
<1> QED BY <1>1, <1>2, <1>3, <1>4, <1>5, <1>6

LEMMA WalkTakesFrameStep ==
  ASSUME IInv, ContiguousIds, NEW c \in CPUs, WalkTakesFrame(c)
  PROVE  IInv'
<1> USE SmpAssumption
    DEF WalkTakesFrame, Move, FrameRead, FrameTaken, Physical, Virtual, BSP, APs,
        InPaging, InTurn, InMallocx, Up, Allocating, frameVars, pagingVars,
        heapVars, infoVars, SmpAssumption, IInv, TypeOK
<1>1. TypeOK' /\ MapLoop'
  BY DEF MapLoop, PagingLocked
<1>2. BSPFirst' /\ PagingLocked'
  BY DEF BSPFirst, PagingLocked
<1>3. Turns'
  BY DEF BSPFirst, Turns, ContiguousIds
<1>4. FreshFrames'
  BY Alone DEF FreshFrames, AllocatesAlone, PagingLocked
<1>5. Tables'
  BY DEF Tables, PagingLocked
<1>6. OwnTables' /\ PML4Settled'
  BY DEF OwnTables, PML4Settled, Tables, PagingLocked, FreshFrames
<1> QED BY <1>1, <1>2, <1>3, <1>4, <1>5, <1>6

LEMMA WalkFindsTableStep ==
  ASSUME IInv, ContiguousIds, NEW c \in CPUs, WalkFindsTable(c)
  PROVE  IInv'
<1> USE SmpAssumption
    DEF WalkFindsTable, Move, FrameRead, FrameTaken, Physical, Virtual, BSP, APs,
        InPaging, InTurn, InMallocx, Up, Allocating, frameVars, pagingVars,
        heapVars, infoVars, SmpAssumption, IInv, TypeOK
<1>1. TypeOK' /\ MapLoop'
  BY DEF MapLoop, PagingLocked
<1>2. BSPFirst' /\ PagingLocked'
  BY DEF BSPFirst, PagingLocked
<1>3. Turns'
  BY DEF BSPFirst, Turns, ContiguousIds
<1>4. FreshFrames'
  BY Alone DEF FreshFrames, AllocatesAlone, PagingLocked
<1>5. Tables'
  BY DEF Tables, PagingLocked
<1>6. OwnTables' /\ PML4Settled'
  BY DEF OwnTables, PML4Settled, Tables, PagingLocked, FreshFrames
<1> QED BY <1>1, <1>2, <1>3, <1>4, <1>5, <1>6

LEMMA WalkRestoresStep ==
  ASSUME IInv, ContiguousIds, NEW c \in CPUs, WalkRestores(c)
  PROVE  IInv'
<1> USE SmpAssumption
    DEF WalkRestores, Move, FrameRead, FrameTaken, Physical, Virtual, BSP, APs,
        InPaging, InTurn, InMallocx, Up, Allocating, frameVars, pagingVars,
        heapVars, infoVars, SmpAssumption, IInv, TypeOK
<1>1. TypeOK' /\ MapLoop'
  BY DEF MapLoop, PagingLocked
<1>2. BSPFirst' /\ PagingLocked'
  BY DEF BSPFirst, PagingLocked
<1>3. Turns'
  BY DEF BSPFirst, Turns, ContiguousIds
<1>4. FreshFrames'
  BY Alone DEF FreshFrames, AllocatesAlone, PagingLocked
<1>5. Tables'
  BY DEF Tables, PagingLocked
<1>6. OwnTables' /\ PML4Settled'
  BY DEF OwnTables, PML4Settled, Tables, PagingLocked, FreshFrames
<1> QED BY <1>1, <1>2, <1>3, <1>4, <1>5, <1>6

LEMMA LowerReadsFrameStep ==
  ASSUME IInv, ContiguousIds, NEW c \in CPUs, LowerReadsFrame(c)
  PROVE  IInv'
<1> USE SmpAssumption
    DEF LowerReadsFrame, Move, FrameRead, FrameTaken, Physical, Virtual, BSP, APs,
        InPaging, InTurn, InMallocx, Up, Allocating, frameVars, pagingVars,
        heapVars, infoVars, SmpAssumption, IInv, TypeOK
<1>1. TypeOK' /\ MapLoop'
  BY DEF MapLoop, PagingLocked
<1>2. BSPFirst' /\ PagingLocked'
  BY DEF BSPFirst, PagingLocked
<1>3. Turns'
  BY DEF BSPFirst, Turns, ContiguousIds
<1>4. FreshFrames'
  BY Alone DEF FreshFrames, AllocatesAlone, PagingLocked
<1>5. Tables'
  BY DEF Tables, PagingLocked
<1>6. OwnTables' /\ PML4Settled'
  BY DEF OwnTables, PML4Settled, Tables, PagingLocked, FreshFrames
<1> QED BY <1>1, <1>2, <1>3, <1>4, <1>5, <1>6

LEMMA LowerTakesFrameStep ==
  ASSUME IInv, ContiguousIds, NEW c \in CPUs, LowerTakesFrame(c)
  PROVE  IInv'
<1> USE SmpAssumption
    DEF LowerTakesFrame, Move, FrameRead, FrameTaken, Physical, Virtual, BSP, APs,
        InPaging, InTurn, InMallocx, Up, Allocating, frameVars, pagingVars,
        heapVars, infoVars, SmpAssumption, IInv, TypeOK
<1>1. TypeOK' /\ MapLoop'
  BY DEF MapLoop, PagingLocked
<1>2. BSPFirst' /\ PagingLocked'
  BY DEF BSPFirst, PagingLocked
<1>3. Turns'
  BY DEF BSPFirst, Turns, ContiguousIds
<1>4. FreshFrames'
  BY Alone DEF FreshFrames, AllocatesAlone, PagingLocked
<1>5. Tables'
  BY DEF Tables, PagingLocked
<1>6. OwnTables' /\ PML4Settled'
  BY DEF OwnTables, PML4Settled, Tables, PagingLocked, FreshFrames
<1> QED BY <1>1, <1>2, <1>3, <1>4, <1>5, <1>6

LEMMA LowerFindsTableStep ==
  ASSUME IInv, ContiguousIds, NEW c \in CPUs, LowerFindsTable(c)
  PROVE  IInv'
<1> USE SmpAssumption
    DEF LowerFindsTable, Move, FrameRead, FrameTaken, Physical, Virtual, BSP, APs,
        InPaging, InTurn, InMallocx, Up, Allocating, frameVars, pagingVars,
        heapVars, infoVars, SmpAssumption, IInv, TypeOK
<1>1. TypeOK' /\ MapLoop'
  BY DEF MapLoop, PagingLocked
<1>2. BSPFirst' /\ PagingLocked'
  BY DEF BSPFirst, PagingLocked
<1>3. Turns'
  BY DEF BSPFirst, Turns, ContiguousIds
<1>4. FreshFrames'
  BY Alone DEF FreshFrames, AllocatesAlone, PagingLocked
<1>5. Tables'
  BY DEF Tables, PagingLocked
<1>6. OwnTables' /\ PML4Settled'
  BY DEF OwnTables, PML4Settled, Tables, PagingLocked, FreshFrames
<1> QED BY <1>1, <1>2, <1>3, <1>4, <1>5, <1>6

LEMMA WriteCr3Step ==
  ASSUME IInv, ContiguousIds, NEW c \in CPUs, WriteCr3(c)
  PROVE  IInv'
<1> USE SmpAssumption
    DEF WriteCr3, Move, FrameRead, FrameTaken, Physical, Virtual, BSP, APs,
        InPaging, InTurn, InMallocx, Up, Allocating, frameVars, pagingVars,
        heapVars, infoVars, SmpAssumption, IInv, TypeOK
<1>1. TypeOK' /\ MapLoop'
  BY DEF MapLoop, PagingLocked
<1>2. BSPFirst' /\ PagingLocked'
  BY DEF BSPFirst, PagingLocked
<1>3. Turns'
  BY DEF BSPFirst, Turns, ContiguousIds
<1>4. FreshFrames'
  BY Alone DEF FreshFrames, AllocatesAlone, PagingLocked
<1>5. Tables'
  BY DEF Tables, PagingLocked
<1>6. OwnTables' /\ PML4Settled'
  BY DEF OwnTables, PML4Settled, Tables, PagingLocked, FreshFrames
<1> QED BY <1>1, <1>2, <1>3, <1>4, <1>5, <1>6

LEMMA UnlockPagingStep ==
  ASSUME IInv, ContiguousIds, NEW c \in CPUs, UnlockPaging(c)
  PROVE  IInv'
<1> USE SmpAssumption
    DEF UnlockPaging, Move, FrameRead, FrameTaken, Physical, Virtual, BSP, APs,
        InPaging, InTurn, InMallocx, Up, Allocating, frameVars, pagingVars,
        heapVars, infoVars, SmpAssumption, IInv, TypeOK
<1>1. TypeOK' /\ MapLoop'
  BY DEF MapLoop, PagingLocked
<1>2. BSPFirst' /\ PagingLocked'
  BY DEF BSPFirst, PagingLocked
<1>3. Turns'
  BY DEF BSPFirst, Turns, ContiguousIds
<1>4. FreshFrames'
  BY Alone DEF FreshFrames, AllocatesAlone, PagingLocked
<1>5. Tables'
  BY DEF Tables, PagingLocked
<1>6. OwnTables' /\ PML4Settled'
  BY DEF OwnTables, PML4Settled, Tables, PagingLocked, FreshFrames
<1> QED BY <1>1, <1>2, <1>3, <1>4, <1>5, <1>6

LEMMA LockHeapStep ==
  ASSUME IInv, ContiguousIds, NEW c \in CPUs, LockHeap(c)
  PROVE  IInv'
<1> USE SmpAssumption
    DEF LockHeap, Move, FrameRead, FrameTaken, Physical, Virtual, BSP, APs,
        InPaging, InTurn, InMallocx, Up, Allocating, frameVars, pagingVars,
        heapVars, infoVars, SmpAssumption, IInv, TypeOK
<1>1. TypeOK' /\ MapLoop'
  BY DEF MapLoop, PagingLocked
<1>2. BSPFirst' /\ PagingLocked'
  BY DEF BSPFirst, PagingLocked
<1>3. Turns'
  BY DEF BSPFirst, Turns, ContiguousIds
<1>4. FreshFrames'
  BY Alone DEF FreshFrames, AllocatesAlone, PagingLocked
<1>5. Tables'
  BY DEF Tables, PagingLocked
<1>6. OwnTables' /\ PML4Settled'
  BY DEF OwnTables, PML4Settled, Tables, PagingLocked, FreshFrames
<1> QED BY <1>1, <1>2, <1>3, <1>4, <1>5, <1>6

LEMMA NodesReadFrameStep ==
  ASSUME IInv, ContiguousIds, NEW c \in CPUs, NodesReadFrame(c)
  PROVE  IInv'
<1> USE SmpAssumption
    DEF NodesReadFrame, Move, FrameRead, FrameTaken, Physical, Virtual, BSP, APs,
        InPaging, InTurn, InMallocx, Up, Allocating, frameVars, pagingVars,
        heapVars, infoVars, SmpAssumption, IInv, TypeOK
<1>1. TypeOK' /\ MapLoop'
  BY DEF MapLoop, PagingLocked
<1>2. BSPFirst' /\ PagingLocked'
  BY DEF BSPFirst, PagingLocked
<1>3. Turns'
  BY DEF BSPFirst, Turns, ContiguousIds
<1>4. FreshFrames'
  BY Alone DEF FreshFrames, AllocatesAlone, PagingLocked
<1>5. Tables'
  BY DEF Tables, PagingLocked
<1>6. OwnTables' /\ PML4Settled'
  BY DEF OwnTables, PML4Settled, Tables, PagingLocked, FreshFrames
<1> QED BY <1>1, <1>2, <1>3, <1>4, <1>5, <1>6

LEMMA NodesTakeFrameStep ==
  ASSUME IInv, ContiguousIds, NEW c \in CPUs, NodesTakeFrame(c)
  PROVE  IInv'
<1> USE SmpAssumption
    DEF NodesTakeFrame, Move, FrameRead, FrameTaken, Physical, Virtual, BSP, APs,
        InPaging, InTurn, InMallocx, Up, Allocating, frameVars, pagingVars,
        heapVars, infoVars, SmpAssumption, IInv, TypeOK
<1>1. TypeOK' /\ MapLoop'
  BY DEF MapLoop, PagingLocked
<1>2. BSPFirst' /\ PagingLocked'
  BY DEF BSPFirst, PagingLocked
<1>3. Turns'
  BY DEF BSPFirst, Turns, ContiguousIds
<1>4. FreshFrames'
  BY Alone DEF FreshFrames, AllocatesAlone, PagingLocked
<1>5. Tables'
  BY DEF Tables, PagingLocked
<1>6. OwnTables' /\ PML4Settled'
  BY DEF OwnTables, PML4Settled, Tables, PagingLocked, FreshFrames
<1> QED BY <1>1, <1>2, <1>3, <1>4, <1>5, <1>6

LEMMA SearchUnlocksStep ==
  ASSUME IInv, ContiguousIds, NEW c \in CPUs, SearchUnlocks(c)
  PROVE  IInv'
<1> USE SmpAssumption
    DEF SearchUnlocks, Move, FrameRead, FrameTaken, Physical, Virtual, BSP, APs,
        InPaging, InTurn, InMallocx, Up, Allocating, frameVars, pagingVars,
        heapVars, infoVars, SmpAssumption, IInv, TypeOK, BlockOf
<1>1. TypeOK' /\ MapLoop'
  BY DEF MapLoop, PagingLocked
<1>2. BSPFirst' /\ PagingLocked'
  BY DEF BSPFirst, PagingLocked
<1>3. Turns'
  BY DEF BSPFirst, Turns, ContiguousIds
<1>4. FreshFrames'
  BY Alone DEF FreshFrames, AllocatesAlone, PagingLocked
<1>5. Tables'
  BY DEF Tables, PagingLocked
<1>6. OwnTables' /\ PML4Settled'
  BY DEF OwnTables, PML4Settled, Tables, PagingLocked, FreshFrames
<1> QED BY <1>1, <1>2, <1>3, <1>4, <1>5, <1>6

LEMMA MarkUnlocksStep ==
  ASSUME IInv, ContiguousIds, NEW c \in CPUs, MarkUnlocks(c)
  PROVE  IInv'
<1> USE SmpAssumption
    DEF MarkUnlocks, Move, FrameRead, FrameTaken, Physical, Virtual, BSP, APs,
        InPaging, InTurn, InMallocx, Up, Allocating, frameVars, pagingVars,
        heapVars, infoVars, SmpAssumption, IInv, TypeOK
<1>1. TypeOK' /\ MapLoop'
  BY DEF MapLoop, PagingLocked
<1>2. BSPFirst' /\ PagingLocked'
  BY DEF BSPFirst, PagingLocked
<1>3. Turns'
  BY DEF BSPFirst, Turns, ContiguousIds
<1>4. FreshFrames'
  BY Alone DEF FreshFrames, AllocatesAlone, PagingLocked
<1>5. Tables'
  BY DEF Tables, PagingLocked
<1>6. OwnTables' /\ PML4Settled'
  BY DEF OwnTables, PML4Settled, Tables, PagingLocked, FreshFrames
<1> QED BY <1>1, <1>2, <1>3, <1>4, <1>5, <1>6

LEMMA FillBSPStep ==
  ASSUME IInv, ContiguousIds, FillBSP
  PROVE  IInv'
<1> USE SmpAssumption
    DEF FillBSP, Move, FrameRead, FrameTaken, Physical, Virtual, BSP, APs,
        InPaging, InTurn, InMallocx, Up, Allocating, frameVars, pagingVars,
        heapVars, infoVars, SmpAssumption, IInv, TypeOK
<1>1. TypeOK' /\ MapLoop'
  BY DEF MapLoop, PagingLocked
<1>2. BSPFirst' /\ PagingLocked'
  BY DEF BSPFirst, PagingLocked
<1>3. Turns'
  BY DEF BSPFirst, Turns, ContiguousIds
<1>4. FreshFrames'
  BY Alone DEF FreshFrames, AllocatesAlone, PagingLocked
<1>5. Tables'
  BY DEF Tables, PagingLocked
<1>6. OwnTables' /\ PML4Settled'
  BY DEF OwnTables, PML4Settled, Tables, PagingLocked, FreshFrames
<1> QED BY <1>1, <1>2, <1>3, <1>4, <1>5, <1>6

LEMMA AllStartedStep ==
  ASSUME IInv, ContiguousIds, AllStarted
  PROVE  IInv'
<1> USE SmpAssumption
    DEF AllStarted, Move, FrameRead, FrameTaken, Physical, Virtual, BSP, APs,
        InPaging, InTurn, InMallocx, Up, Allocating, frameVars, pagingVars,
        heapVars, infoVars, SmpAssumption, IInv, TypeOK
<1>1. TypeOK' /\ MapLoop'
  BY DEF MapLoop, PagingLocked
<1>2. BSPFirst' /\ PagingLocked'
  BY DEF BSPFirst, PagingLocked
<1>3. Turns'
  BY DEF BSPFirst, Turns, ContiguousIds
<1>4. FreshFrames'
  BY Alone DEF FreshFrames, AllocatesAlone, PagingLocked
<1>5. Tables'
  BY DEF Tables, PagingLocked
<1>6. OwnTables' /\ PML4Settled'
  BY DEF OwnTables, PML4Settled, Tables, PagingLocked, FreshFrames
<1> QED BY <1>1, <1>2, <1>3, <1>4, <1>5, <1>6

LEMMA LaterReadsFrameStep ==
  ASSUME IInv, ContiguousIds, LaterReadsFrame
  PROVE  IInv'
<1> USE SmpAssumption
    DEF LaterReadsFrame, Move, FrameRead, FrameTaken, Physical, Virtual, BSP, APs,
        InPaging, InTurn, InMallocx, Up, Allocating, frameVars, pagingVars,
        heapVars, infoVars, SmpAssumption, IInv, TypeOK
<1>1. TypeOK' /\ MapLoop'
  BY DEF MapLoop, PagingLocked
<1>2. BSPFirst' /\ PagingLocked'
  BY DEF BSPFirst, PagingLocked
<1>3. Turns'
  BY DEF BSPFirst, Turns, ContiguousIds
<1>4. FreshFrames'
  BY Alone DEF FreshFrames, AllocatesAlone, PagingLocked
<1>5. Tables'
  BY DEF Tables, PagingLocked
<1>6. OwnTables' /\ PML4Settled'
  BY DEF OwnTables, PML4Settled, Tables, PagingLocked, FreshFrames
<1> QED BY <1>1, <1>2, <1>3, <1>4, <1>5, <1>6

LEMMA LaterTakesFrameStep ==
  ASSUME IInv, ContiguousIds, LaterTakesFrame
  PROVE  IInv'
<1> USE SmpAssumption
    DEF LaterTakesFrame, Move, FrameRead, FrameTaken, Physical, Virtual, BSP, APs,
        InPaging, InTurn, InMallocx, Up, Allocating, frameVars, pagingVars,
        heapVars, infoVars, SmpAssumption, IInv, TypeOK
<1>0. 0 \in CPUs /\ cursor[0] \in Nat /\ nextFrame \in Nat
  <2>1. 0 \in CPUs
    BY DEF CPUs
  <2> QED BY <2>1
<1>1. TypeOK' /\ MapLoop'
  BY <1>0 DEF MapLoop, PagingLocked
<1>2. BSPFirst' /\ PagingLocked'
  BY <1>0 DEF BSPFirst, PagingLocked
<1>3. Turns'
  BY <1>0 DEF BSPFirst, Turns, ContiguousIds
<1>4. FreshFrames'
  BY <1>0, Alone DEF FreshFrames, AllocatesAlone, PagingLocked
<1>5. Tables'
  BY <1>0 DEF Tables, PagingLocked
<1>6. OwnTables' /\ PML4Settled'
  BY <1>0 DEF OwnTables, PML4Settled, Tables, PagingLocked, FreshFrames
<1> QED BY <1>1, <1>2, <1>3, <1>4, <1>5, <1>6

LEMMA WakeStep ==
  ASSUME IInv, ContiguousIds, NEW c \in APs, Wake(c)
  PROVE  IInv'
<1> USE SmpAssumption
    DEF Wake, Move, FrameRead, FrameTaken, Physical, Virtual, BSP, APs,
        InPaging, InTurn, InMallocx, Up, Allocating, frameVars, pagingVars,
        heapVars, infoVars, SmpAssumption, IInv, TypeOK
<1>1. TypeOK' /\ MapLoop'
  BY DEF MapLoop, PagingLocked
<1>2. BSPFirst' /\ PagingLocked'
  BY DEF BSPFirst, PagingLocked
<1>3. Turns'
  BY DEF BSPFirst, Turns, ContiguousIds
<1>4. FreshFrames'
  BY Alone DEF FreshFrames, AllocatesAlone, PagingLocked
<1>5. Tables'
  BY DEF Tables, PagingLocked
<1>6. OwnTables' /\ PML4Settled'
  BY DEF OwnTables, PML4Settled, Tables, PagingLocked, FreshFrames
<1> QED BY <1>1, <1>2, <1>3, <1>4, <1>5, <1>6

LEMMA StartStep ==
  ASSUME IInv, ContiguousIds, NEW c \in CPUs, Start(c)
  PROVE  IInv'
<1> USE SmpAssumption
    DEF Start, Move, FrameRead, FrameTaken, Physical, Virtual, BSP, APs,
        InPaging, InTurn, InMallocx, Up, Allocating, frameVars, pagingVars,
        heapVars, infoVars, SmpAssumption, IInv, TypeOK
<1>1. TypeOK' /\ MapLoop'
  BY DEF MapLoop, PagingLocked
<1>2. BSPFirst' /\ PagingLocked'
  BY DEF BSPFirst, PagingLocked
<1>3. Turns'
  BY DEF BSPFirst, Turns, ContiguousIds
<1>4. FreshFrames'
  BY Alone DEF FreshFrames, AllocatesAlone, PagingLocked
<1>5. Tables'
  BY DEF Tables, PagingLocked
<1>6. OwnTables' /\ PML4Settled'
  BY DEF OwnTables, PML4Settled, Tables, PagingLocked, FreshFrames
<1> QED BY <1>1, <1>2, <1>3, <1>4, <1>5, <1>6

LEMMA TakeTurnStep ==
  ASSUME IInv, ContiguousIds, NEW c \in CPUs, TakeTurn(c)
  PROVE  IInv'
<1> USE SmpAssumption
    DEF TakeTurn, Move, FrameRead, FrameTaken, Physical, Virtual, BSP, APs,
        InPaging, InTurn, InMallocx, Up, Allocating, frameVars, pagingVars,
        heapVars, infoVars, SmpAssumption, IInv, TypeOK
<1>1. TypeOK' /\ MapLoop'
  BY DEF MapLoop, PagingLocked
<1>2. BSPFirst' /\ PagingLocked'
  BY DEF BSPFirst, PagingLocked
<1>3. Turns'
  <2>1. c \in APs /\ pc[c] = "turn"
    BY DEF BSPFirst
  <2>2. lapic_id[c] = cpusStarted
    <3>1. ~ (lapic_id[c] < cpusStarted)
      BY <2>1 DEF Turns
    <3>2. lapic_id[c] \in Nat /\ cpusStarted \in Nat /\ cpusStarted >= lapic_id[c]
      OBVIOUS
    
    <3> QED BY ONLY <3>1, <3>2
  <2> QED BY <2>1, <2>2 DEF Turns
<1>4. FreshFrames'
  BY Alone DEF FreshFrames, AllocatesAlone, PagingLocked
<1>5. Tables'
  BY DEF Tables, PagingLocked
<1>6. OwnTables' /\ PML4Settled'
  BY DEF OwnTables, PML4Settled, Tables, PagingLocked, FreshFrames
<1> QED BY <1>1, <1>2, <1>3, <1>4, <1>5, <1>6

LEMMA FillAPStep ==
  ASSUME IInv, ContiguousIds, NEW c \in CPUs, FillAP(c)
  PROVE  IInv'
<1> USE SmpAssumption
    DEF FillAP, Move, FrameRead, FrameTaken, Physical, Virtual, BSP, APs,
        InPaging, InTurn, InMallocx, Up, Allocating, frameVars, pagingVars,
        heapVars, infoVars, SmpAssumption, IInv, TypeOK
<1>1. TypeOK' /\ MapLoop'
  BY DEF MapLoop, PagingLocked
<1>2. BSPFirst' /\ PagingLocked'
  BY DEF BSPFirst, PagingLocked
<1>3. Turns'
  BY DEF BSPFirst, Turns, ContiguousIds
<1>4. FreshFrames'
  BY Alone DEF FreshFrames, AllocatesAlone, PagingLocked
<1>5. Tables'
  BY DEF Tables, PagingLocked
<1>6. OwnTables' /\ PML4Settled'
  BY DEF OwnTables, PML4Settled, Tables, PagingLocked, FreshFrames
<1> QED BY <1>1, <1>2, <1>3, <1>4, <1>5, <1>6

LEMMA PublishStep ==
  ASSUME IInv, ContiguousIds, NEW c \in CPUs, Publish(c)
  PROVE  IInv'
<1> USE SmpAssumption
    DEF Publish, Move, FrameRead, FrameTaken, Physical, Virtual, BSP, APs,
        InPaging, InTurn, InMallocx, Up, Allocating, frameVars, pagingVars,
        heapVars, infoVars, SmpAssumption, IInv, TypeOK
<1>1. TypeOK' /\ MapLoop'
  BY DEF MapLoop, PagingLocked
<1>2. BSPFirst' /\ PagingLocked'
  BY DEF BSPFirst, PagingLocked
<1>3. Turns'
  BY DEF BSPFirst, Turns, ContiguousIds
<1>4. FreshFrames'
  BY Alone DEF FreshFrames, AllocatesAlone, PagingLocked
<1>5. Tables'
  BY DEF Tables, PagingLocked
<1>6. OwnTables' /\ PML4Settled'
  BY DEF OwnTables, PML4Settled, Tables, PagingLocked, FreshFrames
<1> QED BY <1>1, <1>2, <1>3, <1>4, <1>5, <1>6

LEMMA CountLoadsStep ==
  ASSUME IInv, ContiguousIds, NEW c \in CPUs, CountLoads(c)
  PROVE  IInv'
<1> USE SmpAssumption
    DEF CountLoads, Move, FrameRead, FrameTaken, Physical, Virtual, BSP, APs,
        InPaging, InTurn, InMallocx, Up, Allocating, frameVars, pagingVars,
        heapVars, infoVars, SmpAssumption, IInv, TypeOK
<1>1. TypeOK' /\ MapLoop'
  BY DEF MapLoop, PagingLocked
<1>2. BSPFirst' /\ PagingLocked'
  BY DEF BSPFirst, PagingLocked
<1>3. Turns'
  BY DEF BSPFirst, Turns, ContiguousIds
<1>4. FreshFrames'
  BY Alone DEF FreshFrames, AllocatesAlone, PagingLocked
<1>5. Tables'
  BY DEF Tables, PagingLocked
<1>6. OwnTables' /\ PML4Settled'
  BY DEF OwnTables, PML4Settled, Tables, PagingLocked, FreshFrames
<1> QED BY <1>1, <1>2, <1>3, <1>4, <1>5, <1>6

LEMMA CountStoresStep ==
  ASSUME IInv, ContiguousIds, NEW c \in CPUs, CountStores(c)
  PROVE  IInv'
<1> USE SmpAssumption
    DEF CountStores, Move, FrameRead, FrameTaken, Physical, Virtual, BSP, APs,
        InPaging, InTurn, InMallocx, Up, Allocating, frameVars, pagingVars,
        heapVars, infoVars, SmpAssumption, IInv, TypeOK
<1>1. TypeOK' /\ MapLoop'
  BY DEF MapLoop, PagingLocked
<1>2. BSPFirst' /\ PagingLocked'
  BY DEF BSPFirst, PagingLocked
<1>3. Turns'
  <2>1. c \in APs /\ lapic_id[c] = cpusStarted /\ cpusStarted' = cpusStarted + 1
    BY DEF BSPFirst, Turns
  <2>2. cpusStarted' \in 1 .. cpu_count
    BY <2>1 DEF ContiguousIds
  <2>3. ASSUME NEW d \in APs
        PROVE  /\ pc'[d] = "idle" <=> lapic_id[d] < cpusStarted'
               /\ pc'[d] \in InTurn => lapic_id[d] = cpusStarted'
               /\ pc'[d] = "counting" => loaded'[d] = cpusStarted'
    <3>1. lapic_id[d] \in Nat /\ cpusStarted \in Nat
      BY <2>3
    <3>2. CASE d = c
      BY <2>1, <3>1, <3>2
    <3>3. CASE d # c
      <4>1. lapic_id[d] # cpusStarted
        BY <2>1, <3>3 DEF ContiguousIds
      <4>2. pc'[d] = pc[d] /\ pc[d] \notin InTurn /\ pc[d] # "counting"
        BY <3>3, <4>1 DEF Turns
      <4>3. pc[d] = "idle" <=> lapic_id[d] < cpusStarted
        BY DEF Turns
      <4>4. lapic_id[d] < cpusStarted <=> lapic_id[d] < cpusStarted + 1
        BY ONLY <3>1, <4>1
      <4> QED BY <2>1, <4>2, <4>3, <4>4
    <3> QED BY <3>2, <3>3
  <2>4. pc'[BSP] \notin Up
    BY <2>1 DEF Turns, ContiguousIds
  <2> QED BY <2>2, <2>3, <2>4 DEF Turns
<1>4. FreshFrames'
  BY Alone DEF FreshFrames, AllocatesAlone, PagingLocked
<1>5. Tables'
  BY DEF Tables, PagingLocked
<1>6. OwnTables' /\ PML4Settled'
  BY DEF OwnTables, PML4Settled, Tables, PagingLocked, FreshFrames
<1> QED BY <1>1, <1>2, <1>3, <1>4, <1>5, <1>6

-----------------------------------------------------------------------------

LEMMA NextStep == IInv /\ ContiguousIds /\ [Next]_vars => IInv'
<1> SUFFICES ASSUME IInv, ContiguousIds, [Next]_vars PROVE IInv'
  OBVIOUS
<1>1. CASE UNCHANGED vars
  <2> USE <1>1 DEF vars, frameVars, pagingVars, heapVars, infoVars
  <2>1. TypeOK' /\ MapLoop' /\ BSPFirst' /\ PagingLocked'
    BY DEF IInv, TypeOK, MapLoop, BSPFirst, PagingLocked
  <2>2. Turns' /\ FreshFrames' /\ Tables'
    BY DEF IInv, Turns, FreshFrames, Tables
  <2>3. OwnTables' /\ PML4Settled'
    BY DEF IInv, OwnTables, PML4Settled
  <2> QED BY <2>1, <2>2, <2>3 DEF IInv
<1>2. ASSUME NEW c \in CPUs, Paging(c) PROVE IInv'
  BY <1>2, LockPagingStep, InitReadsFrameStep, InitTakesFrameStep, MapEntersStep,
     WalkReadsFrameStep, WalkTakesFrameStep, WalkFindsTableStep, WalkRestoresStep,
     LowerReadsFrameStep, LowerTakesFrameStep, LowerFindsTableStep, WriteCr3Step,
     UnlockPagingStep DEF Paging
<1>3. ASSUME NEW c \in CPUs, Mallocx(c) PROVE IInv'
  BY <1>3, LockHeapStep, NodesReadFrameStep, NodesTakeFrameStep, SearchUnlocksStep,
     MarkUnlocksStep DEF Mallocx
<1>4. ASSUME InitSMP PROVE IInv'
  BY <1>4, FillBSPStep, AllStartedStep, LaterReadsFrameStep, LaterTakesFrameStep,
     WakeStep DEF InitSMP
<1>5. ASSUME NEW c \in CPUs, InitOtherCPUs(c) PROVE IInv'
  BY <1>5, StartStep, TakeTurnStep, FillAPStep, PublishStep,
     CountLoadsStep, CountStoresStep DEF InitOtherCPUs
<1> QED BY <1>1, <1>2, <1>3, <1>4, <1>5 DEF Next, Step

(* IInv is an invariant when the ids are contiguous.                       *)
THEOREM Invariance == ASSUME ContiguousIds PROVE Spec => []IInv
<1>1. Init => IInv
  BY InitStep
<1>2. IInv /\ [Next]_vars => IInv'
  BY NextStep
<1> QED BY <1>1, <1>2, PTL DEF Spec

(* Every variable keeps its type.                                          *)
THEOREM TypeCorrect == ASSUME ContiguousIds PROVE Spec => []TypeOK
<1>1. IInv => TypeOK
  BY DEF IInv
<1> QED BY <1>1, Invariance, PTL

(* allocateFrame takes no lock, yet no two processors are ever inside it.  *)
THEOREM AllocationsExclude == ASSUME ContiguousIds PROVE Spec => []AllocatesAlone
<1>1. IInv => AllocatesAlone
  BY Alone
<1> QED BY <1>1, Invariance, PTL

(* Every CR3 holds the table its own processor built.                      *)
THEOREM TablesAreOwn == ASSUME ContiguousIds PROVE Spec => []OwnTables
<1>1. IInv => OwnTables
  BY DEF IInv
<1> QED BY <1>1, Invariance, PTL

(* Whenever the mutex of paging.cpp is free the global PML4 is physical.   *)
THEOREM PML4Restored == ASSUME ContiguousIds PROVE Spec => []PML4Settled
<1>1. IInv => PML4Settled
  BY DEF IInv
<1> QED BY <1>1, Invariance, PTL

(* The processors register one at a time.                                  *)
THEOREM RegistrationExclusive == ASSUME ContiguousIds PROVE Spec => []RegistersAlone
<1>1. IInv => RegistersAlone
  BY Alone
<1> QED BY <1>1, Invariance, PTL

(* initSMP returns only when every processor has registered, once.         *)
THEOREM ReturnsComplete ==
  ASSUME ContiguousIds PROVE Spec => []ReturnsWhenAllStarted
<1>1. IInv => ReturnsWhenAllStarted
  BY Alone
<1> QED BY <1>1, Invariance, PTL
=============================================================================
