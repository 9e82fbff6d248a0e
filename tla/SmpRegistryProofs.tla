-------------------------- MODULE SmpRegistryProofs --------------------------
(***************************************************************************)
(* The registry of Smp: what getCPUInfo gives for the processors counted,  *)
(* for up to three of them.  From the fourth on they share a block, so the *)
(* bound is the code's, not the proof's.                                   *)
(***************************************************************************)
EXTENDS SmpProofs

Filling == {"fill", "publish", "count", "counting"}
Settled == {"wake"} \cup Up

(* The blocks handed out are one per processor counted, and one more while *)
(* an AP fills its own, which is the next.                                 *)
Blocks ==
  /\ pc[BSP] \notin Settled => cpusStarted = 1
  /\ pc[BSP] \notin Settled \cup {"fill"} => heapCalls = 0
  /\ pc[BSP] \in Settled \cup {"fill"} /\ (\A c \in APs : pc[c] \notin Filling) =>
       heapCalls = cpusStarted
  /\ \A c \in APs : pc[c] \in Filling => heapCalls = cpusStarted + 1
  /\ pc[BSP] \in {"mark", "fill"} => block[BSP] = 1
  /\ \A c \in APs : pc[c] \in {"mark"} \cup Filling => block[c] = cpusStarted + 1

CpuInfo(n) == [lapicID |-> n, cpuNumber |-> n]

(* What an AP has written is its own, and those counted are complete.      *)
Registry ==
  /\ \A c \in APs : pc[c] \in {"publish", "count", "counting"} =>
       record[cpusStarted + 1] = CpuInfo(cpusStarted)
  /\ \A c \in APs : pc[c] \in {"count", "counting"} =>
       cpuInformation[cpusStarted] = cpusStarted + 1
  /\ pc[BSP] \in Settled => \A n \in 0 .. cpusStarted - 1 :
       cpuInformation[n] = n + 1 /\ record[n + 1] = CpuInfo(n)

FewCPUs == ContiguousIds /\ cpu_count <= 3

RInv == IInv /\ Blocks /\ Registry

LEMMA RegistryInit == ASSUME FewCPUs, Init PROVE RInv
<1>1. IInv
  BY InitStep DEF FewCPUs
<1>2. pc = [c \in CPUs |-> IF c = 0 THEN "initPaging" ELSE "parked"] /\ 0 \in CPUs
  BY SmpAssumption DEF Init, BSP, CPUs
<1>3. Blocks
  BY <1>2 DEF Init, Blocks, Filling, Settled, Up, APs, BSP
<1>4. Registry
  BY <1>2 DEF Init, Registry, Settled, Up, APs, BSP
<1> QED
  BY <1>1, <1>3, <1>4 DEF RInv

(* While an AP is registering nobody else is, and its number is free.      *)
LEMMA Registering ==
  ASSUME FewCPUs, RInv, NEW c \in APs, pc[c] \in InTurn
  PROVE  /\ lapic_id[c] = cpusStarted /\ cpusStarted \in 1 .. cpu_count - 1
         /\ cpusStarted \in {1, 2} /\ cpusStarted \in CPUs
         /\ pc[BSP] \in Settled
         /\ \A d \in APs \ {c} : pc[d] \notin InTurn
<1>1. lapic_id[c] = cpusStarted
  BY DEF RInv, IInv, Turns
<1>2. cpusStarted \in 1 .. cpu_count - 1
  BY <1>1 DEF FewCPUs, ContiguousIds
<1>3. cpu_count \in Nat
  BY SmpAssumption
<1>4. cpusStarted \in {1, 2} /\ cpusStarted \in CPUs
  BY <1>2, <1>3 DEF FewCPUs, CPUs
<1>5. pc[BSP] \in Settled
  BY DEF RInv, IInv, BSPFirst, InTurn, InMallocx, Settled
<1>6. \A d \in APs \ {c} : pc[d] \notin InTurn
  BY Alone DEF RInv, RegistersAlone, FewCPUs, APs
<1> QED
  BY <1>1, <1>2, <1>4, <1>5, <1>6

-----------------------------------------------------------------------------
(* The steps that have nothing to do with the registry.                    *)

Special == {"mark"} \cup Filling \cup Settled

LEMMA Elsewhere ==
  ASSUME RInv, NEW c \in CPUs, NEW to, pc' = [pc EXCEPT ![c] = to],
         pc[c] \notin Special, to \notin Special,
         UNCHANGED <<heapCalls, block, record, cpuInformation, cpusStarted>>
  PROVE  Blocks' /\ Registry'
<1> USE DEF RInv, IInv, TypeOK, Special, Filling, Settled, Up, APs, BSP
<1>1. Blocks'
  BY DEF Blocks
<1>2. Registry'
  BY DEF Registry
<1> QED
  BY <1>1, <1>2

LEMMA BSPOnward ==
  ASSUME RInv, NEW to \in Settled, pc' = [pc EXCEPT ![BSP] = to], pc[BSP] \in Settled,
         UNCHANGED <<heapCalls, block, record, cpuInformation, cpusStarted>>
  PROVE  Blocks' /\ Registry'
<1> USE DEF RInv, IInv, TypeOK, Filling, Settled, Up, APs, BSP, CPUs
<1>1. Blocks'
  BY DEF Blocks
<1>2. Registry'
  BY DEF Registry
<1> QED
  BY <1>1, <1>2

LEMMA PagingKeeps ==
  ASSUME RInv, NEW c \in CPUs, Paging(c)
  PROVE  Blocks' /\ Registry'
<1>1. UNCHANGED <<heapCalls, block, record, cpuInformation, cpusStarted>>
  BY DEF Paging, LockPaging, InitReadsFrame, InitTakesFrame, MapEnters, WalkReadsFrame,
         WalkTakesFrame, WalkFindsTable, WalkRestores, LowerReadsFrame, LowerTakesFrame,
         LowerFindsTable, WriteCr3, UnlockPaging, heapVars, infoVars
<1>2. PICK from \in InPaging \cup {"initPaging"}, to \in InPaging \cup {"mallocx", "turn"} :
        Move(c, from, to)
  BY DEF Paging, LockPaging, InitReadsFrame, InitTakesFrame, MapEnters, WalkReadsFrame,
         WalkTakesFrame, WalkFindsTable, WalkRestores, LowerReadsFrame, LowerTakesFrame,
         LowerFindsTable, WriteCr3, UnlockPaging, InPaging
<1>3. from \notin Special /\ to \notin Special
  BY <1>2 DEF InPaging, Special, Filling, Settled, Up
<1> QED
  BY <1>1, <1>2, <1>3, Elsewhere DEF Move

-----------------------------------------------------------------------------
(* The steps of mallocx and of the registration.                           *)

LEMMA SearchKeeps ==
  ASSUME FewCPUs, RInv, NEW c \in CPUs, SearchUnlocks(c)
  PROVE  Blocks' /\ Registry'
<1> USE DEF RInv, IInv, TypeOK, Filling, Settled, Up, APs, BSP
<1>1. /\ pc[c] = "search" /\ pc' = [pc EXCEPT ![c] = "mark"]
      /\ block' = [block EXCEPT ![c] = BlockOf(heapCalls + 1)]
      /\ UNCHANGED <<heapCalls, record, cpuInformation, cpusStarted>>
  BY DEF SearchUnlocks, Move, infoVars
<1>2. CASE c = BSP
  <2>1. heapCalls = 0 /\ block'[BSP] = 1
    BY <1>1, <1>2 DEF Blocks, BlockOf
  <2>2. \A d \in APs : pc[d] = "parked"
    BY <1>1, <1>2 DEF BSPFirst
  <2>3. Blocks'
    BY <1>1, <1>2, <2>1, <2>2 DEF Blocks
  <2>4. Registry'
    BY <1>1, <1>2, <2>2 DEF Registry
  <2> QED
    BY <2>3, <2>4
<1>3. CASE c # BSP
  <2>1. /\ cpusStarted \in {1, 2} /\ pc[BSP] \in Settled
        /\ \A d \in APs \ {c} : pc[d] \notin InTurn
    BY <1>1, <1>3, Registering DEF InTurn, InMallocx
  <2>2. heapCalls = cpusStarted
    BY <1>1, <2>1 DEF Blocks, InTurn
  <2>3. block'[c] = cpusStarted + 1
    BY <1>1, <2>1, <2>2 DEF BlockOf
  <2>4. Blocks'
    BY <1>1, <1>3, <2>1, <2>2, <2>3 DEF Blocks, InTurn, InMallocx
  <2>5. Registry'
    BY <1>1, <1>3 DEF Registry
  <2> QED
    BY <2>4, <2>5
<1> QED
  BY <1>2, <1>3

LEMMA MarkKeeps ==
  ASSUME FewCPUs, RInv, NEW c \in CPUs, MarkUnlocks(c)
  PROVE  Blocks' /\ Registry'
<1> USE DEF RInv, IInv, TypeOK, Filling, Settled, Up, APs, BSP
<1>1. /\ pc[c] = "mark" /\ pc' = [pc EXCEPT ![c] = "fill"]
      /\ heapCalls' = heapCalls + 1
      /\ UNCHANGED <<block, record, cpuInformation, cpusStarted>>
  BY DEF MarkUnlocks, Move, infoVars
<1>2. CASE c = BSP
  <2>1. heapCalls = 0 /\ cpusStarted = 1
    BY <1>1, <1>2 DEF Blocks
  <2>2. \A d \in APs : pc[d] = "parked"
    BY <1>1, <1>2 DEF BSPFirst
  <2>3. Blocks'
    BY <1>1, <1>2, <2>1, <2>2 DEF Blocks
  <2>4. Registry'
    BY <1>1, <1>2, <2>2 DEF Registry
  <2> QED
    BY <2>3, <2>4
<1>3. CASE c # BSP
  <2>1. /\ pc[BSP] \in Settled
        /\ \A d \in APs \ {c} : pc[d] \notin InTurn
    BY <1>1, <1>3, Registering DEF InTurn, InMallocx
  <2>2. heapCalls = cpusStarted
    BY <1>1, <2>1 DEF Blocks, InTurn
  <2>3. Blocks'
    BY <1>1, <1>3, <2>1, <2>2 DEF Blocks, InTurn, InMallocx
  <2>4. Registry'
    BY <1>1, <1>3 DEF Registry
  <2> QED
    BY <2>3, <2>4
<1> QED
  BY <1>2, <1>3

LEMMA FillBSPKeeps ==
  ASSUME RInv, FillBSP
  PROVE  Blocks' /\ Registry'
<1> USE DEF RInv, IInv, TypeOK, Filling, Settled, Up, APs, BSP
<1>1. /\ pc[0] = "fill" /\ pc' = [pc EXCEPT ![0] = "wake"]
      /\ record' = [record EXCEPT ![block[0]] = CpuInfo(0)]
      /\ cpuInformation' = [cpuInformation EXCEPT ![0] = block[0]]
      /\ UNCHANGED <<heapCalls, block, cpusStarted>>
  BY DEF FillBSP, Move, heapVars, CpuInfo
<1>2. 0 \in CPUs
  BY SmpAssumption DEF CPUs
<1>3. block[0] = 1 /\ cpusStarted = 1 /\ \A d \in APs : pc[d] = "parked"
  BY <1>1 DEF Blocks, BSPFirst
<1>4. Blocks'
  BY <1>1, <1>2, <1>3 DEF Blocks
<1>5. cpuInformation'[0] = 1 /\ record'[1] = CpuInfo(0)
  BY <1>1, <1>2, <1>3
<1>6. Registry'
  BY <1>1, <1>2, <1>3, <1>5 DEF Registry
<1> QED
  BY <1>4, <1>6

LEMMA FillAPKeeps ==
  ASSUME FewCPUs, RInv, NEW c \in CPUs, FillAP(c)
  PROVE  Blocks' /\ Registry'
<1> USE DEF RInv, IInv, TypeOK, Filling, Settled, Up, APs, BSP
<1>1. /\ c \in APs /\ pc[c] = "fill" /\ pc' = [pc EXCEPT ![c] = "publish"]
      /\ record' = [record EXCEPT ![block[c]] =
                      [lapicID |-> lapic_id[c], cpuNumber |-> cpusStarted]]
      /\ UNCHANGED <<heapCalls, block, cpuInformation, cpusStarted>>
  BY DEF FillAP, Move, heapVars
<1>2. /\ lapic_id[c] = cpusStarted /\ cpusStarted \in {1, 2} /\ pc[BSP] \in Settled
      /\ \A d \in APs \ {c} : pc[d] \notin InTurn
  BY <1>1, Registering DEF InTurn
<1>3. block[c] = cpusStarted + 1
  BY <1>1 DEF Blocks
<1>4. record' = [record EXCEPT ![cpusStarted + 1] = CpuInfo(cpusStarted)]
  BY <1>1, <1>2, <1>3 DEF CpuInfo
<1>5. Blocks'
  BY <1>1, <1>2 DEF Blocks, InTurn
<1>6. Registry'
  <2>1. record'[cpusStarted + 1] = CpuInfo(cpusStarted)
    BY <1>2, <1>4
  <2>2. \A n \in 0 .. cpusStarted - 1 : record'[n + 1] = record[n + 1]
    BY <1>2, <1>4
  <2> QED
    BY <1>1, <1>2, <2>1, <2>2 DEF Registry, InTurn
<1> QED
  BY <1>5, <1>6

LEMMA PublishKeeps ==
  ASSUME FewCPUs, RInv, NEW c \in CPUs, Publish(c)
  PROVE  Blocks' /\ Registry'
<1> USE DEF RInv, IInv, TypeOK, Filling, Settled, Up, APs, BSP
<1>1. /\ pc[c] = "publish" /\ pc' = [pc EXCEPT ![c] = "count"]
      /\ cpuInformation' = [cpuInformation EXCEPT ![record[block[c]].cpuNumber] = block[c]]
      /\ UNCHANGED <<heapCalls, block, record, cpusStarted>>
  BY DEF Publish, Move, heapVars
<1>2. c \in APs
  BY <1>1 DEF BSPFirst
<1>3. /\ cpusStarted \in {1, 2} /\ cpusStarted \in CPUs /\ pc[BSP] \in Settled
      /\ \A d \in APs \ {c} : pc[d] \notin InTurn
  BY <1>1, <1>2, Registering DEF InTurn
<1>4. block[c] = cpusStarted + 1 /\ record[block[c]].cpuNumber = cpusStarted
  BY <1>1, <1>2 DEF Blocks, Registry, CpuInfo
<1>5. cpuInformation' = [cpuInformation EXCEPT ![cpusStarted] = cpusStarted + 1]
  BY <1>1, <1>4
<1>6. Blocks'
  BY <1>1, <1>2, <1>3 DEF Blocks, InTurn
<1>7. Registry'
  <2>1. cpuInformation'[cpusStarted] = cpusStarted + 1
    BY <1>3, <1>5
  <2>2. \A n \in 0 .. cpusStarted - 1 : cpuInformation'[n] = cpuInformation[n]
    BY <1>3, <1>5
  <2> QED
    BY <1>1, <1>2, <1>3, <2>1, <2>2 DEF Registry, InTurn
<1> QED
  BY <1>6, <1>7

LEMMA CountLoadsKeeps ==
  ASSUME RInv, NEW c \in CPUs, CountLoads(c)
  PROVE  Blocks' /\ Registry'
<1> USE DEF RInv, IInv, TypeOK, Filling, Settled, Up, APs, BSP
<1>1. /\ pc[c] = "count" /\ pc' = [pc EXCEPT ![c] = "counting"] /\ c \in APs
      /\ UNCHANGED <<heapCalls, block, record, cpuInformation, cpusStarted>>
  BY DEF CountLoads, Move, heapVars, BSPFirst
<1>2. Blocks'
  BY <1>1 DEF Blocks
<1>3. Registry'
  BY <1>1 DEF Registry
<1> QED
  BY <1>2, <1>3

LEMMA CountStoresKeeps ==
  ASSUME FewCPUs, RInv, NEW c \in CPUs, CountStores(c)
  PROVE  Blocks' /\ Registry'
<1> USE DEF RInv, IInv, TypeOK, Filling, Settled, Up, APs, BSP
<1>1. /\ pc[c] = "counting" /\ pc' = [pc EXCEPT ![c] = "idle"]
      /\ cpusStarted' = loaded[c] + 1
      /\ UNCHANGED <<heapCalls, block, record, cpuInformation>>
  BY DEF CountStores, Move, heapVars
<1>2. c \in APs
  BY <1>1 DEF BSPFirst
<1>3. /\ cpusStarted \in {1, 2} /\ pc[BSP] \in Settled
      /\ \A d \in APs \ {c} : pc[d] \notin InTurn
  BY <1>1, <1>2, Registering DEF InTurn
<1>4. cpusStarted' = cpusStarted + 1 /\ heapCalls = cpusStarted + 1
  BY <1>1, <1>2 DEF Turns, Blocks
<1>5. \A d \in APs : pc'[d] \notin InTurn
  BY <1>1, <1>3 DEF InTurn, InMallocx
<1>6. Blocks'
  BY <1>1, <1>2, <1>3, <1>4, <1>5 DEF Blocks, InTurn, InMallocx
<1>7. Registry'
  <2>1. cpuInformation[cpusStarted] = cpusStarted + 1
    BY <1>1, <1>2 DEF Registry
  <2>2. record[cpusStarted + 1] = CpuInfo(cpusStarted)
    BY <1>1, <1>2 DEF Registry
  <2>3. \A n \in 0 .. cpusStarted' - 1 : n \in 0 .. cpusStarted - 1 \/ n = cpusStarted
    BY <1>3, <1>4
  <2>4. \A n \in 0 .. cpusStarted' - 1 : cpuInformation[n] = n + 1 /\ record[n + 1] = CpuInfo(n)
    BY <1>3, <2>1, <2>2, <2>3 DEF Registry
  <2> QED
    BY <1>1, <1>2, <1>3, <1>5, <2>4 DEF Registry, InTurn
<1> QED
  BY <1>6, <1>7

-----------------------------------------------------------------------------

LEMMA RegistryStep ==
  ASSUME FewCPUs, RInv, [Next]_vars
  PROVE  RInv'
<1>1. IInv'
  BY NextStep DEF RInv, FewCPUs
<1>2. ASSUME UNCHANGED <<pc, heapCalls, block, record, cpuInformation, cpusStarted>>
      PROVE  Blocks' /\ Registry'
  BY <1>2 DEF RInv, Blocks, Registry
<1>3. ASSUME UNCHANGED vars PROVE Blocks' /\ Registry'
  BY <1>2, <1>3 DEF vars, heapVars, infoVars
<1>4. ASSUME NEW c \in CPUs, Paging(c) PROVE Blocks' /\ Registry'
  BY <1>4, PagingKeeps DEF RInv
<1>5. ASSUME NEW c \in CPUs, Mallocx(c) PROVE Blocks' /\ Registry'
  <2>1. CASE SearchUnlocks(c)
    BY <2>1, SearchKeeps
  <2>2. CASE MarkUnlocks(c)
    BY <2>2, MarkKeeps
  <2>3. CASE LockHeap(c) \/ NodesReadFrame(c) \/ NodesTakeFrame(c)
    <3>1. UNCHANGED <<heapCalls, block, record, cpuInformation, cpusStarted>>
      BY <2>3 DEF LockHeap, NodesReadFrame, NodesTakeFrame, heapVars, infoVars
    <3>2. PICK from, to \in {"mallocx", "search", "initNodes", "nodesAllocate"} :
            Move(c, from, to)
      BY <2>3 DEF LockHeap, NodesReadFrame, NodesTakeFrame
    <3>3. from \notin Special /\ to \notin Special
      BY <3>2 DEF Special, Filling, Settled, Up
    <3> QED
      BY <3>1, <3>2, <3>3, Elsewhere DEF Move
  <2> QED
    BY <1>5, <2>1, <2>2, <2>3 DEF Mallocx
<1>6. ASSUME InitSMP PROVE Blocks' /\ Registry'
  <2>1. CASE FillBSP
    BY <2>1, FillBSPKeeps
  <2>2. CASE AllStarted \/ LaterReadsFrame \/ LaterTakesFrame
    <3>1. UNCHANGED <<heapCalls, block, record, cpuInformation, cpusStarted>>
      BY <2>2 DEF AllStarted, LaterReadsFrame, LaterTakesFrame, heapVars, infoVars
    <3>2. PICK from, to \in Settled : Move(BSP, from, to)
      BY <2>2 DEF AllStarted, LaterReadsFrame, LaterTakesFrame, Settled, Up
    <3> QED
      BY <3>1, <3>2, BSPOnward DEF Move
  <2>3. ASSUME NEW i \in APs, Wake(i) PROVE Blocks' /\ Registry'
    BY <1>2, <2>3 DEF Wake, heapVars
  <2> QED
    BY <1>6, <2>1, <2>2, <2>3 DEF InitSMP
<1>7. ASSUME NEW c \in CPUs, InitOtherCPUs(c) PROVE Blocks' /\ Registry'
  <2>1. CASE Start(c) \/ TakeTurn(c)
    <3>1. UNCHANGED <<heapCalls, block, record, cpuInformation, cpusStarted>>
      BY <2>1 DEF Start, TakeTurn, heapVars, infoVars
    <3>2. PICK from, to \in {"parked", "initPaging", "turn", "mallocx"} : Move(c, from, to)
      BY <2>1 DEF Start, TakeTurn
    <3>3. from \notin Special /\ to \notin Special
      BY <3>2 DEF Special, Filling, Settled, Up
    <3> QED
      BY <3>1, <3>2, <3>3, Elsewhere DEF Move
  <2>2. CASE FillAP(c)
    BY <2>2, FillAPKeeps
  <2>3. CASE Publish(c)
    BY <2>3, PublishKeeps
  <2>4. CASE CountLoads(c)
    BY <2>4, CountLoadsKeeps
  <2>5. CASE CountStores(c)
    BY <2>5, CountStoresKeeps
  <2> QED
    BY <1>7, <2>1, <2>2, <2>3, <2>4, <2>5 DEF InitOtherCPUs
<1> QED
  BY <1>1, <1>3, <1>4, <1>5, <1>6, <1>7 DEF RInv, Next, Step

(* With up to three processors, listed in any order and with ids without a *)
(* gap, getCPUInfo gives each one counted its own complete cpuInfo.        *)
THEOREM RegistryComplete ==
  ASSUME FewCPUs
  PROVE  Spec => []CountedAreRegistered
<1>1. Init => RInv
  BY RegistryInit
<1>2. RInv /\ [Next]_vars => RInv'
  BY RegistryStep
<1>3. RInv => CountedAreRegistered
  <2> SUFFICES ASSUME RInv, pc[BSP] \in Settled, NEW n \in 0 .. cpusStarted - 1
               PROVE  /\ getCPUInfo(n) # NULL
                      /\ record[getCPUInfo(n)] = [lapicID |-> n, cpuNumber |-> n]
    BY DEF CountedAreRegistered, Settled
  <2>1. cpusStarted \in Nat
    BY DEF RInv, IInv, TypeOK
  <2>2. getCPUInfo(n) = n + 1 /\ record[n + 1] = CpuInfo(n)
    BY <2>1 DEF getCPUInfo, RInv, Registry
  <2> QED
    BY <2>1, <2>2 DEF CpuInfo, NULL
<1> QED
  BY <1>1, <1>2, <1>3, PTL DEF Spec
=============================================================================
