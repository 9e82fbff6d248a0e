-------------------------------- MODULE Smp --------------------------------
(***************************************************************************)
(* Bringing up the processors: kernel/smp/smp.cpp with initPaging of       *)
(* kernel/paging/paging.cpp and the calls of mallocx and allocateFrame     *)
(* they make, in the order kernel/kernelEntry.cpp and smp.cpp make them.   *)
(*                                                                         *)
(* allocateFrame has no lock.  It is two steps here, the read of the free  *)
(* list and its update, so that overlapping calls would show.  mallocx is  *)
(* reduced to its locking and to the block it returns; Heap.tla has the    *)
(* rest.  The kernel is built with -O0: every load and store is made, in   *)
(* program order.                                                          *)
(***************************************************************************)
EXTENDS Integers

CONSTANTS
  cpu_count,     \* processors reported by the boot loader
  lapic_id,      \* their local APIC ids; processor 0 is the boot processor
  MAPS,          \* bound: calls of map() that each initPaging makes
  LATER_FRAMES   \* bound: frames allocated by the BSP once all CPUs are up

CPUs == 0 .. cpu_count - 1
BSP == 0
APs == CPUs \ {BSP}
NULL == 0

ASSUME SmpAssumption ==
  /\ cpu_count \in Nat \ {0}
  /\ lapic_id \in [CPUs -> Nat]
  /\ MAPS \in Nat
  /\ LATER_FRAMES \in Nat

(* The numbering on which the turns of initOtherCPUs rely: the APs have    *)
(* the ids from 1 on, without a gap, in whatever order they are listed.    *)
ContiguousIds ==
  /\ \A c \in APs : lapic_id[c] \in 1 .. cpu_count - 1
  /\ \A c, d \in APs : lapic_id[c] = lapic_id[d] => c = d

VARIABLES
  pc,             \* where each processor is
  nextFrame,      \* the free list of the frame allocator: the frame to come
  cursor,         \* what each processor's allocateFrame has read of it
  pagingMutex,    \* mutex of paging.cpp
  PML4,           \* the global: a frame, by its physical or virtual address
  PML4x,          \* virtualAddrToPTE's copy of PML4, per processor
  maps,           \* calls of map() each processor has made
  root,           \* history: the frame each processor's init() allocated
  cr3,            \* the register, 0 while still the boot loader's
  heapMutex,      \* mutex of malloc.cpp
  heapReady,      \* freeList # nullptr
  heapCalls,      \* completed calls of mallocx(sizeof(cpuInfo))
  block,          \* the block each processor got from mallocx
  record,         \* what is stored in each block: a cpuInfo
  cpuInformation,
  cpusStarted,
  loaded,         \* the value each processor's cpusStarted++ has loaded
  goto_address    \* the processors the BSP has released

pagingVars == <<pagingMutex, PML4, PML4x, maps, root, cr3>>
heapVars   == <<heapMutex, heapReady, heapCalls, block>>
infoVars   == <<record, cpuInformation, cpusStarted, loaded, goto_address>>
frameVars  == <<nextFrame, cursor>>
vars == <<pc, frameVars, pagingVars, heapVars, infoVars>>

Physical(f) == [frame |-> f, virtual |-> FALSE]
Virtual(f)  == [frame |-> f, virtual |-> TRUE]

Move(c, from, to) == pc[c] = from /\ pc' = [pc EXCEPT ![c] = to]

-----------------------------------------------------------------------------
(* allocateFrame.                                                          *)

FrameRead(c) == cursor' = [cursor EXCEPT ![c] = nextFrame] /\ UNCHANGED nextFrame
FrameTaken(c) == nextFrame' = cursor[c] + 1 /\ UNCHANGED cursor

-----------------------------------------------------------------------------
(* initPaging.                                                             *)

(* A mutant of LockPaging: the lock does not exclude.                      *)
LockPagingAnyway(c) ==
  /\ Move(c, "initPaging", "init")
  /\ pagingMutex' = 1
  /\ UNCHANGED <<frameVars, PML4, PML4x, maps, root, cr3, heapVars, infoVars>>

LockPaging(c) ==
  /\ Move(c, "initPaging", "init")
  /\ pagingMutex = 0
  /\ pagingMutex' = 1
  /\ UNCHANGED <<frameVars, PML4, PML4x, maps, root, cr3, heapVars, infoVars>>

InitReadsFrame(c) ==
  /\ Move(c, "init", "initAllocates")
  /\ FrameRead(c)
  /\ UNCHANGED <<pagingVars, heapVars, infoVars>>

InitTakesFrame(c) ==
  /\ Move(c, "initAllocates", "map")
  /\ FrameTaken(c)
  /\ PML4' = Physical(cursor[c])
  /\ root' = [root EXCEPT ![c] = cursor[c]]
  /\ UNCHANGED <<pagingMutex, PML4x, maps, cr3, heapVars, infoVars>>

(* A mutant of MapEnters: the loop in initPaging runs once too often.      *)
MapEntersOnceMore(c) ==
  /\ maps[c] <= MAPS
  /\ Move(c, "map", "walk")
  /\ PML4x' = [PML4x EXCEPT ![c] = PML4]
  /\ PML4' = Virtual(PML4.frame)
  /\ UNCHANGED <<frameVars, pagingMutex, maps, root, cr3, heapVars, infoVars>>

(* virtualAddrToPTE makes the global PML4 a virtual address for as long as *)
(* it walks, and allocates, the level below.                               *)
MapEnters(c) ==
  /\ maps[c] < MAPS
  /\ Move(c, "map", "walk")
  /\ PML4x' = [PML4x EXCEPT ![c] = PML4]
  /\ PML4' = Virtual(PML4.frame)
  /\ UNCHANGED <<frameVars, pagingMutex, maps, root, cr3, heapVars, infoVars>>

WalkReadsFrame(c) ==
  /\ Move(c, "walk", "walkAllocates")
  /\ FrameRead(c)
  /\ UNCHANGED <<pagingVars, heapVars, infoVars>>

WalkTakesFrame(c) ==
  /\ Move(c, "walkAllocates", "walked")
  /\ FrameTaken(c)
  /\ UNCHANGED <<pagingVars, heapVars, infoVars>>

WalkFindsTable(c) ==
  /\ Move(c, "walk", "walked")
  /\ UNCHANGED <<frameVars, pagingVars, heapVars, infoVars>>

(* A mutant of WalkRestores: the assignment is forgotten.                  *)
WalkLeavesVirtual(c) ==
  /\ Move(c, "walked", "lower")
  /\ UNCHANGED <<frameVars, pagingVars, heapVars, infoVars>>

(* PML4 = PML4x; the lower levels are then found or allocated.             *)
WalkRestores(c) ==
  /\ Move(c, "walked", "lower")
  /\ PML4' = PML4x[c]
  /\ UNCHANGED <<frameVars, pagingMutex, PML4x, maps, root, cr3, heapVars, infoVars>>

LowerReadsFrame(c) ==
  /\ Move(c, "lower", "lowerAllocates")
  /\ FrameRead(c)
  /\ UNCHANGED <<pagingVars, heapVars, infoVars>>

LowerTakesFrame(c) ==
  /\ Move(c, "lowerAllocates", "map")
  /\ FrameTaken(c)
  /\ maps' = [maps EXCEPT ![c] = @ + 1]
  /\ UNCHANGED <<pagingMutex, PML4, PML4x, root, cr3, heapVars, infoVars>>

LowerFindsTable(c) ==
  /\ Move(c, "lower", "map")
  /\ maps' = [maps EXCEPT ![c] = @ + 1]
  /\ UNCHANGED <<frameVars, pagingMutex, PML4, PML4x, root, cr3, heapVars, infoVars>>

WriteCr3(c) ==
  /\ maps[c] = MAPS
  /\ Move(c, "map", "paged")
  /\ cr3' = [cr3 EXCEPT ![c] = PML4.frame]
  /\ UNCHANGED <<frameVars, pagingMutex, PML4, PML4x, maps, root, heapVars, infoVars>>

UnlockPaging(c) ==
  /\ Move(c, "paged", IF c = BSP THEN "mallocx" ELSE "turn")
  /\ pagingMutex' = 0
  /\ UNCHANGED <<frameVars, PML4, PML4x, maps, root, cr3, heapVars, infoVars>>

-----------------------------------------------------------------------------
(* mallocx(sizeof(cpuInfo)).                                               *)

(* The block the n-th call of this size returns: two halves of the first   *)
(* node of the pool, then the second node, and from then on the same node  *)
(* again, as SameSizeSequence of Heap shows.                               *)
BlockOf(n) == IF n < 3 THEN n ELSE 3

LockHeap(c) ==
  /\ Move(c, "mallocx", IF heapReady THEN "search" ELSE "initNodes")
  /\ heapMutex = 0
  /\ heapMutex' = 1
  /\ UNCHANGED <<frameVars, pagingVars, heapReady, heapCalls, block, infoVars>>

NodesReadFrame(c) ==
  /\ Move(c, "initNodes", "nodesAllocate")
  /\ FrameRead(c)
  /\ UNCHANGED <<pagingVars, heapVars, infoVars>>

NodesTakeFrame(c) ==
  /\ Move(c, "nodesAllocate", "search")
  /\ FrameTaken(c)
  /\ heapReady' = TRUE
  /\ UNCHANGED <<pagingVars, heapMutex, heapCalls, block, infoVars>>

(* The search ends by unlocking, with the block not yet marked.            *)
SearchUnlocks(c) ==
  /\ Move(c, "search", "mark")
  /\ block' = [block EXCEPT ![c] = BlockOf(heapCalls + 1)]
  /\ heapMutex' = 0
  /\ UNCHANGED <<frameVars, pagingVars, heapReady, heapCalls, infoVars>>

(* status = allocated, then unlock once more.                              *)
MarkUnlocks(c) ==
  /\ Move(c, "mark", "fill")
  /\ heapCalls' = heapCalls + 1
  /\ heapMutex' = 0
  /\ UNCHANGED <<frameVars, pagingVars, heapReady, block, infoVars>>

-----------------------------------------------------------------------------
(* initSMP, on the BSP.                                                    *)

FillBSP ==
  /\ Move(BSP, "fill", "wake")
  /\ record' = [record EXCEPT ![block[BSP]] = [lapicID |-> 0, cpuNumber |-> 0]]
  /\ cpuInformation' = [cpuInformation EXCEPT ![0] = block[BSP]]
  /\ UNCHANGED <<frameVars, pagingVars, heapVars, cpusStarted, loaded, goto_address>>

(* cpus[i]->goto_address = initOtherCPUs, for i = 1, 2, ...                *)
Wake(i) ==
  /\ pc[BSP] = "wake"
  /\ goto_address = 1 .. i - 1
  /\ goto_address' = goto_address \cup {i}
  /\ UNCHANGED <<pc, frameVars, pagingVars, heapVars, record, cpuInformation,
                 cpusStarted, loaded>>

(* A mutant of AllStarted: the BSP does not count itself.                  *)
AllStartedButOne ==
  /\ Move(BSP, "wake", "running")
  /\ goto_address = APs
  /\ cpusStarted >= cpu_count - 1
  /\ UNCHANGED <<frameVars, pagingVars, heapVars, infoVars>>

(* The loops over the processors and on cpusStarted end.                   *)
AllStarted ==
  /\ Move(BSP, "wake", "running")
  /\ goto_address = APs
  /\ cpusStarted >= cpu_count
  /\ UNCHANGED <<frameVars, pagingVars, heapVars, infoVars>>

(* What the BSP does next allocates frames too (process creation).         *)
LaterReadsFrame ==
  /\ Move(BSP, "running", "runningAllocates")
  /\ nextFrame <= cpu_count * (2 * MAPS + 1) + LATER_FRAMES
  /\ FrameRead(BSP)
  /\ UNCHANGED <<pagingVars, heapVars, infoVars>>

LaterTakesFrame ==
  /\ Move(BSP, "runningAllocates", "running")
  /\ FrameTaken(BSP)
  /\ UNCHANGED <<pagingVars, heapVars, infoVars>>

-----------------------------------------------------------------------------
(* initOtherCPUs, on an AP.                                                *)

Start(c) ==
  /\ c \in goto_address
  /\ Move(c, "parked", "initPaging")
  /\ UNCHANGED <<frameVars, pagingVars, heapVars, infoVars>>

(* Mutants of TakeTurn: no wait, and a wait for one processor too many.    *)
TakeTurnAtOnce(c) ==
  /\ Move(c, "turn", "mallocx")
  /\ UNCHANGED <<frameVars, pagingVars, heapVars, infoVars>>
TakeTurnLate(c) ==
  /\ cpusStarted > lapic_id[c]
  /\ Move(c, "turn", "mallocx")
  /\ UNCHANGED <<frameVars, pagingVars, heapVars, infoVars>>

(* while (cpusStarted < smpInfo->lapic_id);                                *)
TakeTurn(c) ==
  /\ cpusStarted >= lapic_id[c]
  /\ Move(c, "turn", "mallocx")
  /\ UNCHANGED <<frameVars, pagingVars, heapVars, infoVars>>

FillAP(c) ==
  /\ c # BSP
  /\ Move(c, "fill", "publish")
  /\ record' = [record EXCEPT ![block[c]] =
                  [lapicID |-> lapic_id[c], cpuNumber |-> cpusStarted]]
  /\ UNCHANGED <<frameVars, pagingVars, heapVars, cpuInformation, cpusStarted,
                 loaded, goto_address>>

(* cpuInformation[cpu->cpuNumber] = cpu, an array of 256.                  *)
Publish(c) ==
  /\ Move(c, "publish", "count")
  /\ cpuInformation' = [cpuInformation EXCEPT ![record[block[c]].cpuNumber] = block[c]]
  /\ UNCHANGED <<frameVars, pagingVars, heapVars, record, cpusStarted, loaded,
                 goto_address>>

(* cpusStarted++ is a load and a store.                                    *)
CountLoads(c) ==
  /\ Move(c, "count", "counting")
  /\ loaded' = [loaded EXCEPT ![c] = cpusStarted]
  /\ UNCHANGED <<frameVars, pagingVars, heapVars, record, cpuInformation,
                 cpusStarted, goto_address>>

CountStores(c) ==
  /\ Move(c, "counting", "idle")
  /\ cpusStarted' = loaded[c] + 1
  /\ UNCHANGED <<frameVars, pagingVars, heapVars, record, cpuInformation,
                 loaded, goto_address>>

-----------------------------------------------------------------------------

Init ==
  /\ pc = [c \in CPUs |-> IF c = BSP THEN "initPaging" ELSE "parked"]
  /\ nextFrame = 1
  /\ cursor = [c \in CPUs |-> 0]
  /\ pagingMutex = 0
  /\ PML4 = Physical(0)
  /\ PML4x = [c \in CPUs |-> Physical(0)]
  /\ maps = [c \in CPUs |-> 0]
  /\ root = [c \in CPUs |-> 0]
  /\ cr3 = [c \in CPUs |-> 0]
  /\ heapMutex = 0
  /\ heapReady = FALSE
  /\ heapCalls = 0
  /\ block = [c \in CPUs |-> NULL]
  /\ record = [b \in 1 .. 3 |-> [lapicID |-> 0, cpuNumber |-> 0]]
  /\ cpuInformation = [n \in CPUs |-> NULL]
  /\ cpusStarted = 1
  /\ loaded = [c \in CPUs |-> 0]
  /\ goto_address = {}

Paging(c) ==
  \/ LockPaging(c) \/ InitReadsFrame(c) \/ InitTakesFrame(c)
  \/ MapEnters(c) \/ WalkReadsFrame(c) \/ WalkTakesFrame(c) \/ WalkFindsTable(c)
  \/ WalkRestores(c) \/ LowerReadsFrame(c) \/ LowerTakesFrame(c) \/ LowerFindsTable(c)
  \/ WriteCr3(c) \/ UnlockPaging(c)

Mallocx(c) ==
  \/ LockHeap(c) \/ NodesReadFrame(c) \/ NodesTakeFrame(c)
  \/ SearchUnlocks(c) \/ MarkUnlocks(c)

InitSMP ==
  \/ FillBSP \/ AllStarted \/ LaterReadsFrame \/ LaterTakesFrame
  \/ \E i \in APs : Wake(i)

InitOtherCPUs(c) ==
  Start(c) \/ TakeTurn(c) \/ FillAP(c) \/ Publish(c) \/ CountLoads(c) \/ CountStores(c)

(* One step of processor c.                                                *)
Step(c) == Paging(c) \/ Mallocx(c) \/ InitOtherCPUs(c) \/ (c = BSP /\ InitSMP)

Next == \E c \in CPUs : Step(c)

Spec == Init /\ [][Next]_vars

(* The processors are real ones: each keeps executing.                     *)
FairSpec == Spec /\ \A c \in CPUs : WF_vars(Step(c))

-----------------------------------------------------------------------------

Allocating == {"initAllocates", "walkAllocates", "lowerAllocates",
               "nodesAllocate", "runningAllocates"}
InPaging == {"init", "initAllocates", "map", "walk", "walkAllocates", "walked",
             "lower", "lowerAllocates", "paged"}
InMallocx == {"mallocx", "initNodes", "nodesAllocate", "search", "mark"}
InTurn == InMallocx \cup {"fill", "publish", "count", "counting"}
Up == {"running", "runningAllocates"}

(* Every variable keeps its type.                                          *)
TypeOK ==
  /\ pc \in [CPUs -> {"parked", "initPaging", "turn", "wake", "idle"}
                       \cup InPaging \cup InTurn \cup Up]
  /\ nextFrame \in Nat \ {0}
  /\ cursor \in [CPUs -> Nat]
  /\ pagingMutex \in {0, 1}
  /\ PML4 \in [frame : Nat, virtual : BOOLEAN]
  /\ PML4x \in [CPUs -> [frame : Nat, virtual : BOOLEAN]]
  /\ maps \in [CPUs -> 0 .. MAPS]
  /\ root \in [CPUs -> Nat]
  /\ cr3 \in [CPUs -> Nat]
  /\ heapMutex \in {0, 1}
  /\ heapReady \in BOOLEAN
  /\ heapCalls \in Nat
  /\ block \in [CPUs -> 0 .. 3]
  /\ record \in [1 .. 3 -> [lapicID : Nat, cpuNumber : Nat]]
  /\ cpuInformation \in [CPUs -> 0 .. 3]
  /\ cpusStarted \in Nat
  /\ loaded \in [CPUs -> Nat]
  /\ goto_address \subseteq APs

(* Two processors are never inside allocateFrame at the same time, though  *)
(* it takes no lock: paging's mutex, the order of the start-up and the     *)
(* turns of the APs keep its callers apart.                                *)
AllocatesAlone ==
  \A c, d \in CPUs : pc[c] \in Allocating /\ pc[d] \in Allocating => c = d

(* Every processor loads into CR3 the table it built itself, and no two    *)
(* processors share one, though all of them build it through the one       *)
(* global PML4.                                                            *)
OwnTables ==
  /\ \A c \in CPUs : cr3[c] # 0 => cr3[c] = root[c]
  /\ \A c, d \in CPUs : root[c] # 0 /\ root[c] = root[d] => c = d

(* Outside initPaging the global PML4 is a physical address again, of a    *)
(* complete table: what newPML4 and later calls of map start from.  The    *)
(* map of setupThreadContext, which takes no mutex, comes after the        *)
(* start-up and is not among the steps here.                               *)
PML4Settled ==
  pagingMutex = 0 => /\ ~ PML4.virtual
                     /\ PML4.frame # 0 => \E c \in CPUs : cr3[c] = PML4.frame

(* The APs register one at a time: from the end of its wait to the store   *)
(* of cpusStarted, which is not atomic, an AP is alone.  The BSP is then   *)
(* past its own use of the heap.                                           *)
RegistersAlone ==
  \A c, d \in CPUs : pc[c] \in InTurn /\ pc[d] \in InTurn => c = d

(* Once the BSP has registered itself, getCPUInfo gives for every          *)
(* processor counted a complete cpuInfo, the one with that number, which   *)
(* is also the APIC id.                                                    *)
getCPUInfo(n) == IF n > cpusStarted THEN NULL ELSE cpuInformation[n]

CountedAreRegistered ==
  pc[BSP] \in {"wake"} \cup Up => \A n \in 0 .. cpusStarted - 1 :
    /\ getCPUInfo(n) # NULL
    /\ record[getCPUInfo(n)] = [lapicID |-> n, cpuNumber |-> n]

(* When initSMP returns, every AP has finished its start-up for good, and  *)
(* each processor has been counted once.                                   *)
ReturnsWhenAllStarted ==
  pc[BSP] \in Up => cpusStarted = cpu_count /\ \A c \in APs : pc[c] = "idle"

(* initSMP returns.                                                        *)
SMPInitialized == <>(pc[BSP] \in Up)
=============================================================================
