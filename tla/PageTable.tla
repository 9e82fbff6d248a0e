----------------------------- MODULE PageTable -----------------------------
(***************************************************************************)
(* The page tables: initPaging, map and newPML4 of paging.cpp with the     *)
(* entries of paging.hpp, as initOtherCPUs of smp.cpp and                  *)
(* createProcessFromRoutine of process.cpp use them.                       *)
(*                                                                         *)
(* An address is the number of its 4 KB page.  A table below the top has W *)
(* entries, so that a large page is W pages and a gigabyte W * W.  The     *)
(* mutex makes the calls of initPaging follow one another (Smp.tla), and   *)
(* frames are taken to suffice (PageFrameAllocator.tla).                   *)
(***************************************************************************)
EXTENDS Integers, Sequences, FiniteSets

CONSTANTS
  W,            \* entries of a table: 512
  TOP,          \* entries of a top-level table: 512
  HALF,         \* the first of those that newPML4 copies: 256
  LOW,          \* pages that are mapped in any case: 4 GB
  hhdmOffset,   \* where the boot loader maps physical memory
  virtualBase, physicalBase, kernelSize,   \* the kernel's image
  stackAddr,    \* where setupThreadContext maps a stack
  MemoryMaps,   \* the memory maps that the boot loader may report
  TABLES,       \* the page tables lie from here on, above any address mapped
  CPUs, BSP,
  Stacks        \* the frames for stacks; there is a process for each

None == "none"

TopSize == W * W * W   \* the pages that an entry of the top level is for

(* What the boot loader reports: regions apart from one another, below the *)
(* page tables, so few that they are mapped below the kernel's image.      *)
IsMemoryMap(m) ==
  /\ m \in Seq([base : Nat, length : Nat])
  /\ \A i \in DOMAIN m : m[i].base + m[i].length <= TABLES
  /\ \A i \in DOMAIN m : hhdmOffset + m[i].base + m[i].length <= virtualBase
  /\ \A i, j \in DOMAIN m : i < j => m[i].base + m[i].length <= m[j].base

Pages(r) == r.base .. r.base + r.length - 1

ASSUME PageTableAssumption ==
  /\ W \in Nat /\ W > 1 /\ TOP \in Nat /\ HALF \in 1 .. TOP
  /\ LOW \in Nat \ {0} /\ LOW % W = 0 /\ LOW <= TopSize /\ LOW <= TABLES
  /\ hhdmOffset \in Nat /\ hhdmOffset % TopSize = 0 /\ hhdmOffset >= HALF * TopSize
  /\ virtualBase \in Nat /\ virtualBase % W = 0 /\ hhdmOffset + LOW <= virtualBase
  /\ physicalBase \in Nat /\ kernelSize \in Nat /\ TABLES \in Nat
  /\ physicalBase + kernelSize <= TABLES /\ virtualBase + kernelSize <= TOP * TopSize
  /\ stackAddr \in Nat /\ stackAddr \div TopSize \in 1 .. HALF - 1
  /\ \A m \in MemoryMaps : IsMemoryMap(m)
  /\ BSP \in CPUs /\ None \notin CPUs /\ Stacks \subseteq 0 .. TABLES - 1

VARIABLES
  memmap,       \* the memory map: a sequence of [base, length]
  tables,       \* what the tables allocated hold
  PML4,         \* the global pointer
  cr3,          \* the table each processor has loaded, or 0
  initialising, \* the processor in initPaging, or none
  todo,         \* the calls of map it or setupThreadContext still makes
  stacks,       \* of the processes, in the order of creation
  processPML4,
  overwritten   \* history: frames that map has written to as if tables

vars == <<memmap, tables, PML4, cr3, initialising, todo, stacks, processPML4,
          overwritten>>

-----------------------------------------------------------------------------
(* The entries, and one call of map.                                       *)

Empty == [present |-> FALSE, large |-> FALSE, address |-> 0]

isValid(e) == e.present /\ e.address # 0

(* The place of page v in the tables of each level.                        *)
pml4Entry(v) == v \div TopSize
pml3Entry(v) == (v \div (W * W)) % W
pml2Entry(v) == (v \div W) % W
pml1Entry(v) == v % W

(* allocateFrame: the tables lie one after the other.                      *)
NewFrame(ts) == TABLES + Cardinality(DOMAIN ts)
With(ts, f, table) == [g \in TABLES .. f |-> IF g = f THEN table ELSE ts[g]]

(* The table that entry i of table t designates.  An entry that maps a     *)
(* large page is taken for one that designates a table.                    *)
getNextLevelPointer(ts, t, i) ==
  LET e == ts[t][i]
      f == NewFrame(ts)
  IN  IF isValid(e)
      THEN [tables |-> ts, next |-> e.address]
      ELSE [tables |-> [With(ts, f, [j \in 0 .. W - 1 |-> Empty])
                          EXCEPT ![t][i] = [e EXCEPT !.present = TRUE, !.address = f]],
            next |-> f]

virtualAddrToPTE(ts, root, v, large) ==
  LET pml3 == getNextLevelPointer(ts, root, pml4Entry(v))
      pml2 == getNextLevelPointer(pml3.tables, pml3.next, pml3Entry(v))
      pml1 == getNextLevelPointer(pml2.tables, pml2.next, pml2Entry(v))
  IN  IF large
      THEN [tables |-> pml2.tables, table |-> pml2.next, entry |-> pml2Entry(v)]
      ELSE [tables |-> pml1.tables, table |-> pml1.next, entry |-> pml1Entry(v)]

(* A call of map as initPaging and setupThreadContext make it.             *)
Call(p, v, large) == [physical |-> p, virtual |-> v, large |-> large]

Map ==
  /\ todo # <<>>
  /\ LET m == Head(todo)
         pte == virtualAddrToPTE(tables, PML4, m.virtual, m.large)
     IN  IF pte.table \in DOMAIN pte.tables
         THEN /\ tables' = [pte.tables EXCEPT ![pte.table][pte.entry] =
                              [present |-> TRUE, large |-> @.large \/ m.large,
                               address |-> m.physical]]
              /\ UNCHANGED overwritten
         ELSE /\ tables' = pte.tables
              /\ overwritten' = overwritten \cup {pte.table}
  /\ todo' = Tail(todo)
  /\ UNCHANGED <<memmap, PML4, cr3, initialising, stacks, processPML4>>

-----------------------------------------------------------------------------
(* initPaging.                                                             *)

(* A mutant: large ones as soon as one fits.                               *)
requiredSizeEager(size) == IF size >= W THEN W ELSE 1

(* Pages of a piece of memory mapped at once: large ones from 1 GB on.     *)
requiredSize(size) == IF size >= W * W THEN W ELSE 1

LowCalls ==
  [n \in 1 .. 2 * (LOW \div W) |->
     LET i == ((n - 1) \div 2) * W
     IN  Call(i, IF n % 2 = 1 THEN i ELSE i + hhdmOffset, TRUE)]

(* Mutants: the virtual address for the physical one; nothing is done for  *)
(* what is left.                                                           *)
RegionCallsVirtual(r) ==
  LET pageSize == requiredSize(r.length)
  IN  IF r.base < LOW THEN <<>>
      ELSE [n \in 1 .. (r.length + pageSize - 1) \div pageSize |->
              LET k == r.base + (n - 1) * pageSize
              IN  Call(k + hhdmOffset, k + hhdmOffset, pageSize # 1)]
RegionCallsCut(r) ==
  LET pageSize == requiredSize(r.length)
  IN  IF r.base < LOW THEN <<>>
      ELSE [n \in 1 .. r.length \div pageSize |->
              LET k == r.base + (n - 1) * pageSize
              IN  Call(k, k + hhdmOffset, pageSize # 1)]

(* Both loops over a region: whole pages of the size, and then one more    *)
(* of the same size for what is left.                                      *)
RegionCalls(r) ==
  LET pageSize == requiredSize(r.length)
      pages == (r.length + pageSize - 1) \div pageSize
  IN  IF r.base < LOW THEN <<>>
      ELSE [n \in 1 .. pages |->
              LET k == r.base + (n - 1) * pageSize
              IN  Call(k, k + hhdmOffset, pageSize # 1)]

KernelCalls ==
  [n \in 1 .. kernelSize |-> Call(physicalBase + n - 1, virtualBase + n - 1, FALSE)]

InitCalls ==
  LET Regions[n \in 0 .. Len(memmap)] ==
        IF n = 0 THEN <<>> ELSE Regions[n - 1] \o RegionCalls(memmap[n])
  IN  LowCalls \o Regions[Len(memmap)] \o KernelCalls

EmptyTop == [i \in 0 .. TOP - 1 |-> Empty]

(* lock(mutex) and init.                                                   *)
InitPaging(c) ==
  /\ initialising = None /\ cr3[c] = 0
  /\ c = BSP \/ cr3[BSP] # 0
  /\ initialising' = c
  /\ PML4' = NewFrame(tables)
  /\ tables' = With(tables, NewFrame(tables), EmptyTop)
  /\ todo' = InitCalls
  /\ UNCHANGED <<memmap, cr3, stacks, processPML4, overwritten>>

(* writeCrReg(3, PML4) and unlock(mutex).                                  *)
LoadCr3(c) ==
  /\ initialising = c
  /\ todo = <<>>
  /\ cr3' = [cr3 EXCEPT ![c] = PML4]
  /\ initialising' = None
  /\ UNCHANGED <<memmap, tables, PML4, todo, stacks, processPML4, overwritten>>

-----------------------------------------------------------------------------
(* A process, on the boot processor once all have started.                 *)

(* Where a frame may come from: boot.cpp gives the allocator the largest   *)
(* region, in the first 4 GB or above.                                     *)
IsMemory(p) == p < LOW \/ \E i \in DOMAIN memmap : p \in Pages(memmap[i])

(* The stack goes into the global table, the one of the processor that     *)
(* came last, and below HALF.                                              *)
SetupThreadContext(s) ==
  /\ IsMemory(s)
  /\ \A c \in CPUs : cr3[c] # 0
  /\ todo = <<>> /\ Len(processPML4) = Len(stacks)
  /\ \A i \in DOMAIN stacks : stacks[i] # s
  /\ stacks' = Append(stacks, s)
  /\ todo' = <<Call(s, stackAddr, TRUE)>>
  /\ UNCHANGED <<memmap, tables, PML4, cr3, initialising, processPML4, overwritten>>

(* Mutants: one entry too late; every entry.                               *)
CopiedLate == {0} \cup (HALF + 1) .. TOP - 1
CopiedAll  == 0 .. TOP - 1

Copied == {0} \cup HALF .. TOP - 1

newPML4 ==
  /\ todo = <<>> /\ Len(processPML4) < Len(stacks)
  /\ tables' = With(tables, NewFrame(tables),
                    [i \in 0 .. TOP - 1 |->
                       IF i \in Copied THEN tables[PML4][i] ELSE Empty])
  /\ processPML4' = Append(processPML4, NewFrame(tables))
  /\ UNCHANGED <<memmap, PML4, cr3, initialising, todo, stacks, overwritten>>

-----------------------------------------------------------------------------

Init ==
  /\ memmap \in MemoryMaps
  /\ tables = [f \in {} |-> EmptyTop]
  /\ PML4 = 0
  /\ cr3 = [c \in CPUs |-> 0]
  /\ initialising = None
  /\ todo = <<>>
  /\ stacks = <<>>
  /\ processPML4 = <<>>
  /\ overwritten = {}

Next ==
  \/ Map
  \/ \E c \in CPUs : InitPaging(c) \/ LoadCr3(c)
  \/ \E s \in Stacks : SetupThreadContext(s)
  \/ newPML4

Spec == Init /\ [][Next]_vars

-----------------------------------------------------------------------------
(* What the processor makes of the tables.                                 *)

Unmapped == -1

(* A large page whose address is not a multiple of its size has reserved   *)
(* bits set: the processor faults.                                         *)
Large(p, v) == IF p % W = 0 THEN p + (v % W) ELSE Unmapped

Translate(root, v) ==
  LET e4 == tables[root][pml4Entry(v)]
      e3 == tables[e4.address][pml3Entry(v)]
      e2 == tables[e3.address][pml2Entry(v)]
      e1 == tables[e2.address][pml1Entry(v)]
  IN  IF ~ e4.present \/ ~ e3.present \/ ~ e2.present THEN Unmapped
      ELSE IF e2.large THEN Large(e2.address, v)
      ELSE IF e1.present THEN e1.address ELSE Unmapped

VirtualPages == 0 .. TOP * TopSize - 1

(* The top-level tables.                                                   *)
Roots == ({PML4} \cup {cr3[c] : c \in CPUs} \cup {processPML4[i] : i \in DOMAIN processPML4})
           \ {0}

(* Large regions begin and end with large pages, or what follows their end *)
(* in the last one is not memory.                                          *)
Regular ==
  \A i \in DOMAIN memmap : memmap[i].base >= LOW /\ memmap[i].length >= W * W =>
    LET end == memmap[i].base + memmap[i].length
    IN  /\ memmap[i].base % W = 0
        /\ \A j \in DOMAIN memmap : \A p \in Pages(memmap[j]) : p >= end => p \div W # (end - 1) \div W

(* Every variable keeps its type.                                          *)
TypeOK ==
  /\ memmap \in MemoryMaps
  /\ \A f \in DOMAIN tables : f >= TABLES /\
       \A i \in DOMAIN tables[f] :
         /\ tables[f][i].present \in BOOLEAN /\ tables[f][i].large \in BOOLEAN
         /\ tables[f][i].address \in 0 .. TABLES - 1 \cup DOMAIN tables
  /\ PML4 \in {0} \cup DOMAIN tables
  /\ cr3 \in [CPUs -> {0} \cup DOMAIN tables]
  /\ initialising \in CPUs \cup {None}
  /\ stacks \in Seq(Stacks) /\ processPML4 \in Seq(DOMAIN tables)
  /\ \A r \in Roots : DOMAIN tables[r] = 0 .. TOP - 1
  /\ overwritten \subseteq 0 .. TABLES - 1

(* With the table it has loaded each processor reaches the first 4 GB at   *)
(* two places, every region above them, and its own code.                  *)
DirectMap ==
  \A c \in CPUs : cr3[c] # 0 /\ Regular =>
    /\ \A p \in 0 .. LOW - 1 : Translate(cr3[c], p) = p
    /\ \A p \in 0 .. LOW - 1 : Translate(cr3[c], p + hhdmOffset) = p
    /\ \A i \in DOMAIN memmap : memmap[i].base >= LOW =>
         \A p \in Pages(memmap[i]) : Translate(cr3[c], p + hhdmOffset) = p
    /\ \A n \in 0 .. kernelSize - 1 :
         Translate(cr3[c], virtualBase + n) = physicalBase + n

(* map writes to page tables only.                                         *)
WritesTablesOnly == Regular => overwritten = {}

(* What initPaging maps at hhdmOffset: the first 4 GB, and, if the memory  *)
(* map is regular, the regions that begin above them.                      *)
MappedAbove(p) ==
  \/ p < LOW
  \/ Regular /\ \E i \in DOMAIN memmap : memmap[i].base >= LOW /\ p \in Pages(memmap[i])

(* The stack pointer that setupThreadContext gives a thread is mapped in   *)
(* the table that runThread loads for it, unless the frame lies above 4 GB *)
(* in a memory map that is not regular, or in a region that begins below.  *)
StacksReachable ==
  \A i \in DOMAIN processPML4 :
    MappedAbove(stacks[i]) => Translate(processPML4[i], stacks[i] + hhdmOffset) = stacks[i]

(* Whatever the memory map, what a process sees of the kernel is what      *)
(* every processor sees, though the processes share the lower tables of    *)
(* one and the stacks are mapped after the first process has its table;    *)
(* and it reaches its own stack wherever initPaging maps the memory of it. *)
KernelViewsAgree ==
  /\ \A i \in DOMAIN processPML4 : \A c \in CPUs : \A v \in VirtualPages :
       pml4Entry(v) = 0 \/ pml4Entry(v) >= HALF =>
         Translate(processPML4[i], v) = Translate(cr3[c], v)
  /\ StacksReachable

(* A call of map gives the page it names, and no other, the address it     *)
(* names, and changes no translation of any table but the global one.      *)
MapsExactly ==
  [][\A r \in Roots : \A v \in VirtualPages : Regular =>
       LET m == Head(todo)
           size == IF m.large THEN W ELSE 1
       IN  Translate(r, v)' =
             IF Len(todo') < Len(todo) /\ r = PML4 /\ v \div size = m.virtual \div size
             THEN IF m.large THEN Large(m.physical, v) ELSE m.physical
             ELSE Translate(r, v)]_vars
=============================================================================
