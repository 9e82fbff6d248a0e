------------------------- MODULE PageFrameAllocator -------------------------
(***************************************************************************)
(* The page frame allocator: kernel/paging/pageFrameAllocator.cpp with     *)
(* kernel/paging/freeList.cpp and the size table of hashtable.cpp.         *)
(*                                                                         *)
(* A free block is a header (fBlock) at its own first byte.  Memory is the *)
(* function mem from addresses to the header words stored there; an        *)
(* address the allocator has zeroed holds ZeroHeader.  Physical and        *)
(* higher-half addresses differ by a fixed offset, so one address stands   *)
(* for both.  The fields inUse and prevSize of a header are left out: the  *)
(* first is never read, the second only by the coalescing branch, which is *)
(* the absorbing status "coalescing" and is shown to be unreachable.       *)
(* The memory modelled is the region and the header slot right behind it,  *)
(* where the allocator writes when the region is used up to its last byte. *)
(*                                                                         *)
(* Each call is one step: Smp.tla shows that the kernel's calls of         *)
(* allocateFrame never overlap.                                            *)
(***************************************************************************)
EXTENDS Integers, Sequences, FiniteSets

CONSTANTS
  PAGESIZE,      \* 4096 in the source
  freeMemStart,  \* first address of the region boot.cpp selects
  freeMemLen,    \* its length, bootInfo.memory.freeMemSize at boot
  RequestSizes,  \* the sizes, in bytes, that callers ask for (never 0)
  SIZE_MOD,      \* size_t arithmetic is modulo this (2^64)
  TABLE_SIZE,    \* slots of addressSizeHT
  hash,          \* its hash function
  JunkHeader     \* what an untouched part of the region holds

NULL == 0
RegionEnd == freeMemStart + freeMemLen

(* The region and the slot behind it.                                      *)
Addr == freeMemStart .. RegionEnd

fBlock == [size : 0 .. SIZE_MOD - 1, next : Addr \cup {NULL},
           previous : Addr \cup {NULL}]
ZeroHeader == [size |-> 0, next |-> NULL, previous |-> NULL]

ASSUME AllocatorAssumption ==
  /\ PAGESIZE \in Nat \ {0}
  /\ freeMemStart \in Nat \ {0}
  /\ freeMemLen \in Nat
  /\ SIZE_MOD \in Nat
  /\ RegionEnd < SIZE_MOD
  /\ RequestSizes \subseteq Nat \ {0}
  /\ JunkHeader \in fBlock
  /\ TABLE_SIZE \in Nat \ {0}
  /\ hash \in [Addr -> 0 .. TABLE_SIZE - 1]

HT == INSTANCE Hashtable WITH Keys <- Addr

VARIABLES
  head,          \* first block of the free list
  freeBlock,     \* where the next search starts
  mem,           \* the header words in memory
  freeMemSize,   \* bootInfo.memory.freeMemSize
  usedMemory,
  addressSizeHT,
  status,        \* "running", "refused" or "blocked" (the hlts of
                 \* allocateFrame and freeFrame), "coalescing" or "looping"
  woken,         \* the timer's only tick has ended a hlt of freeFrame
  granted,       \* history: the extents handed out, in order
  freed          \* history: which of them were given to freeFrame

vars == <<head, freeBlock, mem, freeMemSize, usedMemory, addressSizeHT,
          status, woken, granted, freed>>

-----------------------------------------------------------------------------

roundUpToPageBoundary(size) ==
  IF size % PAGESIZE = 0 THEN size
  ELSE ((size + PAGESIZE - 1) \div PAGESIZE) * PAGESIZE

(* initFreeList(), run by the first call of allocateFrame: the whole       *)
(* region becomes one block.                                               *)
initFreeList ==
  [mem EXCEPT ![freeMemStart] =
     [size |-> freeMemSize, next |-> NULL, previous |-> @.previous]]

MemAtCall  == IF head = NULL THEN initFreeList ELSE mem
FreeAtCall == IF head = NULL THEN freeMemStart ELSE freeBlock

(* The blocks the search walks over: the i-th successor of its start.      *)
Successor(m, start) ==
  LET s[i \in Nat] == IF i = 0 THEN start
                      ELSE IF s[i - 1] = NULL THEN NULL ELSE m[s[i - 1]].next
  IN  s

Cyclic(m, start) ==
  m[start].next # NULL /\ Successor(m, start)[freeMemLen + 2] # NULL

(* while (freeBlock->next) ...: the smallest sufficient block, the first   *)
(* of equals, among the blocks that have a successor.                      *)
BestFit(m, start, size) ==
  LET s    == Successor(m, start)
      fits == {i \in 0 .. freeMemLen + 1 :
                 /\ s[i] # NULL
                 /\ m[s[i]].next # NULL
                 /\ m[s[i]].size >= size}
      best == CHOOSE i \in fits : \A j \in fits :
                 \/ m[s[i]].size < m[s[j]].size
                 \/ m[s[i]].size = m[s[j]].size /\ i <= j
  IN  IF fits = {} THEN NULL ELSE s[best]

SelectBlock(m, start, size) ==
  IF m[start].next = NULL /\ m[start].size >= size
  THEN start
  ELSE BestFit(m, start, size)

(* Mutants of Fits and NewBlock, for the runs that test the properties.    *)
FitsStrictly(size) == size < freeMemSize
NewBlockPageShort(block, size) == block + size - PAGESIZE
NewBlockPageFar(block, size) == block + size + PAGESIZE

(* The request is admitted: it is not larger than the free memory.         *)
Fits(size) == size <= freeMemSize

(* Where the rest of the selected block begins.                            *)
NewBlock(block, size) == block + size

(* The writes of allocateFrame: the header of the rest of the block, and   *)
(* zeroes over what is handed out.                                         *)
MemAfterGrant(m, block, size) ==
  [a \in Addr |->
     IF a = NewBlock(block, size)
     THEN [size |-> m[block].size - size, next |-> m[block].next,
           previous |-> m[a].previous]
     ELSE IF a \in block .. block + size - 1 THEN ZeroHeader
     ELSE m[a]]

Grant(m, block, size) ==
  /\ mem' = MemAfterGrant(m, block, size)
  /\ head' = NewBlock(block, size)
  /\ freeBlock' = NewBlock(block, size)
  /\ freeMemSize' = freeMemSize - size
  /\ usedMemory' = (usedMemory + size) % SIZE_MOD
  /\ addressSizeHT' = HT!insert(addressSizeHT, block, size)
  /\ granted' = Append(granted, [addr |-> block, len |-> size])
  /\ UNCHANGED <<status, woken, freed>>

(* The request does not fit in what boot.cpp's counter says is left: hlt.  *)
(* Every caller runs before the controllers are unmasked or, like          *)
(* createProcessFromRoutine, with interrupts off: the processor never      *)
(* wakes up.                                                               *)
OutOfMemory(req) ==
  /\ status = "running"
  /\ ~ Fits(roundUpToPageBoundary(req))
  /\ status' = "refused"
  /\ mem' = MemAtCall
  /\ head' = (IF head = NULL THEN freeMemStart ELSE head)
  /\ freeBlock' = FreeAtCall
  /\ UNCHANGED <<freeMemSize, usedMemory, addressSizeHT, woken, granted, freed>>

AllocateFrame(req) ==
  LET size  == roundUpToPageBoundary(req)
      block == SelectBlock(MemAtCall, FreeAtCall, size)
  IN  /\ status = "running"
      /\ Fits(size)
      /\ IF block # NULL /\ ~ Cyclic(MemAtCall, FreeAtCall)
         THEN Grant(MemAtCall, block, size)
         ELSE /\ status' = (IF block = NULL THEN "coalescing" ELSE "looping")
              /\ UNCHANGED <<head, freeBlock, mem, freeMemSize, usedMemory,
                             addressSizeHT, woken, granted, freed>>

(* freeFrame() once past its check: the block goes to the front of the     *)
(* list with the size the table returned, converted to size_t.             *)
Release(i, a, size) ==
  /\ mem' = IF a = head
            THEN [mem EXCEPT ![a].size = size]
            ELSE [mem EXCEPT ![a] = [@ EXCEPT !.size = size, !.next = head],
                             ![head].previous = a]
  /\ head' = a
  /\ freeBlock' = IF a = head THEN a ELSE freeBlock
  /\ addressSizeHT' = HT!deleteKey(addressSizeHT, a)
  /\ usedMemory' = (usedMemory - size) % SIZE_MOD
  /\ freeMemSize' = IF freeMemSize # 0
                    THEN (freeMemSize + size) % SIZE_MOD
                    ELSE freeMemSize
  /\ freed' = freed \cup {i}
  /\ UNCHANGED <<status, granted>>

(* freeFrame on an address that allocateFrame returned (its i-th).  If the *)
(* table does not know it: the error message, then hlt.  Nothing in the    *)
(* kernel calls freeFrame yet; a caller may have interrupts on, and then   *)
(* an interrupt ends the hlt and freeFrame goes on.  Only the timer's tick *)
(* comes back to what it interrupts, and it comes once (Interrupts and     *)
(* Scheduler): one hlt can be left, and no other.                          *)
FreeFrame(i) ==
  LET a    == granted[i].addr
      size == HT!search(addressSizeHT, a)
  IN  /\ status = "running"
      /\ \/ size # -1 /\ UNCHANGED woken
         \/ size = -1 /\ ~ woken /\ woken' = TRUE
      /\ Release(i, a, size % SIZE_MOD)

(* The table does not know the address, and no interrupt comes.            *)
FreeFrameHalts(i) ==
  /\ status = "running"
  /\ HT!search(addressSizeHT, granted[i].addr) = -1
  /\ status' = "blocked"
  /\ UNCHANGED <<head, freeBlock, mem, freeMemSize, usedMemory,
                 addressSizeHT, woken, granted, freed>>

-----------------------------------------------------------------------------

Init ==
  /\ head = NULL
  /\ freeBlock = NULL
  /\ mem = [a \in Addr |-> JunkHeader]
  /\ freeMemSize = freeMemLen
  /\ usedMemory = 0
  /\ addressSizeHT = HT!EmptyTable
  /\ status = "running"
  /\ woken = FALSE
  /\ granted = <<>>
  /\ freed = {}

Allocation == \E req \in RequestSizes : OutOfMemory(req) \/ AllocateFrame(req)

(* Clients give back frames they were given, some of them twice.           *)
Next ==
  \/ Allocation
  \/ \E i \in DOMAIN granted : FreeFrame(i) \/ FreeFrameHalts(i)

Spec == Init /\ [][Next]_vars

-----------------------------------------------------------------------------

Extent(e) == e.addr .. e.addr + e.len - 1

(* Every variable keeps its type: head and freeBlock point into the region *)
(* or, when it is used up, at the slot behind it, and no counter leaves    *)
(* the range of size_t.                                                    *)
TypeOK ==
  /\ head \in Addr \cup {NULL}
  /\ freeBlock \in Addr \cup {NULL}
  /\ mem \in [Addr -> fBlock]
  /\ freeMemSize \in 0 .. SIZE_MOD - 1
  /\ usedMemory \in 0 .. SIZE_MOD - 1
  /\ addressSizeHT \in HT!Tables
  /\ status \in {"running", "refused", "blocked", "coalescing", "looping"}
  /\ woken \in BOOLEAN
  /\ granted \in Seq([addr : Addr, len : Nat])
  /\ freed \subseteq DOMAIN granted

(* No byte is handed out twice: the extents returned by allocateFrame are  *)
(* pairwise disjoint, those already freed included, and lie in the region. *)
(* So a frame given back twice is blocked, as freeFrame's message says.    *)
GrantsDisjoint ==
  /\ \A i \in DOMAIN granted : Extent(granted[i]) \subseteq freeMemStart .. RegionEnd - 1
  /\ \A i, j \in DOMAIN granted :
        i # j => Extent(granted[i]) \cap Extent(granted[j]) = {}

(* The allocator's own writes (block headers, list links, zeroing) never   *)
(* land in a frame that its owner still holds after the step.              *)
LiveFramesUntouched ==
  [][\A i \in DOMAIN granted \ freed' :
       \A a \in Extent(granted[i]) : mem'[a] = mem[a]]_vars

(* The counter that admits a request never promises more than the block    *)
(* the search starts from can give, so the coalescing branch of            *)
(* allocateFrame (and its second hlt) is never entered.                    *)
NeverCoalesces == status \notin {"coalescing", "looping"}

(* The bytes handed out by the requests g.                                 *)
HandedOut(g) ==
  LET sum[n \in 0 .. Len(g)] == IF n = 0 THEN 0 ELSE sum[n - 1] + g[n].len
  IN  sum[Len(g)]

(* freeFrame finds the size of no frame, however the keys collide in the   *)
(* table: what it is given back never lowers usedMemory, which counts all  *)
(* that was ever handed out and one byte more for each frame given back.   *)
UsedMemoryNeverFalls ==
  usedMemory = (HandedOut(granted) + Cardinality(freed)) % SIZE_MOD

(* Memory that is not the allocator's, the slot behind the region, is      *)
(* written to (by allocateFrame, which puts a header of size 0 there, and  *)
(* by freeFrame, which links it) only once every byte of the region has    *)
(* been handed out: a request that leaves a page never reaches it.         *)
SpillsOnlyWhenFull ==
  mem[RegionEnd] # JunkHeader => HandedOut(granted) = freeMemLen

(* The bytes from the block the search starts at to the end of the region. *)
NeverGranted == IF freeBlock = NULL THEN freeMemLen ELSE RegionEnd - freeBlock

Service == INSTANCE FrameService WITH
  Region <- freeMemStart .. RegionEnd - 1,
  FrameSizes <- {roundUpToPageBoundary(req) : req \in RequestSizes},
  extents <- granted,
  returned <- freed,
  remaining <- NeverGranted

(* The allocator implements the service of FrameService: every frame it    *)
(* returns is memory never handed out before, it refuses a request only    *)
(* when what is left at the end of the region cannot cover it, less a byte *)
(* if a frame came back, and no more than one frame ever comes back.       *)
ImplementsFrameService == Service!Spec
=============================================================================
