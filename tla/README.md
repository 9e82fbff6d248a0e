# OptimistOS in TLA+

OptimistOS is a 64-bit kernel that the limine boot loader starts on every
processor of the machine.  The boot processor (BSP) sets up paging, reads the
ACPI tables, wakes the other processors (APs), creates two threads and starts
the timer whose interrupt is to run them.  This directory holds a formal model
of the kernel's own logic, the TLC runs that check it on small instances, and
TLAPS proofs of the results that matter most.

Paths are relative to `src/kernel/` unless they begin with `src/`.
`PROJECT.json` has the exact lines behind each definition (`map`), the runs,
the mutants that show each property can fail, the findings and the hazards.

## Inventory of the system

| Component | State | Operations | Interacts with | Hard behaviour |
|---|---|---|---|---|
| Page frame allocator (`paging/pageFrameAllocator.cpp`, `freeList.cpp`) | free list kept in the free memory, search start, counters | `allocateFrame`, `freeFrame` | size table; called by paging, heap, processes | headers live in the memory handed out; no lock; exhaustion |
| Frame size table (`paging/hashtable.cpp`) | 100 slots | `insert`, `search`, `deleteKey` | frame allocator | probing, collisions, deletion |
| Page tables (`paging/paging.cpp`) | `PML4`, the tables, `mutex` | `initPaging`, `map`, `newPML4` | frames, SMP, processes | every CPU rebuilds the tables behind one global pointer |
| Heap (`memory/malloc.cpp`) | `freeList` of nodes, `mutex` | `mallocx`, `freex`, `reallocx` | frames, SMP, processes | split and join; headers left in the blocks; unlock before the block is marked |
| SMP (`smp/smp.cpp`) | `cpusStarted`, `cpuInformation` | `initSMP`, `initOtherCPUs`, `getCPUInfo` | paging, heap | all CPUs at once |
| Processes (`process/process.cpp`) | lists, counts, `processMutex` | `createProcessFromRoutine`, `getNextThread`, `pitInit`, lookups and removals, `sleep` | heap, frames, paging, scheduler | the tick during creation; early returns |
| Scheduler (`scheduler/`, `pitHandler`) | `runningThread`, `lockx`, thread locks, `pitTicks` | `pitHandler`, `runThread`, `schedulerWrapper` | processes, interrupts | locks held over a switch; interrupt context |
| Interrupts (`idt/`, `kernelEntry.cpp`) | interrupt flag, frames on the stack, `handlers`, the two 8259 controllers | 256 stubs, `isrHandler`, `isrInstall`, the remapping of the controllers | scheduler | the layout of the frame; lines unmasked before the timer and the threads exist |
| ACPI (`acpi/`) | MADT lists, IOAPIC registers | `initMADT`, `initIOAPIC`, `redirectIRQ` | SMP | bounds of the table walk |
| Boot (`boot.cpp`, `kernelEntry.cpp`) | boot information | choice of the memory region, `setupOptimist` | everything | the order of the start-up |
| GDT, renderer, debug output, `lib/`, `io/` | tables, cursor | register loads, output, byte loops, locks | - | - |

What makes them correct:

- *Frame allocator*: no byte is handed out twice; the allocator never writes to
  memory somebody holds; a request is refused only when memory is short.
- *Size table*: whatever collides in it, the counters follow what was handed out.
- *Page tables*: the running kernel is always mapped; a call of `map` changes
  what it names and nothing else; all processors and processes agree on the
  kernel's half; a thread's stack is mapped in the table it runs on.
- *Heap*: no part of a block in use is given out again; blocks do not cover the
  allocator's headers; a call returns while there is memory.
- *SMP*: the shared data that has no lock is used by one processor at a time;
  each processor loads its own table and registers once; `initSMP` returns.
- *Processes and scheduler*: only complete threads are run; each runs once;
  the counters match the lists; the processor never waits for itself; the tick
  keeps coming.
- *Interrupts*: what a stub leads to, and what becomes of the code it
  interrupted; how often the controllers can interrupt.
- *ACPI*: the walk ends; which entries it keeps and counts; each interrupt is
  redirected to the pin it names, as last asked for.

## The modules

```
Hashtable
    ^ INSTANCE
PageFrameAllocator --- INSTANCE (refines) --> FrameService
    ^ <---- PageFrameAllocatorProofs            <------ MCPageFrameAllocator
Smp        <---- SmpProofs <-- SmpRegistryProofs <------ MCSmp
Heap       <---- HeapProofs                     <------ MCHeap
PageTable  <---- PageTableProofs                <------ MCPageTable
Acpi       <---- AcpiProofs                     <------ MCAcpi
Scheduler  <---- SchedulerProofs                <------ MCScheduler
Interrupts <---- InterruptsProofs               <------ MCInterrupts
```

Each module takes from the others what it does not model, and that is checked
where it belongs:

- `PageFrameAllocator`, `Heap` and `PageTable` take one call at a time, which
  `Smp` shows of the callers (`AllocatesAlone`, `RegistersAlone`, the mutex of
  `initPaging`);
- `Smp` takes the block that the n-th call of `mallocx` returns from `Heap`
  (`SameSizeSequence`);
- `PageTable` takes from `PageFrameAllocator` that frames are distinct;
- `Scheduler` and `PageFrameAllocator` take one tick at most, and nothing else
  that interrupts and returns, from `Interrupts` (`OneInterrupt`,
  `NothingReturns`), and `Interrupts` leaves to `Scheduler` what `pitHandler` does;
- `Acpi` runs before the 8259 controllers are unmasked, so that a `hlt` in it is
  final.

**PageFrameAllocator** (`paging/pageFrameAllocator.cpp`, `freeList.cpp`).
Memory is a function from addresses to the header words in it; the free list
is found by following them.  `AllocateFrame` is the whole call: initialisation
of the list at the first one, the counter's test, the selection of the block,
the header of the rest, zeroing, counters, the size table.  A request for all
that is left puts the header of the rest, of size 0, into the slot behind the
region; that slot is part of the memory modelled, and not of the region.
`FreeFrame` and `FreeFrameHalts` are the two outcomes of `freeFrame`, which
executes `hlt` after its error message and goes on if an interrupt comes.  The
kernel gets one interrupt that returns, the timer's only tick, so that one such
call goes on (`woken`), and every later one stays.  `FrameService` is the
abstract specification: memory never handed out before, until what remains is
too little.  The refinement mapping forgets list, headers and table.

**Hashtable** (`paging/hashtable.cpp`).  The operations as operators on the
array, used by the two calls of the allocator.  `insert` takes a hundred steps
before it writes, whatever it meets; the loop of `search` and `deleteKey` runs
while its counter is below a hundred, whatever it has found, and gives up when
it is back at the start, so that neither finds anything.  The bit mixing of
`hash` is an arbitrary function.

**Smp** (`smp/smp.cpp`, with the locking of `initPaging` and `mallocx`).  One
action per step that another processor could observe; `allocateFrame` is a read
of the free list and, later, its update; `cpusStarted++` a load and a store.
The kernel is built with `-O0` (`src/kernel/GNUmakefile`, line 55), so that every
load and store of the source is made, in its order.  The module ends with the
start-up: the call of `map` that `setupThreadContext` makes later, without the mutex
of `paging.cpp`, makes the global `PML4` virtual for a moment too; it is the boot
processor's alone, and its effect on the tables is in `PageTable`.

**Heap** (`memory/malloc.cpp`).  Nodes are headers at the start and at the
middle of each page.  `mallocx` is one action per turn of its search loop,
`freex` and `reallocx` are called, as the kernel does not yet call them, with
blocks that `mallocx` has returned.  A block given back leaves in the headers
inside it what its user wrote there (`Remains`): zeroes or data.  A search that
goes on through data or a null pointer ends the model (`Astray`), and so does a
join of more pages than the list still has, for `next` is null there and the code
reads on at address 0.  Where a block would
have to move, `reallocx` calls `mallocx` with the mutex taken and waits for
itself (`Grow`); where it grows in place it takes in its buddy and returns a
pointer that lies before the header (`GrowInPlace`).  `freex` undoes such a growth
if `isBuddyCoalesced` is set.  No other line writes that flag, not even where a
header is made a header again, so that what a user has left in it counts
(`flagged`): `freexBuddy` writes a size, a status and a link as the code does,
whatever block the buddy lies in.  The model stops where a buddy has been used.

**PageTable** (`paging/paging.cpp`, `paging.hpp`).  Tables are functions from
entries to entries; `Map` is one call of `map` with all the tables it allocates.
`initPaging` is the sequence of calls it makes (the first 4 GB twice, each
region above, the kernel's image) and the load of CR3; `newPML4` is the copy of
entry 0 and of the upper half.  What the processor makes of the tables
(`Translate`) is part of the properties.  Frames for stacks come from the largest
usable region, which `boot.cpp` takes wherever it lies, above 4 GB too.

**Acpi** (`acpi/acpi.cpp`, `madt.cpp`, `ioapic.cpp`).  The search for the MADT,
the walk over it (one action per entry), `initIOAPIC`, and a redirection as its
two register writes.  What lies behind the table is part of the state, because
the walk goes on there: it compares the offset from the first entry, 44 bytes
into the table, with the table's length less 16.  Addresses are numbers of six
bits whose middle half faults, so that `toPhysicalAddr` is the subtraction it is.

**Scheduler** (`process/process.cpp`, `scheduler/scheduler.cpp`, `pitHandler`).
The one processor that takes interrupts. `createProcessFromRoutine` is six
actions, cut where a tick could be taken or where the list is half written;
`Tick` interrupts any of them while interrupts are on. Two pointers of
`process.cpp` are used uninitialised: what they hold is a constant of the module
(`garbage`, `NullRead`), null or an address, and an access through them may
fault (`Faults`), as may the return of `pitHandler` through `ret`. With `Faults`
true or false, `crashed` is a state the properties have to name. Address 0 is
mapped, so that a thread created there is in the list with a null pointer: at
its head it makes `runThread` return at once, for ever; behind the head
`getNextThread` gives null, the first thread is chosen again, and the switch
goes through the words at address 0 (`PickNull`). An address other than null is
taken to be used by threads only, or to fault.

**Interrupts** (`idt/isr.asm`, `isr.cpp`, `idt.cpp`, `kernelEntry.cpp`). The
stack is a sequence of frames, a frame the words that the processor and a stub
push. An exception, or a line that the controllers choose by priority, pushes
one; `isrHandler` reads it through `cpuRegs`, whose layout is one word off, and
halts with a report, calls the handler, or ends the interrupt; `Iretq` goes
where the words above the 24 bytes dropped say, or faults and enters the next
stub; flags of 0x43 are the selector of the users' code (`IretqToUser`), which
takes a stack segment from what lies above the frame. `setupOptimist` is cut at
`isrInstall`, at the remapping of the controllers and at `pitInit`, with
interrupts off and on between them.

## The runs

| Run | Instance | What it shows |
|---|---|---|
| `frames` | region of 12 bytes and the slot behind it, pages of 2, requests of 1, 2, 3, 5 bytes, a table of 3 slots, frames freed once or twice | disjoint frames inside the region, nothing held is written to, the slot behind only once the region is used up, the coalescing branch is dead, a free never lowers the counter of used memory, refinement of `FrameService` |
| `smp` | 3 processors listed in reverse order of their ids, 2 calls of `map` each | exclusion in the unlocked allocator and in registration, own tables, `initSMP` returns |
| `smp_sparse` (finding) | 2 processors with ids 0 and 2 | the AP waits for ever |
| `sched` | 3 creations, 3 addresses, every value of the uninitialised pointers, null included | complete threads, right count, no wait for oneself, rest once a thread can be started, no routine started twice but that of the second thread, each of two threads once |
| `sched_ticks` (finding) | 2 creations, benign pointers, no faults | the second tick never comes |
| `heap` | 6 pages of 4096 bytes, 6 sizes, 4 requests, 2 blocks given back | blocks are given out as they are or apart from all others, headers spared, the sequence `Smp` uses, return while a page is untouched |
| `heap_realloc` (finding) | 3 pages, 2 requests | `reallocx` waits for its own mutex for ever |
| `page_tables` | 546 memory maps, tables of 2 entries, 2 processors, 2 processes | all memory reachable, views agree, stacks reached where `initPaging` maps their memory, `map` exact |
| `acpi` | 232 machines, 2 controllers of 3 pins, 12 redirections | which entries the lists and counts keep, pins as last asked for, the start-up gets through |
| `acpi_listed` (finding) | the same | with tables of version 2 the search for the MADT faults |
| `interrupts` | 6 exceptions, lines 0, 1 and 12, 4 and 2 sets of flags, 4 selectors above a frame, 4 frames | the controllers interrupt once, nothing interrupted through a stub goes on, every stub comes to an end |
| `interrupts_report` (finding) | the same | an exception is reported at another address |

Deadlock is not checked: in each module the system really may stop (memory
exhausted, all processors idle, a halted processor, the bound on calls reached).

Why the bounds suffice:

- *frames*: six pages are exhausted by every mix of one-, two- and three-page
  requests, frames are freed at every position of the list, exact fits and
  refusals occur, and two frames in three of the table's slots collide; the
  theorems hold for every region, page size and table.
- *smp*: three processors are the least with two APs that compete.  Two calls
  of `map` are the least where one comes after another; `LATER_FRAMES` lets the
  BSP allocate after it has gone on.  The theorems are for every number of
  processors, but for the registry's, whose bound of three is the code's.
- *sched*: the kernel creates two threads; with three `getNextThread` can pass
  one over.  Three addresses let any of the creations share memory or not.
- *heap*: six pages are fewer than four calls can use up; the sizes include the
  three branches (less than a page, a page, more) and the one refused.  Real
  sizes are used because the header's size decides which sizes round up to what.
  Two blocks given back are the least where one is given back twice over by two
  holders, or a page's halves in both orders.  `SPARE` stands for the pages of
  the same frame behind the pool: each `freex` can link as many of them as a
  block has pages, so that eight are enough for two calls, as the assumption
  demands.  `BASE`, the number of the first page, is odd because buddies are told
  by their address.  The theorems are for every pool and any number of calls.
- *page_tables*: with two entries per table a large page is two pages and a
  gigabyte four; the regions have up to six pages, so that both page sizes,
  remainders, and two regions sharing a table occur.
- *acpi*: the walk remembers nothing but the lists and the counts, so that two
  entries of seven kinds give every order of a kind and of two kinds; behind the
  table lie another table, zeroes, or entries, the only case in which something
  is counted and a redirection finds a controller.  The theorems are for every
  machine.
- *interrupts*: the exceptions have an error code or none, one that is a vector
  with and without a handler, and one beyond the 256 handlers; the lines are the
  timer's and one of each controller; the flags have and have not what `iretq`
  takes for the privilege of a selector, and four frames are enough for the
  faults of a return to repeat themselves.  The theorems are for every depth.

Some properties hold under a condition that `Heap` and `PageTable` state:

- `DirectMap`, `WritesTablesOnly` and `MapsExactly` are about *regular* memory
  maps: a region of a gigabyte or more is mapped with large pages from its first
  page on, with one more for the remainder.  If it does not begin with a multiple
  of 2 MB, or if the last large page overlaps another region, the walk for that
  region takes the large page for a table and writes an entry into memory.
  `Regular` says exactly that this does not happen.
- `KernelViewsAgree` says that all views of the kernel are the same for every
  memory map.  Its other half, that a process reaches its own stack, is said of
  stacks whose memory `initPaging` maps (`MappedAbove`): below 4 GB always, above
  only in a regular map and in a region that begins there.
  The largest usable region, from which `boot.cpp` takes all frames, may well
  lie above 4 GB in a map that is not regular, or begin below 4 GB and end above,
  in which case a thread gets a stack that its table does not map.
- `GivesOutWhole`, `HeadersSpared` and `ReturnsWhileUntouched` hold as long as
  the headers of the blocks held have been intact all along (`intact`, the
  history of `Marked`). Three sequences of legal calls end that: a block that
  two callers hold is given back by one; the first half of a page is given back
  before the second; a block given back is followed by a larger one that takes
  in a page that has been split. A fourth is the use of a buddy, where the model
  stops: a block given back whose flag a user has left set. That the headers are
  in order again is not enough: when the blocks in the way have been given back
  `Marked` holds, but the list then leads through pages that a held block
  covers. The shortest such sequence known has ten calls of `mallocx` and eight
  of `freex`, beyond the bounds of the run; the search for an inductive
  invariant found it.

### Fairness

- `Smp`: weak fairness of each processor's steps.  The processors are physical
  and nothing stops them; locks are spin locks without queues, but the runs need
  no more than that each processor keeps executing.
- `Scheduler`: weak fairness of `Execute` (the processor executes, and a routine
  returns, as both of the kernel's do), strong fairness of `Tick`: the timer fires
  again and again, so a tick is taken if interrupts are on again and again.
- `Heap`, `Acpi`: weak fairness of the turns of the loops, the caller's own
  execution, and of the call of `mallocx` that `reallocx` makes. `Acpi` assumes
  none for the redirections, which are requests.
- `Interrupts`: weak fairness of the handler and of `iretq`, which run with
  interrupts off; none for exceptions, lines, or the interrupted code.

## Findings

Five runs refute what a message, a comment or the README of the repository says
of the program; `PROJECT.json` quotes the lines.

1. Processors whose APIC ids have a gap hang the start-up (`smp_sparse`).
2. No end of interrupt is sent for the timer (`sched_ticks`): the first tick is
   the last.  Threads switch because each one, at its end, runs the next.
3. On machines with ACPI tables of version 2, as the firmware of the target
   `run-uefi` provides, `acpiFindTable` turns physical addresses into
   non-canonical ones and faults (`acpi_listed`).
4. `isrHandler` prints the error code's message for the vector's and the code
   segment for RIP (`interrupts_report`), because no stub pushes `cpuRegs.core`.
   The trace shows the address; its exception has vector and error code 0 alike.
5. Where `reallocx` is to copy a block to a new one it calls `mallocx` with the
   mutex taken that `mallocx` waits for (`heap_realloc`).

Others appear in the passing runs as what the code does:

- `search` finds nothing, so that every `freeFrame` takes its double-free path and
  executes `hlt`.  The one that a tick wakes up costs the counter of free memory a
  byte and puts a block of size 2^64 - 1 on the list (`UsedMemoryNeverFalls`).
- A request for all that is left writes a header behind the region
  (`SpillsOnlyWhenFull`).
- `mallocx` looks at the size of a node and not at its status: the third block
  of a size is returned by every later call of that size (`SameSizeSequence`).
  From the fourth processor on the records of the processors share one block.
- A search that comes to the end of the list, at a page in use whose halves are
  both in use, goes on through a null pointer (`memory/malloc.cpp`, lines 85 and
  95), where the model stops (`Astray`).  It takes six calls of `mallocx` and one
  of `freex`; the theorems about the heap cover it, the run is too short for it.
- A join of several pages near the end of the list follows a null pointer
  (`coalesceBlocks` and lines 63 to 70 of `memory/malloc.cpp`), where the model
  stops.
- `createProcessFromRoutine` tests an uninitialised pointer; if it reads as null
  the call returns with its lock taken, and the next one waits for ever: the
  exception `refused` in `NeverSpins`.
- The common stub drops one word too many: `iretq` takes the code segment for
  RIP and the flags for the segment, faults, and enters the next stub
  (`NothingReturns`).  A line other than the timer's ends in the report of an
  exception (`StubsEnd`).
- The walk over the MADT always ends beyond the table, and what it has counted
  by then is what it has read there (`CountsWhatFollows`): when another table
  follows, both counts are 0, and `getGSI` finds no controller.

## What is proved

All theorems hold for every value of the constants that satisfies the module's
named assumption.

`PageFrameAllocatorProofs` (assumption `AllocatorAssumption`): `TypeCorrect`,
`FramesDisjoint`, `CoalescingUnreachable`, `HeldFramesSpared`, `SpillsLast`,
`UsedCountsAll`, `Refinement`.
None of the invariants is inductive: that two extents never overlap depends on
where the next one is cut from.  `IInv` adds that the block at which the search
starts is the whole untouched end of the region, whatever the list looks like
(`TailBlock`), that the counter never exceeds what that block can give, that
everything granted lies below it (`GrantsBelowTail`) and that each free costs the
counter at most one byte (`CounterLag`), which the refinement's `Refuse` needs.
`UsedCountsAll` is about a sum over the history of the calls: the recursive
function that defines it is shown to have values at all by well-founded induction
on its argument, and then unfolded where a call appends to the history.
`SpillsLast` uses the same sum: what was handed out and the tail make up the region,
so that a header behind it means that nothing is left.

`HeapProofs` (`HeapAssumption`: page size a power of two and blocks of at most
2^20 bytes, the powers the prover is given as a set; and as many pages behind
the pool as `freex` can link within its bound): `TypeCorrect`, `HeadersKept`,
`WholeBlocks`, `SameSizeReturns`. The type invariant itself needs the shape of
the headers (`Shape`): that of a page leads to the end of the block that it
begins or to no page, that in the middle of a page to itself or nowhere, and no
header that is linked lies so high that its page would not be one of the pool or
of those that `freex` has linked so far (`Limit`), whatever users have written
into the headers between; it holds up to the use of a buddy, after which headers
keep their types and no more is said. What is said of blocks rests on `Listed`,
which holds while `intact` does: a page marked as allocated is one that the
search comes past, and begins a block held (`AllocatedListed`); all pages inside
a block are linked (`CoveredLinked`); a page that has been split tells half a
page and leads where its second half does (`SplitSmall`), and a half that is
held belongs to such a page (`HeldHalf`); the search is at a node it may be at
(`SearchListed`). None of them is inductive without the others: a join takes in
pages because their headers say unused, and only `Listed` tells that an unused
header is not in the middle of somebody's block. `Follow`, by which a join looks
at the pages after the first, is a recursive function and is unfolded by
induction over the pages followed. `SameSizeReturns` has an invariant of its own
(`Sequence`), the state of the first two pages after each of the first three
calls.

`PageTableProofs` (`PageTableAssumption`): `TypeCorrect`, `TablesOnly`, `Direct`,
`ViewsAgree`, `Exact`.  The assumption is about where things lie: the boot loader's
window on physical memory is a whole number of top-level entries above `HALF`, the
regions end below the kernel's image there and the stacks' address is below `HALF`
but not in the first entry, as `hhdm` (0xffff800000000000), `virtualBase`
(0xffffffff80000000) and the stack slot below 0x70000000000 are; regions follow one
another and end below the frames for tables.  The argument has four parts.

- *Places* (`Placed`): there is an assignment of places to tables, a level and the
  entries on the way to it, under which every entry that designates a table leads to
  the table of the place below.  Two ways never come to the same table, so that a
  call of `map` changes what one root has for one large page's worth of addresses
  (`Mapped`: `Effect` and `Others`).  The tables of processes, which do share, have
  places of their own, of level 0.
- *The calls* (`CallsAre`): `InitCalls` is a sequence of calls for the low memory,
  a region or the image, and covers all of each.  The sequence of the regions' calls
  is a recursive function, shown to exist by induction on the regions.
- *What is built* (`Built`): after n calls, an entry of the second level tells what
  the last large call for it mapped; without one it leads to a table when there was
  a small call, whose entry tells the last small call for the page.  A region may be
  mapped over by the last large page of another: `Apart`, `AtLow`, `AtRegion` and
  `AtKernel` say that calls for the same page agree, where the map is regular or,
  in low memory, in any case.
- *The invariant* (`IInv`): every processor's tree has been built by the same calls
  (`Forest`), the one being built by those made so far (`InitDone`), tables of
  processes hold what the last of the trees does, and processes come when all trees
  are complete (`InOrder`).  `DirectMap` alone is not inductive: while a processor
  builds its table, nothing in it says what the tables hold, and `KernelViewsAgree`
  compares the trees of two processors through `Built` without any assumption on
  the memory map.

`SmpProofs` (`SmpAssumption`; each theorem assumes `ContiguousIds`, without
which `smp_sparse` shows the start-up hangs): `TypeCorrect`,
`AllocationsExclude`, `TablesAreOwn`, `PML4Restored`, `RegistrationExclusive`,
`ReturnsComplete`.  `allocateFrame` has no lock, so that exclusion follows from
three facts `IInv` states: the BSP is past its own paging and heap
initialisation before it releases anybody (`BSPFirst`), the mutex of `paging.cpp`
(`PagingLocked`), and the turns (`Turns`): an AP has finished exactly when its id
is below `cpusStarted`, and the one registering is the one whose id equals it.

`SmpRegistryProofs` (`FewCPUs`: contiguous ids and at most three processors):
`RegistryComplete`.  `Blocks` adds to that invariant that the heap has been
called once per processor counted, and once more while one fills its record;
`Registry` that the records of those counted are complete.  The bound is needed:
the fourth call of `mallocx` returns the block of the third.

`SchedulerProofs` (`SchedulerAssumption`: the uninitialised pointers hold null
or an address of `Threads`, which other data does not share): `TypeCorrect`,
`DispatchIsComplete`, `CountIsCorrect`, `NoSelfDeadlock`, `RunsOnceEach`. `IInv`
relates where the processor is to the interrupt flag and the tick in service
(`Phases`), to the locks (`Locks`), the list to the threads made (`Listed`), the
saved stacks to the creations (`Stacks`), the counters to list and history
(`Rest`), and the order of the routines run to the list (`Order`). That there is
only one tick is what makes `runningThread` go down the list once.

`InterruptsProofs` (`InterruptsAssumption`): `TypeCorrect`, `InterruptedOnce`,
`StubsNeverReturn`.  A return would need a frame whose flags are the selector of
kernel code.  `IInv` has the fact that excludes it, that bit 1 is set in the
flags of every frame pushed (`FramesOK`), as in no selector of privilege 0; that
interrupts are enabled in code only (`EnabledInCode`); and that in code, once a
line has been served, it was the timer and is in service for good
(`TimerInService`), with the highest priority of all.

`AcpiProofs` (`AcpiAssumption`, which says through `IsMachine` what memory behind
the table may be): `TypeCorrect`, `PinsFollowRequests`, `ListsKeepLast`.  `IInv`
adds that the walk has read the entries in the order of memory and stands where
they end (`Walked`), that what is counted is in its list (`CountedListed`),
without which a redirection would not find a controller, and that each register
is as last asked for but for the half being written (`Pins`).  `ListsKeepLast`
assumes that no entry of length 0 is of a kind that is kept (`ZeroIsOther`):
the walk would read such an entry again and again.

Only model-checked:

- liveness, which is out of the prover's reach: `SMPInitialized`, `Drains`,
  `AllRunWhenTickLate`, `ReturnsWhileUntouched`, `GetsReady`, `StubsEnd`;
- the five runs that find a statement about the program violated.

## What is not modelled

Some 89,000 of the 92,700 lines of text below `src/kernel/` are the compiler's
C++ headers, copied into `include/`.  They are third-party code, and
the kernel uses types and constants of theirs only.  Of the 3,500 lines that are
the kernel's own, these are left out:

- What nothing calls and no caller explains: `sleep`, `sleepMS`,
  `getProcessInfo`, `getThreadInfo`, `removeProcessFromList` and
  `removeThreadFromList` of `process.cpp`, `prioritySort`, `getQuanta` and
  `changePriority` of `scheduler.cpp`, `unregisterIRQ` and `setEntry` of
  `ioapic.cpp`.  `Processes`, `Scheduler` and `ACPI` are partly modelled for
  this reason.
- The registers of the local APIC (`lapic.cpp`): single stores.
- `boot.cpp`: the checks of limine's responses, straight-line guards that end in
  an endless loop before there is any other state, and the choice of the largest
  usable region, whose result, never at address 0, is the region of
  `PageFrameAllocator`.
- The GDT (a constant table and a register load), the renderer and the debug
  output (no property of the kernel depends on them), the byte loops of `lib/`,
  limine (external; what it hands over are the initial states).
- Caches and the TLB: the kernel relies on the coherence of x86.
- What follows where a module stops: a null or wild pointer that is
  dereferenced, an interrupted processor that has been halted with interrupts
  off, a header used after `reallocx` or `freex` has written through a buddy, and a
  store through an uninitialised pointer into memory that is not a thread's.

## How the project is organised

The modules can be read in the order of the diagram; each has its state first,
one action per operation or step of the code, then the specification, and its
properties last.  The operator before a definition whose comment calls it *a
mutant* is that definition with a plausible slip in it, and `PROJECT.json` names
the property that then fails.  `MC` modules give the constants values and define
nothing else; the `Proofs` modules begin with the strengthening of the
invariant, have one lemma per action and end with the theorems.
