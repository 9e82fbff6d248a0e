-------------------------------- MODULE Heap --------------------------------
(***************************************************************************)
(* mallocx, freex and reallocx of kernel/memory/malloc.cpp: a list of      *)
(* pages, each of which can be split in two and, unsplit, joined with the  *)
(* pages after it.                                                         *)
(*                                                                         *)
(* One call runs at a time: Smp shows that the calls made while the        *)
(* processors start never overlap, and later only the boot processor       *)
(* calls, with interrupts off.  The search is one action per turn of the   *)
(* loop.  freex and reallocx, which the kernel does not call yet, are      *)
(* called here with the blocks that mallocx has returned.  The model stops *)
(* where the code goes on through a pointer that is null or data, and      *)
(* where freex undoes a growth that has not been: a flag that a user has   *)
(* left in a header makes it write through whatever lies at the buddy.     *)
(* The headers of blocks that overlap are followed as they were written,   *)
(* not as the user of the other block leaves them.                         *)
(***************************************************************************)
EXTENDS Integers, Sequences, FiniteSets

CONSTANTS
  PAGE_SIZE,
  POOL_ARRAY_SIZE,   \* number of pages
  SPARE,             \* pages of the frame behind those, 48 in the code
  BASE,              \* number of the first page
  MAXIMUM_COALESCE_BLOCKS,
  HEAD,              \* sizeof(head)
  Requests,          \* sizes asked for
  CALLS,             \* bound on the number of calls of mallocx
  FREES              \* bound on the number of calls of freex

Powers == {2 ^ k : k \in 0 .. 20}

(* Each call of freex can link as many pages more as a block has: with no  *)
(* more than FREES calls they are pages of the frame.                      *)
ASSUME HeapAssumption ==
  /\ PAGE_SIZE \in Powers /\ HEAD \in 1 .. PAGE_SIZE - 1
  /\ POOL_ARRAY_SIZE \in Nat \ {0} /\ MAXIMUM_COALESCE_BLOCKS \in Nat
  /\ Requests \subseteq 0 .. 2 ^ 20 - HEAD /\ CALLS \in Nat /\ FREES \in Nat
  /\ SPARE \in Nat /\ FREES * MAXIMUM_COALESCE_BLOCKS <= SPARE /\ BASE \in Nat

VARIABLES
  pc,           \* "idle", "search" in mallocx, "grow" in reallocx, or an end:
                \* "wild", or "buddy" when freex or reallocx has used a buddy
  freeList,     \* the first node, or NULL before initNodes
  node,         \* the headers, by address
  flagged,      \* those whose isBuddyCoalesced may be set
  currentNode,
  size,         \* of the block looked for
  mutex,
  blocks,       \* history: the blocks returned, and the calls refused
  frees,        \* number of calls of freex
  intact        \* history: Marked, see there, has been true up to now

vars == <<pc, freeList, node, flagged, currentNode, size, mutex, blocks, frees, intact>>

NULL == -1
WILD == -2   \* data where the code takes it for a pointer or a size
Half == PAGE_SIZE \div 2

(* Headers lie at the start of each page and of its second half.           *)
Pages == {p * PAGE_SIZE : p \in 0 .. POOL_ARRAY_SIZE + SPARE - 1}
Nodes == Pages \cup {p + Half : p \in Pages}
LastPage == (POOL_ARRAY_SIZE - 1) * PAGE_SIZE

(* Memory as allocateFrame returns it, all zero.                           *)
ZeroNode == [next |-> NULL, left |-> NULL, right |-> NULL, status |-> "unused",
             size |-> 0, childSize |-> 0]

(* initNodes leaves out the last page.                                     *)
initNodes ==
  [n \in Nodes |->
     IF n \in Pages /\ n < LastPage
       THEN [ZeroNode EXCEPT !.next = n + PAGE_SIZE, !.size = PAGE_SIZE,
                             !.childSize = Half]
       ELSE ZeroNode]

roundUpToNextPower2(s) ==
  CHOOSE q \in Powers : q >= s /\ \A r \in Powers : r >= s => q <= r

-----------------------------------------------------------------------------

(* Called from outside, which the bound is on, or by reallocx.             *)
Enter(request) ==
  /\ pc \in {"idle", "grow"}
  /\ pc = "idle" => Len(blocks) < CALLS
  /\ mutex = 0
  /\ mutex' = 1
  /\ pc' = "search"
  /\ freeList' = 0
  /\ node' = IF freeList = NULL THEN initNodes ELSE node
  /\ currentNode' = 0
  /\ size' = roundUpToNextPower2(request + HEAD)
  /\ UNCHANGED <<flagged, blocks, frees>>

(* Unlock and return n; the status of n is set after the unlock.           *)
Return(n) ==
  /\ pc' = "idle"
  /\ mutex' = 0
  /\ blocks' = Append(blocks, [at |-> n, size |-> size, held |-> n # NULL])
  /\ UNCHANGED <<freeList, flagged, size, currentNode, frees>>

(* Blocks of more than a page.                                             *)

blocksToCoalesce == size \div PAGE_SIZE

(* An unused page that is not the last begins a block.  The level of every *)
(* page is 0.                                                              *)
MayCoalesce ==
  /\ pc = "search" /\ size > PAGE_SIZE
  /\ node[currentNode].status # "allocated" /\ node[currentNode].next # NULL

(* The node k links further on.                                            *)
Follow(n, k) ==
  LET f[i \in 0 .. k] ==
        IF i = 0 THEN n ELSE IF f[i - 1] = NULL THEN NULL ELSE node[f[i - 1]].next
  IN  f[k]

NextNodes(k) == {Follow(currentNode, i) : i \in 1 .. k - 1}

(* A mutant of canCoalesce: the last page joined is not looked at.         *)
canCoalesceShort ==
  \A n \in NextNodes(blocksToCoalesce - 1) \ {NULL} : node[n].status # "allocated"

canCoalesce ==
  \A n \in NextNodes(blocksToCoalesce) \ {NULL} : node[n].status # "allocated"

(* Past the end of the list the code reads what lies at address 0.         *)
PastEnd == NULL \in NextNodes(blocksToCoalesce)

Refuse ==
  /\ MayCoalesce
  /\ blocksToCoalesce > MAXIMUM_COALESCE_BLOCKS
  /\ Return(NULL)
  /\ UNCHANGED node

(* A mutant of coalesceBlocks: the list still runs through the block.      *)
coalesceBlocksLinked ==
  /\ MayCoalesce
  /\ blocksToCoalesce <= MAXIMUM_COALESCE_BLOCKS
  /\ canCoalesce /\ ~ PastEnd
  /\ node' = [node EXCEPT ![currentNode].size = PAGE_SIZE * blocksToCoalesce,
                          ![currentNode].status = "allocated"]
  /\ Return(currentNode)

coalesceBlocks ==
  /\ MayCoalesce
  /\ blocksToCoalesce <= MAXIMUM_COALESCE_BLOCKS
  /\ canCoalesce /\ ~ PastEnd
  /\ node' = [node EXCEPT ![currentNode].next = Follow(currentNode, blocksToCoalesce),
                          ![currentNode].size = PAGE_SIZE * blocksToCoalesce,
                          ![currentNode].status = "allocated"]
  /\ Return(currentNode)

(* The rest of the turn, unless a block has been joined.  Past the end     *)
(* what lies at address 0 may tell that it is in use.                      *)
GoesOn ==
  /\ pc = "search"
  /\ MayCoalesce =>
       /\ blocksToCoalesce <= MAXIMUM_COALESCE_BLOCKS
       /\ ~ canCoalesce \/ PastEnd

(* A mutant of Candidate: second halves are not used.                      *)
CandidateLeft(n) ==
  IF node[n].status = "allocated" /\ node[n].next # NULL THEN node[n].next ELSE n

(* The node whose size is looked at: the second half of a page whose first *)
(* half is taken, if unused, otherwise the page after it.                  *)
Candidate(n) ==
  IF node[n].left # NULL /\ node[node[n].left].status = "allocated"
    THEN IF node[node[n].right].status = "unused" THEN node[n].right ELSE node[n].next
    ELSE IF node[n].status = "allocated" /\ node[n].next # NULL
           THEN node[n].next
           ELSE n

(* There is a candidate, and its address is not data.                      *)
Steers == GoesOn /\ node[currentNode].left # WILD /\ Candidate(currentNode) # NULL

(* The sizes are equal.  Whether the node is allocated is not looked at.   *)
Match ==
  /\ Steers
  /\ LET n == Candidate(currentNode)
     IN  /\ node[n].size = size
         /\ node' = [node EXCEPT ![n].status = "allocated"]
         /\ Return(n)

(* A mutant of Advance: a node too small is not left.                      *)
AdvanceStays ==
  /\ Steers
  /\ LET n == Candidate(currentNode)
     IN  /\ node[n].size # size
         /\ node[n].status = "allocated" \/ size > node[n].size
         /\ currentNode' = n
  /\ UNCHANGED <<pc, freeList, node, flagged, size, mutex, blocks, frees>>

(* At the end of the list this changes nothing, for ever.                  *)
Advance ==
  /\ Steers
  /\ LET n == Candidate(currentNode)
     IN  /\ node[n].size # size
         /\ node[n].status = "allocated" \/ size > node[n].size
         /\ currentNode' = IF node[n].next # NULL THEN node[n].next ELSE n
  /\ UNCHANGED <<pc, freeList, node, flagged, size, mutex, blocks, frees>>

(* A mutant of Split: the halves of the halves get smaller too.            *)
SplitChild ==
  /\ Steers
  /\ LET n == Candidate(currentNode)
         right == n + node[n].childSize
     IN  /\ node[n].status # "allocated" /\ size < node[n].size
         /\ node[n].childSize # WILD
         /\ node' = [node EXCEPT ![n].left = n, ![n].right = right,
                                 ![n].size = @ \div 2, ![n].childSize = @ \div 2]
         /\ currentNode' = n
  /\ UNCHANGED <<pc, freeList, flagged, size, mutex, blocks, frees>>

(* childSize does not change: however often a page is split, the second    *)
(* block is the one in its middle, and that of the middle is itself.       *)
Split ==
  /\ Steers
  /\ LET n == Candidate(currentNode)
         right == n + node[n].childSize
     IN  /\ node[n].status # "allocated" /\ size < node[n].size
         /\ node[n].childSize # WILD
         /\ node' = [node EXCEPT ![n].left = n, ![n].right = right,
                                 ![n].size = @ \div 2,
                                 ![right].size = node[n].size \div 2,
                                 ![right].next = node[n].next]
         /\ currentNode' = n
  /\ UNCHANGED <<pc, freeList, flagged, size, mutex, blocks, frees>>

(* Pages joined past the end of the list, or looked at there; a header in  *)
(* what has been a block, whose pointers are its user's data; or a page in *)
(* use at the end of the list, with both its halves in use.                *)
Astray ==
  /\ \/ /\ MayCoalesce /\ blocksToCoalesce <= MAXIMUM_COALESCE_BLOCKS
        /\ canCoalesce /\ PastEnd
     \/ /\ GoesOn
        /\ Steers =>
             LET n == Candidate(currentNode)
             IN  /\ node[n].status # "allocated" /\ size < node[n].size
                 /\ node[n].childSize = WILD
  /\ pc' = "wild"
  /\ UNCHANGED <<freeList, node, flagged, currentNode, size, mutex, blocks, frees>>

-----------------------------------------------------------------------------

(* What its user leaves in a block, where the code sees a header: zeroes,  *)
(* or data, whose status is not unused.                                    *)
Remains ==
  {[status |-> "unused", left |-> NULL, right |-> NULL, childSize |-> 0],
   [status |-> "allocated", left |-> WILD, right |-> WILD, childSize |-> WILD]}

(* The headers as freex leaves them: a block of more than a page is taken  *)
(* apart and linked again in the order of the pages, its last page to the  *)
(* one behind it, whether that one is in the list or not.  What lies in    *)
(* the block and is not written keeps the data of the user.                *)
Relinked(n, data) ==
  LET end    == n + node[n].size
      joined == node[n].size > PAGE_SIZE
      left(q) == [node[q] EXCEPT !.status = data.status, !.left = data.left,
                                 !.right = data.right, !.childSize = data.childSize]
      page(h) == [h EXCEPT !.status = "unused", !.size = PAGE_SIZE]
      next(h, q) == IF joined THEN [h EXCEPT !.next = q + PAGE_SIZE] ELSE h
  IN  [q \in Nodes |->
         IF q < n \/ q >= end THEN node[q]
         ELSE IF q = n THEN [next(node[n], n) EXCEPT !.status = "unused",
                                !.size = IF joined THEN PAGE_SIZE ELSE @]
         ELSE IF q \in Pages THEN [next(page(left(q)), q) EXCEPT !.childSize = Half]
         ELSE left(q)]

(* The headers inside a block.  Nobody writes their isBuddyCoalesced, when *)
(* it is given back or later.                                              *)
Inside(n) == {q \in Nodes : n < q /\ q < n + node[n].size}

Frees(i) ==
  /\ pc = "idle" /\ frees < FREES
  /\ mutex = 0
  /\ blocks[i].held
  /\ blocks' = [blocks EXCEPT ![i].held = FALSE]
  /\ frees' = frees + 1
  /\ UNCHANGED <<freeList, currentNode, size, mutex>>

(* The caller gives back a block that it holds, whose isBuddyCoalesced is  *)
(* not set.                                                                *)
freex(i) ==
  /\ Frees(i)
  /\ \E data \in Remains : node' = Relinked(blocks[i].at, data)
  /\ flagged' = flagged \cup Inside(blocks[i].at)
  /\ UNCHANGED pc

(* The exclusive or of the address and a power of 2.                       *)
buddyNode(n) ==
  LET s == node[n].size
  IN  IF ((BASE * PAGE_SIZE + n) \div s) % 2 = 1 THEN n - s ELSE n + s

(* Whether what lies at an address is a header, and not a block's data.    *)
IsHeader(a) ==
  /\ a \in Nodes
  /\ \A i \in DOMAIN blocks :
       blocks[i].held => a <= blocks[i].at \/ a >= blocks[i].at + blocks[i].size

(* isBuddyCoalesced is set, by what a user has left there: the model does  *)
(* not follow a block that reallocx has grown.  The size of the buddy,     *)
(* where 0 stands for data, becomes that of the node, and the status and   *)
(* the link of the buddy are written, whatever block it lies in.           *)
freexBuddy(i) ==
  /\ Frees(i)
  /\ LET n == blocks[i].at
         buddy == buddyNode(n)
     IN  /\ n \in flagged
         /\ node' = [q \in Nodes |->
              IF q = n THEN [node[n] EXCEPT !.status = "unused",
                               !.size = IF IsHeader(buddy) THEN node[buddy].size ELSE 0]
              ELSE IF q = buddy THEN [node[buddy] EXCEPT !.status = "unused",
                                        !.next = node[n].next]
              ELSE node[q]]
         /\ flagged' = flagged \ {n}
  /\ pc' = "buddy"

(* Where no header lies the status read is data.                           *)
BuddyStatus(n) ==
  IF IsHeader(buddyNode(n)) THEN {node[buddyNode(n)].status} ELSE {"unused", "allocated"}

(* A block to be resized.  Its header is not counted in the new size, and  *)
(* a call for the size the block has changes nothing.                      *)
Resizes(i, request) ==
  /\ pc = "idle"
  /\ mutex = 0
  /\ blocks[i].held
  /\ roundUpToNextPower2(request) # node[blocks[i].at].size

Doubles(n, request) == roundUpToNextPower2(request) >= 2 * node[n].size

(* As far as the call of mallocx, with the mutex.                          *)
Grow(i, request) ==
  /\ Resizes(i, request)
  /\ Doubles(blocks[i].at, request) \/ "allocated" \in BuddyStatus(blocks[i].at)
  /\ pc' = "grow"
  /\ mutex' = 1
  /\ UNCHANGED <<freeList, node, flagged, currentNode, size, blocks, frees>>

(* The block takes in its buddy, even if a smaller size was asked for.     *)
(* What is returned lies before the header of the block, as much as the    *)
(* block begins behind it.                                                 *)
GrowInPlace(i, request) ==
  /\ Resizes(i, request)
  /\ ~ Doubles(blocks[i].at, request)
  /\ BuddyStatus(blocks[i].at) # {"allocated"}
  /\ LET n == blocks[i].at
         grown == [node EXCEPT ![n].size = 2 * @]
     IN  node' = IF buddyNode(n) \in Nodes
                   THEN [grown EXCEPT ![buddyNode(n)].status = "allocated"]
                   ELSE grown
  /\ pc' = "buddy"
  /\ flagged' = flagged \cup {blocks[i].at}
  /\ UNCHANGED <<freeList, currentNode, size, mutex, blocks, frees>>

-----------------------------------------------------------------------------

Held == {blocks[i] : i \in {j \in DOMAIN blocks : blocks[j].held}}

(* The header of each block held tells that it is and its size, the first  *)
(* half of a page is marked if the second is held, and no page or more     *)
(* that is held begins with a page that has been split.  It is so until a  *)
(* block is given back that two callers hold, or the first half of a page  *)
(* before the second, or until one given back is followed by a larger: the *)
(* pages linked then may overlap a block, whatever is given back later; or *)
(* until the code uses a buddy, as freex does when a user has left a flag. *)
Marked ==
  \A b \in Held :
    /\ \A n \in {b.at, b.at - (b.at % PAGE_SIZE)} : node[n].status = "allocated"
    /\ node[b.at].size = b.size
    /\ b.size >= PAGE_SIZE => node[b.at].left = NULL

Watch == intact' = (intact /\ Marked' /\ pc' # "buddy")

-----------------------------------------------------------------------------

Init ==
  /\ pc = "idle"
  /\ freeList = NULL
  /\ node = [n \in Nodes |-> ZeroNode]
  /\ flagged = {}
  /\ currentNode = 0
  /\ size = 0
  /\ mutex = 0
  /\ blocks = <<>>
  /\ frees = 0
  /\ intact = TRUE

Turn == Refuse \/ coalesceBlocks \/ Match \/ Advance \/ Split \/ Astray

mallocx  == Turn \/ \E request \in Requests : Enter(request)
reallocx == \E i \in DOMAIN blocks, request \in Requests : Grow(i, request) \/ GrowInPlace(i, request)

Next ==
  /\ mallocx \/ reallocx \/ \E i \in DOMAIN blocks : freex(i) \/ freexBuddy(i)
  /\ Watch

Spec == Init /\ [][Next]_vars

(* The processor keeps executing, in mallocx and where reallocx calls it.  *)
Execute == Turn \/ (pc = "grow" /\ \E request \in Requests : Enter(request))

FairSpec == Spec /\ WF_vars(Execute /\ Watch)

-----------------------------------------------------------------------------

(* Every variable keeps its type, and no turn leaves the frame.            *)
TypeOK ==
  /\ pc \in {"idle", "search", "grow", "wild", "buddy"} /\ mutex \in {0, 1}
  /\ freeList \in {NULL, 0} /\ currentNode \in Nodes /\ size \in Nat
  /\ node \in [Nodes -> [next : Nodes \cup {NULL}, left : Nodes \cup {NULL, WILD},
                         right : Nodes \cup {NULL, WILD},
                         status : {"unused", "allocated"},
                         size : Nat, childSize : {0, Half, WILD}]]
  /\ flagged \subseteq Nodes
  /\ blocks \in Seq([at : Nodes \cup {NULL}, size : Nat, held : BOOLEAN])
  /\ frees \in 0 .. FREES /\ intact \in BOOLEAN

Disjoint(b, c) == b.at + b.size <= c.at \/ c.at + c.size <= b.at

GivenWhole ==
  intact /\ Len(blocks') > Len(blocks) =>
    LET b == blocks'[Len(blocks')]
    IN  \A c \in Held : b.held => Disjoint(b, c) \/ (b.at = c.at /\ b.size = c.size)

(* Splitting and joining never give out a part of a block that is held:    *)
(* what mallocx returns is held already as it is, or disjoint from all     *)
(* that is.                                                                *)
GivesOutWhole == [][GivenWhole]_vars

(* The headers the search can come to lie outside the memory of the blocks *)
(* returned, so that their users never overwrite one.                      *)
Reachable ==
  LET pages == {Follow(0, k) : k \in 0 .. POOL_ARRAY_SIZE + SPARE} \ {NULL}
  IN  pages \cup {node[p].right : p \in {q \in pages : node[q].left \notin {NULL, WILD}}}

HeadersSpared ==
  freeList # NULL /\ intact => \A n \in Reachable, b \in Held :
    n <= b.at \/ n >= b.at + b.size

(* What Smp takes mallocx for.  While every call has asked for the same    *)
(* size, of less than a page, and nothing is given back, the first returns *)
(* the first half of the first page, the second its other half, the third  *)
(* the second page, and so does every later one.                           *)
SameSizeSequence ==
  \A i \in DOMAIN blocks :
    (\A j \in 1 .. i : blocks[j].held /\ blocks[j].size = blocks[1].size)
      /\ blocks[1].size < PAGE_SIZE =>
      blocks[i].at = CASE i = 1 -> 0 [] i = 2 -> Half [] OTHER -> PAGE_SIZE

(* A call for at most a page returns while there is a page nobody has      *)
(* touched, or finds a header that a user has overwritten.                 *)
Untouched ==
  freeList # NULL /\ intact /\ \E p \in Reachable \cap Pages :
    node[p].size = PAGE_SIZE /\ node[p].status = "unused"

ReturnsWhileUntouched ==
  pc = "search" /\ size <= PAGE_SIZE /\ Untouched ~> pc \in {"idle", "wild"}

(* malloc.cpp: where the next block is already allocated, copy all the     *)
(* data of this block, allocate a block of size and return it.  But the    *)
(* call of mallocx waits for the mutex that reallocx has itself.           *)
ReallocReturns == pc = "grow" ~> pc = "idle"
=============================================================================
