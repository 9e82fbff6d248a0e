---------------------- MODULE PageFrameAllocatorProofs ----------------------
(***************************************************************************)
(* The safety properties of PageFrameAllocator, for every region, page     *)
(* size and set of requests.                                               *)
(*                                                                         *)
(* None of them is inductive: that two extents never overlap depends on    *)
(* where the next one is cut from.  The strengthening says that the block  *)
(* the search starts at is the whole untouched end of the region, whatever *)
(* the free list looks like by then, and that freeMemSize never exceeds    *)
(* what that block can give.                                               *)
(***************************************************************************)
EXTENDS PageFrameAllocator, FiniteSetTheorems, WellFoundedInduction,
        NaturalsInduction, TLAPS

(* The free list has been initialised and freeBlock is the tail: a block   *)
(* without a successor that reaches to the end of the region.              *)
TailBlock ==
  head # NULL =>
    /\ freeBlock # NULL
    /\ mem[freeBlock].next = NULL
    /\ mem[freeBlock].size = RegionEnd - freeBlock
    /\ freeMemSize <= RegionEnd - freeBlock

(* Before the first call nothing has happened.                             *)
Untouched ==
  head = NULL =>
    /\ freeBlock = NULL
    /\ granted = <<>>
    /\ freed = {}
    /\ freeMemSize = freeMemLen

(* The list starts at the tail or at a frame that was given back.          *)
HeadIsFree ==
  head \in {NULL, freeBlock} \cup {granted[i].addr : i \in freed}

(* Everything handed out lies below the tail.                              *)
GrantsBelowTail ==
  \A i \in DOMAIN granted :
     /\ granted[i].len > 0
     /\ freeMemStart <= granted[i].addr
     /\ granted[i].addr + granted[i].len <= freeBlock

GrantsApart ==
  \A i, j \in DOMAIN granted : i # j =>
     \/ granted[i].addr + granted[i].len <= granted[j].addr
     \/ granted[j].addr + granted[j].len <= granted[i].addr

(* One tick wakes one freeFrame: no second frame is given back.            *)
WokenOnce == freed # {} => woken

(* Each frame given back costs the counter at most one byte.               *)
CounterLag == IsFiniteSet(freed) /\ NeverGranted <= freeMemSize + Cardinality(freed)

IInv ==
  /\ TypeOK
  /\ TailBlock
  /\ Untouched
  /\ HeadIsFree
  /\ GrantsBelowTail
  /\ GrantsApart
  /\ NeverCoalesces
  /\ WokenOnce
  /\ CounterLag

-----------------------------------------------------------------------------
(* Arithmetic of page rounding.                                            *)

LEMMA DivisionBounds ==
  ASSUME NEW s \in Nat
  PROVE  /\ s \div PAGESIZE \in Nat
         /\ PAGESIZE * (s \div PAGESIZE) <= s
         /\ s < PAGESIZE * (s \div PAGESIZE) + PAGESIZE
  BY AllocatorAssumption, SMT DEF AllocatorAssumption

(* A rounded request is a positive number no smaller than the request.     *)
LEMMA RoundedRequest ==
  ASSUME NEW req \in RequestSizes
  PROVE  /\ roundUpToPageBoundary(req) \in Nat
         /\ roundUpToPageBoundary(req) >= req
         /\ roundUpToPageBoundary(req) > 0
<1> DEFINE q == (req + PAGESIZE - 1) \div PAGESIZE
<1>0. req \in Nat /\ req > 0 /\ PAGESIZE \in Nat \ {0}
  BY AllocatorAssumption DEF AllocatorAssumption
<1>1. /\ q \in Nat
      /\ PAGESIZE * q <= req + PAGESIZE - 1
      /\ req + PAGESIZE - 1 < PAGESIZE * q + PAGESIZE
  <2>1. req + PAGESIZE - 1 \in Nat
    BY <1>0
  <2> QED BY <2>1, DivisionBounds
<1>2. roundUpToPageBoundary(req) = req \/ roundUpToPageBoundary(req) = q * PAGESIZE
  BY DEF roundUpToPageBoundary
<1> HIDE DEF q
<1>3. q * PAGESIZE = PAGESIZE * q /\ q * PAGESIZE \in Nat
  BY <1>0, <1>1
<1>4. q * PAGESIZE >= req
  BY <1>0, <1>1, <1>3
<1> QED BY <1>0, <1>2, <1>3, <1>4

(* The size table never has an answer, and keeps its type.                 *)
LEMMA SearchMisses ==
  ASSUME NEW a \in Addr
  PROVE  /\ HT!search(addressSizeHT, a) = -1
         /\ HT!deleteKey(addressSizeHT, a) = addressSizeHT
<1>1. HT!StopSteps(addressSizeHT, a) = {}
  BY AllocatorAssumption
  DEF AllocatorAssumption, HT!StopSteps, HT!Stops, HT!PROBES
<1> QED BY <1>1 DEF HT!search, HT!deleteKey

LEMMA InsertType ==
  ASSUME addressSizeHT \in HT!Tables, NEW a \in Addr, NEW size \in Nat
  PROVE  HT!insert(addressSizeHT, a, size) \in HT!Tables
<1> DEFINE pair == [key |-> a, value |-> size]
           slot == HT!Slot(a, HT!PROBES)
<1>1. pair \in HT!KeyValuePair
  BY DEF HT!KeyValuePair
<1>2. HT!insert(addressSizeHT, a, size) = [addressSizeHT EXCEPT ![slot] = pair]
  BY DEF HT!insert
<1> HIDE DEF pair, slot
<1> QED BY <1>1, <1>2 DEF HT!Tables

(* The history holds addresses of the region.                              *)
LEMMA GrantTypes ==
  ASSUME TypeOK, NEW i \in DOMAIN granted
  PROVE  /\ granted[i].addr \in Addr
         /\ granted[i].addr \in Nat
         /\ granted[i].len \in Nat
<1> DEFINE S == [addr : Addr, len : Nat]
<1>1. granted[i] \in S
  <2>1. granted \in Seq(S)
    BY DEF TypeOK
  <2> HIDE DEF S
  <2> QED BY <2>1
<1>2. granted[i].addr \in Addr /\ granted[i].len \in Nat
  BY <1>1
<1>3. Addr \subseteq Nat
  BY AllocatorAssumption DEF AllocatorAssumption, Addr, RegionEnd
<1> QED BY <1>2, <1>3

(* A byte handed out is an address of the region below the tail.           *)
LEMMA GrantBytes ==
  ASSUME IInv, NEW i \in DOMAIN granted, NEW a \in Extent(granted[i])
  PROVE  /\ a \in Nat /\ a \in Addr
         /\ granted[i].addr <= a
         /\ a < granted[i].addr + granted[i].len
         /\ a < freeBlock
<1>1. /\ granted[i].addr \in Nat /\ granted[i].len \in Nat
      /\ freeMemStart <= granted[i].addr
      /\ granted[i].addr + granted[i].len <= freeBlock
  BY GrantTypes DEF IInv, GrantsBelowTail
<1>2. /\ a \in Nat /\ granted[i].addr <= a
      /\ a < granted[i].addr + granted[i].len
  BY <1>1 DEF Extent
<1>3. freeBlock \in Nat /\ freeBlock <= RegionEnd
  BY AllocatorAssumption
  DEF IInv, TypeOK, AllocatorAssumption, Addr, RegionEnd, NULL
<1>4. freeMemStart \in Nat /\ RegionEnd \in Nat
  BY AllocatorAssumption DEF AllocatorAssumption, RegionEnd
<1> QED BY <1>1, <1>2, <1>3, <1>4 DEF Addr

-----------------------------------------------------------------------------
(* What every call of allocateFrame finds: the search starts at the tail,  *)
(* and the tail is the block it selects.                                   *)

LEMMA TailAtCall ==
  ASSUME IInv
  PROVE  /\ MemAtCall \in [Addr -> fBlock]
         /\ FreeAtCall \in Addr
         /\ FreeAtCall # NULL
         /\ MemAtCall[FreeAtCall].next = NULL
         /\ MemAtCall[FreeAtCall].size = RegionEnd - FreeAtCall
         /\ freeMemSize <= RegionEnd - FreeAtCall
         /\ NeverGranted = RegionEnd - FreeAtCall
         /\ \A i \in DOMAIN granted : granted[i].addr + granted[i].len <= FreeAtCall
<1> USE AllocatorAssumption
<1>1. CASE head = NULL
  <2>1. /\ freeBlock = NULL /\ granted = <<>> /\ freeMemSize = freeMemLen
        /\ freeMemLen \in 0 .. SIZE_MOD - 1 /\ mem \in [Addr -> fBlock]
    BY <1>1 DEF IInv, Untouched, TypeOK
  <2>2. freeMemStart \in Addr /\ freeMemStart # NULL
    BY DEF AllocatorAssumption, Addr, RegionEnd, NULL
  <2> DEFINE h == [size |-> freeMemSize, next |-> NULL,
                   previous |-> mem[freeMemStart].previous]
  <2>3. h \in fBlock
    BY <2>1, <2>2 DEF fBlock
  <2>4. MemAtCall = [mem EXCEPT ![freeMemStart] = h]
    BY <1>1, <2>1, <2>2 DEF MemAtCall, initFreeList
  <2>5. h.next = NULL /\ h.size = freeMemSize
    OBVIOUS
  <2> HIDE DEF h
  <2>6. MemAtCall \in [Addr -> fBlock] /\ MemAtCall[freeMemStart] = h
    BY <2>1, <2>2, <2>3, <2>4
  <2>7. FreeAtCall = freeMemStart
    BY <1>1 DEF FreeAtCall
  <2> QED
    BY <2>1, <2>2, <2>5, <2>6, <2>7
    DEF AllocatorAssumption, RegionEnd, NeverGranted, NULL
<1>2. CASE head # NULL
  <2>1. MemAtCall = mem /\ FreeAtCall = freeBlock
    BY <1>2 DEF MemAtCall, FreeAtCall
  <2> QED
    BY <1>2, <2>1
    DEF IInv, TypeOK, TailBlock, GrantsBelowTail, NeverGranted
<1> QED BY <1>1, <1>2

LEMMA TailIsSelected ==
  ASSUME IInv, NEW size \in Nat, size <= freeMemSize
  PROVE  /\ SelectBlock(MemAtCall, FreeAtCall, size) = FreeAtCall
         /\ ~ Cyclic(MemAtCall, FreeAtCall)
<1>1. /\ MemAtCall[FreeAtCall].next = NULL
      /\ MemAtCall[FreeAtCall].size = RegionEnd - FreeAtCall
      /\ freeMemSize <= RegionEnd - FreeAtCall
      /\ FreeAtCall \in Addr
  BY TailAtCall
<1>2. RegionEnd \in Nat /\ FreeAtCall \in Nat /\ freeMemSize \in Nat
  BY <1>1, AllocatorAssumption
  DEF AllocatorAssumption, Addr, RegionEnd, IInv, TypeOK
<1>3. MemAtCall[FreeAtCall].size >= size
  BY <1>1, <1>2
<1> QED BY <1>1, <1>3 DEF SelectBlock, Cyclic

-----------------------------------------------------------------------------
(* The steps.                                                              *)

(* The action LiveFramesUntouched speaks of.                               *)
SparesLiveFrames ==
  \A i \in DOMAIN granted \ freed' :
     \A a \in Extent(granted[i]) : mem'[a] = mem[a]

LEMMA Wraps ==
  ASSUME NEW n \in Int
  PROVE  n % SIZE_MOD \in 0 .. SIZE_MOD - 1
<1>1. SIZE_MOD \in Nat \ {0}
  BY AllocatorAssumption DEF AllocatorAssumption, RegionEnd
<1> QED BY <1>1

LEMMA InitStep == Init => IInv
<1> SUFFICES ASSUME Init PROVE IInv
  OBVIOUS
<1> USE AllocatorAssumption DEF Init
<1>1. /\ freeMemLen \in 0 .. SIZE_MOD - 1 /\ 0 \in 0 .. SIZE_MOD - 1
      /\ granted = <<>> /\ freed = {} /\ DOMAIN granted = {}
  BY DEF AllocatorAssumption, RegionEnd
<1>2. HT!EmptyTable \in HT!Tables
  <2> DEFINE pair == [key |-> 0, value |-> 0]
  <2>1. pair \in HT!KeyValuePair
    BY DEF HT!KeyValuePair
  <2>2. HT!EmptyTable = [i \in 0 .. TABLE_SIZE - 1 |-> pair]
    BY DEF HT!EmptyTable
  <2> HIDE DEF pair
  <2> QED BY <2>1, <2>2 DEF HT!Tables
<1>3. TypeOK
  <2>1. mem \in [Addr -> fBlock] /\ woken \in BOOLEAN
    BY DEF AllocatorAssumption
  <2>2. granted \in Seq([addr : Addr, len : Nat]) /\ freed \subseteq DOMAIN granted
    BY <1>1
  <2> QED BY <1>1, <1>2, <2>1, <2>2 DEF TypeOK
<1>4. CounterLag
  BY <1>1, FS_EmptySet DEF CounterLag, NeverGranted, AllocatorAssumption
<1> QED
  BY <1>1, <1>3, <1>4
  DEF IInv, TailBlock, Untouched, HeadIsFree, GrantsBelowTail, GrantsApart,
      NeverCoalesces, WokenOnce

LEMMA OutOfMemoryStep ==
  ASSUME IInv, NEW req \in RequestSizes, OutOfMemory(req)
  PROVE  IInv' /\ SparesLiveFrames
<1> USE DEF OutOfMemory
<1>1. /\ mem' = MemAtCall /\ freeBlock' = FreeAtCall /\ status' = "refused"
      /\ UNCHANGED <<freeMemSize, usedMemory, addressSizeHT, woken, granted, freed>>
      /\ head' = (IF head = NULL THEN freeMemStart ELSE head)
  OBVIOUS
<1>2. /\ MemAtCall \in [Addr -> fBlock]
      /\ FreeAtCall \in Addr
      /\ FreeAtCall # NULL
      /\ MemAtCall[FreeAtCall].next = NULL
      /\ MemAtCall[FreeAtCall].size = RegionEnd - FreeAtCall
      /\ freeMemSize <= RegionEnd - FreeAtCall
      /\ NeverGranted = RegionEnd - FreeAtCall
      /\ \A i \in DOMAIN granted : granted[i].addr + granted[i].len <= FreeAtCall
  BY TailAtCall
<1>3. head' \in Addr /\ head' # NULL
  BY <1>1, AllocatorAssumption
  DEF AllocatorAssumption, Addr, RegionEnd, NULL, IInv, TypeOK
<1>4. TypeOK'
  BY <1>1, <1>2, <1>3 DEF IInv, TypeOK
<1>5. TailBlock' /\ Untouched'
  BY <1>1, <1>2, <1>3 DEF TailBlock, Untouched, RegionEnd
<1>6. HeadIsFree'
  BY <1>1 DEF IInv, HeadIsFree, FreeAtCall
<1>7. GrantsBelowTail' /\ GrantsApart' /\ NeverCoalesces' /\ WokenOnce'
  BY <1>1, <1>2 DEF IInv, GrantsBelowTail, GrantsApart, NeverCoalesces, WokenOnce
<1>8. CounterLag'
  <2>1. NeverGranted' = NeverGranted
    BY <1>1, <1>2 DEF NeverGranted, RegionEnd
  <2> QED BY <1>1, <2>1 DEF IInv, CounterLag
<1>9. SparesLiveFrames
  <2>1. CASE head = NULL
    BY <2>1 DEF IInv, Untouched, SparesLiveFrames
  <2>2. CASE head # NULL
    BY <1>1, <2>2 DEF MemAtCall, SparesLiveFrames
  <2> QED BY <2>1, <2>2
<1> QED BY <1>4, <1>5, <1>6, <1>7, <1>8, <1>9 DEF IInv

LEMMA AllocateStep ==
  ASSUME IInv, NEW req \in RequestSizes, AllocateFrame(req)
  PROVE  IInv' /\ SparesLiveFrames
<1> DEFINE size == roundUpToPageBoundary(req)
           B == FreeAtCall
           M == MemAtCall
           e == [addr |-> B, len |-> size]
           h == [size |-> M[B].size - size, next |-> M[B].next,
                 previous |-> M[B + size].previous]
<1>1. size \in Nat /\ size > 0
  BY RoundedRequest
<1>2. /\ M \in [Addr -> fBlock]
      /\ B \in Addr
      /\ B # NULL
      /\ M[B].next = NULL
      /\ M[B].size = RegionEnd - B
      /\ freeMemSize <= RegionEnd - B
      /\ NeverGranted = RegionEnd - B
      /\ \A i \in DOMAIN granted : granted[i].addr + granted[i].len <= B
  BY TailAtCall
<1>3. size <= freeMemSize
  BY DEF AllocateFrame, Fits
<1>4. Grant(M, B, size)
  BY <1>1, <1>2, <1>3, TailIsSelected DEF AllocateFrame
<1>5. /\ mem' = MemAfterGrant(M, B, size)
      /\ head' = B + size /\ freeBlock' = B + size
      /\ freeMemSize' = freeMemSize - size
      /\ usedMemory' = (usedMemory + size) % SIZE_MOD
      /\ addressSizeHT' = HT!insert(addressSizeHT, B, size)
      /\ granted' = Append(granted, e)
      /\ status' = status /\ woken' = woken /\ freed' = freed
  BY <1>4 DEF Grant, NewBlock
<1>6. /\ freeMemStart \in Nat /\ RegionEnd \in Nat /\ B \in Nat
      /\ freeMemStart > 0 /\ freeMemStart <= B
      /\ freeMemSize \in 0 .. SIZE_MOD - 1 /\ usedMemory \in 0 .. SIZE_MOD - 1
      /\ SIZE_MOD \in Nat /\ RegionEnd < SIZE_MOD
      /\ B + size \in Addr /\ B + size > 0 /\ B + size # NULL
  BY <1>1, <1>2, <1>3, AllocatorAssumption
  DEF AllocatorAssumption, Addr, RegionEnd, IInv, TypeOK, NULL
<1>7. granted \in Seq([addr : Addr, len : Nat]) /\ e \in [addr : Addr, len : Nat]
  BY <1>1, <1>2 DEF IInv, TypeOK
<1>8. mem' = [a \in Addr |->
                IF a = B + size THEN [h EXCEPT !.previous = M[a].previous]
                ELSE IF a \in B .. B + size - 1 THEN ZeroHeader
                ELSE M[a]]
  BY <1>5 DEF MemAfterGrant, NewBlock
<1>9. /\ h \in fBlock /\ ZeroHeader \in fBlock
      /\ h.next = NULL /\ h.size = RegionEnd - (B + size)
  BY <1>1, <1>2, <1>3, <1>6 DEF fBlock, ZeroHeader
<1> HIDE DEF size, B, M, h
<1>10. mem' \in [Addr -> fBlock] /\ mem'[B + size] = h
  <2>1. \A a \in Addr : [h EXCEPT !.previous = M[a].previous] \in fBlock
    BY <1>2, <1>9 DEF fBlock
  <2>2. [h EXCEPT !.previous = M[B + size].previous] = h
    BY DEF h
  <2> QED BY <1>2, <1>6, <1>8, <1>9, <2>1, <2>2
<1>11. /\ DOMAIN granted = 1 .. Len(granted) /\ Len(granted) \in Nat
       /\ DOMAIN granted' = 1 .. Len(granted) + 1
       /\ granted' \in Seq([addr : Addr, len : Nat])
       /\ \A i \in DOMAIN granted : granted'[i] = granted[i]
       /\ granted'[Len(granted) + 1] = e
       /\ e.addr = B /\ e.len = size
       /\ \A i \in DOMAIN granted : /\ granted[i].addr \in Addr
                                    /\ granted[i].addr \in Nat
                                    /\ granted[i].len \in Nat
  <2>1. e.addr = B /\ e.len = size
    OBVIOUS
  <2>2. \A i \in DOMAIN granted : /\ granted[i].addr \in Addr
                                  /\ granted[i].addr \in Nat
                                  /\ granted[i].len \in Nat
    BY GrantTypes DEF IInv
  <2> DEFINE S == [addr : Addr, len : Nat]
  <2>3. granted \in Seq(S) /\ e \in S /\ granted' = Append(granted, e)
    BY <1>5, <1>7
  <2> HIDE DEF e, S
  <2>4. /\ DOMAIN granted = 1 .. Len(granted) /\ Len(granted) \in Nat
        /\ DOMAIN granted' = 1 .. Len(granted) + 1
        /\ granted' \in Seq(S)
        /\ \A i \in DOMAIN granted : granted'[i] = granted[i]
        /\ granted'[Len(granted) + 1] = e
    BY <2>3
  <2> QED BY <2>1, <2>2, <2>4 DEF S
<1> HIDE DEF e
<1>12. TypeOK'
  <2>1. usedMemory' \in 0 .. SIZE_MOD - 1
    <3>1. usedMemory + size \in Int
      BY <1>1, <1>6
    <3> QED BY <1>5, <3>1, Wraps
  <2>2. addressSizeHT' \in HT!Tables
    BY <1>1, <1>2, <1>5, InsertType DEF IInv, TypeOK
  <2>3. freeMemSize' \in 0 .. SIZE_MOD - 1
    BY <1>1, <1>3, <1>5, <1>6
  <2>4. freed' \subseteq DOMAIN granted'
    BY <1>5, <1>11 DEF IInv, TypeOK
  <2> QED BY <1>5, <1>6, <1>10, <1>11, <2>1, <2>2, <2>3, <2>4 DEF IInv, TypeOK
<1>13. TailBlock' /\ Untouched' /\ HeadIsFree'
  <2>1. mem'[freeBlock'] = h
    BY <1>5, <1>10
  <2>2. freeMemSize' <= RegionEnd - freeBlock'
    <3>1. freeMemSize - size <= RegionEnd - (B + size)
      BY <1>1, <1>2, <1>6
    <3> QED BY <1>5, <3>1
  <2> QED BY <1>5, <1>6, <1>9, <2>1, <2>2 DEF TailBlock, Untouched, HeadIsFree
<1>14. GrantsBelowTail'
  <2> SUFFICES ASSUME NEW i \in DOMAIN granted'
               PROVE  /\ granted'[i].len > 0
                      /\ freeMemStart <= granted'[i].addr
                      /\ granted'[i].addr + granted'[i].len <= freeBlock'
    BY DEF GrantsBelowTail
  <2>1. CASE i \in DOMAIN granted
    BY <1>1, <1>2, <1>5, <1>6, <1>11, <2>1 DEF IInv, GrantsBelowTail
  <2>2. CASE i = Len(granted) + 1
    <3>1. granted'[i].addr = B /\ granted'[i].len = size /\ freeBlock' = B + size
      BY <1>5, <1>11, <2>2
    <3> QED BY <1>1, <1>6, <3>1
  <2> QED BY <1>11, <2>1, <2>2
<1>15. GrantsApart'
  <2> SUFFICES ASSUME NEW i \in DOMAIN granted', NEW j \in DOMAIN granted', i # j
               PROVE  \/ granted'[i].addr + granted'[i].len <= granted'[j].addr
                      \/ granted'[j].addr + granted'[j].len <= granted'[i].addr
    BY DEF GrantsApart
  <2>1. CASE i \in DOMAIN granted /\ j \in DOMAIN granted
    BY <1>11, <2>1 DEF IInv, GrantsApart
  <2>2. CASE i \in DOMAIN granted /\ j = Len(granted) + 1
    BY <1>2, <1>11, <2>2
  <2>3. CASE j \in DOMAIN granted /\ i = Len(granted) + 1
    BY <1>2, <1>11, <2>3
  <2> QED BY <1>11, <2>1, <2>2, <2>3
<1>16. NeverCoalesces' /\ WokenOnce'
  BY <1>5 DEF IInv, NeverCoalesces, WokenOnce
<1>17. CounterLag'
  <2>1. NeverGranted' = NeverGranted - size
    <3>1. NeverGranted' = RegionEnd - (B + size)
      BY <1>5, <1>6 DEF NeverGranted
    <3> QED BY <1>1, <1>2, <1>6, <3>1
  <2>2. Cardinality(freed) \in Nat
    BY FS_CardinalityType DEF IInv, CounterLag
  <2> QED BY <1>1, <1>2, <1>5, <1>6, <2>1, <2>2 DEF IInv, CounterLag
<1>18. SparesLiveFrames
  <2>1. CASE head = NULL
    BY <2>1 DEF IInv, Untouched, SparesLiveFrames
  <2>2. CASE head # NULL
    <3>1. M = mem
      BY <2>2 DEF M, MemAtCall
    <3> SUFFICES ASSUME NEW i \in DOMAIN granted, NEW a \in Extent(granted[i])
                 PROVE  mem'[a] = mem[a]
      BY DEF SparesLiveFrames
    <3>2. a \in Addr /\ a < B
      <4>1. /\ a \in Addr /\ a \in Nat
            /\ a < granted[i].addr + granted[i].len
        BY GrantBytes
      <4>2. /\ granted[i].addr + granted[i].len <= B
            /\ granted[i].addr \in Nat /\ granted[i].len \in Nat
        BY <1>2, <1>11
      <4> QED BY <1>6, <4>1, <4>2
    <3> QED BY <1>1, <1>6, <1>8, <3>1, <3>2
  <2> QED BY <2>1, <2>2
<1> QED BY <1>12, <1>13, <1>14, <1>15, <1>16, <1>17, <1>18 DEF IInv

(* A frame its owner still holds is not where the free list starts.        *)
LEMMA HeldIsNotHead ==
  ASSUME IInv, NEW i \in DOMAIN granted \ freed
  PROVE  /\ head # NULL
         /\ granted[i].addr # head
         /\ granted[i].addr # freeBlock
         /\ granted[i].addr \in Addr
         /\ granted[i].addr # NULL
<1>1. head # NULL
  BY DEF IInv, Untouched
<1>2. \A j \in DOMAIN granted : granted[j].addr \in Nat /\ granted[j].len \in Nat
  BY GrantTypes DEF IInv
<1>3. freeBlock \in Nat
  BY AllocatorAssumption
  DEF IInv, TypeOK, AllocatorAssumption, Addr, RegionEnd, NULL
<1>4. granted[i].addr # freeBlock
  BY <1>2, <1>3 DEF IInv, GrantsBelowTail
<1>5. ASSUME NEW j \in freed PROVE granted[i].addr # granted[j].addr
  <2>1. j \in DOMAIN granted /\ i # j
    BY <1>5 DEF IInv, TypeOK
  <2>2. granted[i].len > 0 /\ granted[j].len > 0
    BY <2>1 DEF IInv, GrantsBelowTail
  <2>3. \/ granted[i].addr + granted[i].len <= granted[j].addr
        \/ granted[j].addr + granted[j].len <= granted[i].addr
    BY <2>1 DEF IInv, GrantsApart
  <2> QED BY <1>2, <2>1, <2>2, <2>3
<1>6. granted[i].addr # NULL
  BY <1>2, GrantTypes, AllocatorAssumption
  DEF IInv, AllocatorAssumption, Addr, NULL
<1> QED BY <1>1, <1>4, <1>5, <1>6, GrantTypes DEF IInv, HeadIsFree

(* Adding -1, converted to size_t, to a positive counter.                  *)
LEMMA MinusOne ==
  ASSUME NEW n \in 1 .. SIZE_MOD - 1
  PROVE  /\ -1 % SIZE_MOD = SIZE_MOD - 1
         /\ (n + (SIZE_MOD - 1)) % SIZE_MOD = n - 1
<1>1. SIZE_MOD \in Nat \ {0}
  BY AllocatorAssumption DEF AllocatorAssumption, RegionEnd
<1> QED BY <1>1

(* freeFrame goes on only after the tick, and so only once.                *)
LEMMA FreeIsFirst ==
  ASSUME IInv, NEW i \in DOMAIN granted, FreeFrame(i)
  PROVE  /\ i \in DOMAIN granted \ freed
         /\ freed = {}
         /\ woken' = TRUE
<1>1. HT!search(addressSizeHT, granted[i].addr) = -1
  BY GrantTypes, SearchMisses DEF IInv
<1>2. ~ woken /\ woken' = TRUE
  BY <1>1 DEF FreeFrame
<1> QED BY <1>2 DEF IInv, WokenOnce

LEMMA FreeStep ==
  ASSUME IInv, NEW i \in DOMAIN granted, FreeFrame(i)
  PROVE  IInv' /\ SparesLiveFrames
<1>0. i \in DOMAIN granted \ freed /\ woken' = TRUE
  BY FreeIsFirst
<1> DEFINE a == granted[i].addr
           size == HT!search(addressSizeHT, a) % SIZE_MOD
           b == [[mem[a] EXCEPT !.size = size] EXCEPT !.next = head]
           h == [mem[head] EXCEPT !.previous = a]
<1>1. /\ head \in Addr /\ head # NULL /\ a # head /\ a # freeBlock
      /\ a \in Addr /\ a # NULL
  BY <1>0, HeldIsNotHead DEF IInv, TypeOK
<1>2. size = -1 % SIZE_MOD /\ HT!deleteKey(addressSizeHT, a) = addressSizeHT
  BY <1>1, SearchMisses
<1>3. size \in 0 .. SIZE_MOD - 1
  BY <1>2, Wraps
<1>4. /\ mem' = [mem EXCEPT ![a] = b, ![head] = h]
      /\ head' = a /\ freeBlock' = freeBlock
      /\ addressSizeHT' = addressSizeHT
      /\ usedMemory' = (usedMemory - size) % SIZE_MOD
      /\ freeMemSize' = IF freeMemSize # 0
                        THEN (freeMemSize + size) % SIZE_MOD ELSE freeMemSize
      /\ freed' = freed \cup {i}
      /\ status' = status /\ granted' = granted
  BY <1>1, <1>2 DEF FreeFrame, Release
<1>5. mem \in [Addr -> fBlock] /\ usedMemory \in Int /\ freeMemSize \in 0 .. SIZE_MOD - 1
  BY DEF IInv, TypeOK
<1>6. /\ b \in fBlock /\ h \in fBlock
      /\ h.next = mem[head].next /\ h.size = mem[head].size
  BY <1>1, <1>3, <1>5 DEF fBlock
<1> HIDE DEF a, size, b, h
<1>7. /\ mem' \in [Addr -> fBlock]
      /\ mem'[head] = h
      /\ \A x \in Addr : x # a /\ x # head => mem'[x] = mem[x]
  BY <1>1, <1>4, <1>5, <1>6
<1>8. freeMemSize' = IF freeMemSize = 0 THEN 0 ELSE freeMemSize - 1
  <2>1. CASE freeMemSize = 0
    BY <1>4, <2>1
  <2>2. CASE freeMemSize # 0
    <3>1. freeMemSize \in 1 .. SIZE_MOD - 1
      BY <1>5, <2>2
    <3> QED BY <1>2, <1>4, <2>2, <3>1, MinusOne
  <2> QED BY <2>1, <2>2
<1>9. TypeOK'
  <2>1. usedMemory' \in 0 .. SIZE_MOD - 1
    BY <1>3, <1>4, <1>5, Wraps
  <2>2. freeMemSize' \in 0 .. SIZE_MOD - 1
    <3>1. SIZE_MOD \in Nat
      BY AllocatorAssumption DEF AllocatorAssumption
    <3> QED BY <1>5, <1>8, <3>1
  <2> QED BY <1>0, <1>1, <1>4, <1>7, <2>1, <2>2 DEF IInv, TypeOK
<1>10. TailBlock' /\ Untouched' /\ HeadIsFree'
  <2>1. mem'[freeBlock].next = mem[freeBlock].next
        /\ mem'[freeBlock].size = mem[freeBlock].size
    BY <1>1, <1>6, <1>7 DEF IInv, TypeOK, TailBlock
  <2>2. freeMemSize' <= RegionEnd - freeBlock
    <3>1. /\ freeMemSize <= RegionEnd - freeBlock /\ RegionEnd - freeBlock \in Int
          /\ RegionEnd - freeBlock >= 0
      BY <1>1, AllocatorAssumption
      DEF IInv, TypeOK, TailBlock, AllocatorAssumption, Addr, RegionEnd
    <3> QED BY <1>5, <1>8, <3>1
  <2>3. TailBlock'
    BY <1>1, <1>4, <2>1, <2>2 DEF IInv, TailBlock
  <2>4. Untouched' /\ HeadIsFree'
    BY <1>1, <1>4 DEF Untouched, HeadIsFree, a
  <2> QED BY <2>3, <2>4
<1>11. GrantsBelowTail' /\ GrantsApart' /\ NeverCoalesces' /\ WokenOnce'
  BY <1>0, <1>4 DEF IInv, GrantsBelowTail, GrantsApart, NeverCoalesces, WokenOnce
<1>12. CounterLag'
  <2>1. IsFiniteSet(freed) /\ NeverGranted <= freeMemSize + Cardinality(freed)
    BY DEF IInv, CounterLag
  <2>2. /\ IsFiniteSet(freed') /\ Cardinality(freed') = Cardinality(freed) + 1
        /\ Cardinality(freed) \in Nat
    BY <1>0, <1>4, <2>1, FS_AddElement, FS_CardinalityType
  <2>3. NeverGranted' = NeverGranted /\ NeverGranted \in Int
    BY <1>1, <1>4, AllocatorAssumption
    DEF NeverGranted, IInv, TypeOK, AllocatorAssumption, Addr, RegionEnd
  <2> QED BY <1>5, <1>8, <2>1, <2>2, <2>3 DEF CounterLag
<1>13. SparesLiveFrames
  <2> SUFFICES ASSUME NEW j \in DOMAIN granted \ freed', NEW x \in Extent(granted[j])
               PROVE  mem'[x] = mem[x]
    BY DEF SparesLiveFrames
  <2>1. j \in DOMAIN granted \ freed /\ j # i
    BY <1>0, <1>4
  <2>2. /\ x \in Nat /\ x \in Addr /\ granted[j].addr <= x
        /\ x < granted[j].addr + granted[j].len /\ x < freeBlock
    BY <2>1, GrantBytes
  <2>3. ASSUME NEW k \in DOMAIN granted, k # j PROVE x # granted[k].addr
    <3>1. \/ granted[j].addr + granted[j].len <= granted[k].addr
          \/ granted[k].addr + granted[k].len <= granted[j].addr
      BY <2>1, <2>3 DEF IInv, GrantsApart
    <3>2. /\ granted[k].addr \in Nat /\ granted[k].len \in Nat /\ granted[k].len > 0
          /\ granted[j].addr \in Nat /\ granted[j].len \in Nat
      BY <2>1, <2>3, GrantTypes DEF IInv, GrantsBelowTail
    <3> QED BY <2>2, <3>1, <3>2
  <2>4. x # a
    BY <2>1, <2>3 DEF a
  <2>5. x # head
    <3>1. x # freeBlock
      BY <1>1, <2>2, AllocatorAssumption
      DEF IInv, TypeOK, TailBlock, AllocatorAssumption, Addr, RegionEnd
    <3>2. \A k \in freed : k \in DOMAIN granted /\ k # j
      BY <2>1 DEF IInv, TypeOK
    <3> QED BY <1>1, <2>3, <3>1, <3>2 DEF IInv, HeadIsFree
  <2> QED BY <1>7, <2>2, <2>4, <2>5
<1> QED BY <1>9, <1>10, <1>11, <1>12, <1>13 DEF IInv

LEMMA NextStep ==
  ASSUME IInv, Next
  PROVE  IInv' /\ SparesLiveFrames
<1>1. ASSUME NEW req \in RequestSizes, OutOfMemory(req)
      PROVE  IInv' /\ SparesLiveFrames
  BY <1>1, OutOfMemoryStep
<1>2. ASSUME NEW req \in RequestSizes, AllocateFrame(req)
      PROVE  IInv' /\ SparesLiveFrames
  BY <1>2, AllocateStep
<1>3. ASSUME NEW i \in DOMAIN granted, FreeFrame(i)
      PROVE  IInv' /\ SparesLiveFrames
  BY <1>3, FreeStep
<1>4. ASSUME NEW i \in DOMAIN granted, FreeFrameHalts(i)
      PROVE  IInv' /\ SparesLiveFrames
  <2>1. /\ UNCHANGED <<head, freeBlock, mem, freeMemSize, usedMemory,
                       addressSizeHT, woken, granted, freed>>
        /\ status' = "blocked"
    BY <1>4 DEF FreeFrameHalts
  <2> QED
    BY <2>1
    DEF IInv, TypeOK, TailBlock, Untouched, HeadIsFree, GrantsBelowTail,
        GrantsApart, NeverCoalesces, WokenOnce, CounterLag, NeverGranted, SparesLiveFrames
<1> QED BY <1>1, <1>2, <1>3, <1>4 DEF Next, Allocation

LEMMA StutterStep ==
  ASSUME IInv, UNCHANGED vars
  PROVE  IInv' /\ SparesLiveFrames
BY DEF vars, IInv, TypeOK, TailBlock, Untouched, HeadIsFree, GrantsBelowTail,
       GrantsApart, NeverCoalesces, WokenOnce, CounterLag, NeverGranted, SparesLiveFrames

THEOREM Invariance == Spec => []IInv
<1>1. IInv /\ [Next]_vars => IInv'
  BY NextStep, StutterStep
<1> QED BY InitStep, <1>1, PTL DEF Spec

-----------------------------------------------------------------------------

(* head and freeBlock always point into the region or right behind it, and *)
(* no counter leaves the range of size_t.                                  *)
THEOREM TypeCorrect == Spec => []TypeOK
<1>1. IInv => TypeOK
  BY DEF IInv
<1> QED BY <1>1, Invariance, PTL

(* allocateFrame never hands out a byte twice, for any region and any      *)
(* sequence of requests and returns.                                       *)
THEOREM FramesDisjoint == Spec => []GrantsDisjoint
<1>1. IInv => GrantsDisjoint
  <2> SUFFICES ASSUME IInv PROVE GrantsDisjoint
    OBVIOUS
  <2>1. ASSUME NEW i \in DOMAIN granted
        PROVE  Extent(granted[i]) \subseteq freeMemStart .. RegionEnd - 1
    <3> SUFFICES ASSUME NEW a \in Extent(granted[i])
                 PROVE  a \in freeMemStart .. RegionEnd - 1
      OBVIOUS
    <3>1. a \in Addr /\ a < freeBlock
      BY GrantBytes
    <3> QED
      BY <3>1, AllocatorAssumption
      DEF IInv, TypeOK, AllocatorAssumption, Addr, RegionEnd, NULL
  <2>2. ASSUME NEW i \in DOMAIN granted, NEW j \in DOMAIN granted, i # j
        PROVE  Extent(granted[i]) \cap Extent(granted[j]) = {}
    <3>1. \/ granted[i].addr + granted[i].len <= granted[j].addr
          \/ granted[j].addr + granted[j].len <= granted[i].addr
      BY <2>2 DEF IInv, GrantsApart
    <3>2. /\ granted[i].addr \in Nat /\ granted[i].len \in Nat
          /\ granted[j].addr \in Nat /\ granted[j].len \in Nat
      BY GrantTypes DEF IInv
    <3> QED BY <3>1, <3>2 DEF Extent
  <2> QED BY <2>1, <2>2 DEF GrantsDisjoint
<1> QED BY <1>1, Invariance, PTL

(* The coalescing branch of allocateFrame, and the endless walk over a     *)
(* cyclic free list, are dead code.                                        *)
THEOREM CoalescingUnreachable == Spec => []NeverCoalesces
<1>1. IInv => NeverCoalesces
  BY DEF IInv
<1> QED BY <1>1, Invariance, PTL

(* No call writes to a frame that its owner still holds.                   *)
THEOREM HeldFramesSpared == Spec => LiveFramesUntouched
<1>1. IInv /\ [Next]_vars => [SparesLiveFrames]_vars
  BY NextStep, StutterStep
<1>2. Spec => [][SparesLiveFrames]_vars
  BY <1>1, Invariance, PTL DEF Spec
<1> QED BY <1>2 DEF LiveFramesUntouched, SparesLiveFrames

-----------------------------------------------------------------------------
(* The counter usedMemory.  The sum of the extents is a recursive function *)
(* of their number; induction over that number, from the well-foundedness  *)
(* of <, shows that it exists and is what its definition says.             *)

LEMMA UpTo ==
  ASSUME NEW N \in Nat, NEW S, 0 \in S,
         \A n \in 0 .. N - 1 : n \in S => n + 1 \in S
  PROVE  \A n \in 0 .. N : n \in S
<1> SUFFICES ASSUME NEW m \in 0 .. N, m \notin S PROVE FALSE
  OBVIOUS
<1> DEFINE Bad == {n \in Nat : n <= N /\ n \notin S}
           R == OpToRel(<, Nat)
<1>1. Bad # {} /\ Bad \subseteq Nat
  OBVIOUS
<1>2. \A x, y \in Nat : x < y => <<x, y>> \in R
  BY DEF OpToRel
<1>3. PICK k \in Bad : \A j \in Bad : ~ (<<j, k>> \in R)
  <2>1. IsWellFoundedOn(R, Nat)
    BY NatLessThanWellFounded
  <2> HIDE DEF Bad, R
  <2> QED BY <1>1, <2>1, WFMin
<1>4. k # 0 /\ k - 1 \in Nat /\ k - 1 < k
  OBVIOUS
<1>5. k - 1 \notin Bad
  BY <1>2, <1>3, <1>4
<1> QED BY <1>4, <1>5

(* f counts the bytes handed out by the first n requests of g.             *)
IsSum(f, g, n) ==
  f = [i \in 0 .. n |-> IF i = 0 THEN 0 ELSE f[i - 1] + g[i].len]

LEMMA SumExists ==
  ASSUME NEW g, NEW N \in Nat
  PROVE  \E f : IsSum(f, g, N)
<1> DEFINE S == {n \in Nat : \E f : IsSum(f, g, n)}
<1>1. 0 \in S
  <2> DEFINE f == [i \in 0 .. 0 |-> 0]
  <2>1. IsSum(f, g, 0)
    BY DEF IsSum
  <2> QED BY <2>1
<1>2. ASSUME NEW n \in 0 .. N - 1, n \in S PROVE n + 1 \in S
  <2>1. PICK f : IsSum(f, g, n)
    BY <1>2
  <2> DEFINE h == [i \in 0 .. n + 1 |-> IF i <= n THEN f[i] ELSE f[n] + g[n + 1].len]
  <2>2. IsSum(h, g, n + 1)
    BY <2>1 DEF IsSum
  <2> QED BY <2>2
<1>3. \A n \in 0 .. N : n \in S
  <2> HIDE DEF S
  <2> QED BY <1>1, <1>2, UpTo
<1> QED BY <1>3

LEMMA HandedOutIsSum ==
  ASSUME NEW g, Len(g) \in Nat
  PROVE  \E f : IsSum(f, g, Len(g)) /\ HandedOut(g) = f[Len(g)]
<1> DEFINE sum[n \in 0 .. Len(g)] == IF n = 0 THEN 0 ELSE sum[n - 1] + g[n].len
<1>1. \E f : f = [n \in 0 .. Len(g) |-> IF n = 0 THEN 0 ELSE f[n - 1] + g[n].len]
  BY SumExists DEF IsSum
<1>2. sum = [n \in 0 .. Len(g) |-> IF n = 0 THEN 0 ELSE sum[n - 1] + g[n].len]
  BY <1>1, Zenon
<1>3. HandedOut(g) = sum[Len(g)]
  BY DEF HandedOut
<1> HIDE DEF sum
<1>4. IsSum(sum, g, Len(g))
  BY <1>2, Zenon DEF IsSum
<1> QED BY <1>3, <1>4

(* One more request adds its size.                                         *)
LEMMA HandedOutAppend ==
  ASSUME NEW S, \A x \in S : x.len \in Nat, NEW g \in Seq(S), NEW e \in S
  PROVE  /\ HandedOut(g) \in Nat
         /\ HandedOut(Append(g, e)) = HandedOut(g) + e.len
<1> DEFINE N == Len(g)
           k == Append(g, e)
<1>1. /\ N \in Nat /\ Len(k) = N + 1 /\ k[N + 1] = e
      /\ \A i \in 1 .. N : k[i] = g[i] /\ g[i].len \in Nat
  OBVIOUS
<1>2. PICK f : IsSum(f, g, N) /\ HandedOut(g) = f[N]
  BY <1>1, HandedOutIsSum DEF N
<1> HIDE DEF N, k
<1>3. PICK h : IsSum(h, k, N + 1) /\ HandedOut(k) = h[N + 1]
  <2>1. Len(k) \in Nat
    BY <1>1
  <2>2. \E h : IsSum(h, k, Len(k)) /\ HandedOut(k) = h[Len(k)]
    BY <2>1, HandedOutIsSum
  <2> QED BY <1>1, <2>2
<1>4. \A n \in 0 .. N : n \in {i \in Nat : f[i] \in Nat /\ h[i] = f[i]}
  <2> DEFINE Agree == {i \in Nat : f[i] \in Nat /\ h[i] = f[i]}
  <2>1. /\ f[0] = 0 /\ h[0] = 0
        /\ \A i \in 1 .. N : f[i] = f[i - 1] + g[i].len
        /\ \A i \in 1 .. N + 1 : h[i] = h[i - 1] + k[i].len
    <3>1. f[0] = 0 /\ \A i \in 1 .. N : f[i] = f[i - 1] + g[i].len
      <4>1. f = [i \in 0 .. N |-> IF i = 0 THEN 0 ELSE f[i - 1] + g[i].len]
        BY <1>2 DEF IsSum
      <4>2. f[0] = 0
        BY ONLY <1>1, <4>1
      <4>3. ASSUME NEW i \in 1 .. N PROVE f[i] = f[i - 1] + g[i].len
        <5>1. i \in 0 .. N /\ i # 0
          BY ONLY <1>1, <4>3
        <5> QED BY ONLY <4>1, <5>1
      <4> QED BY <4>2, <4>3
    <3>2. h[0] = 0 /\ \A i \in 1 .. N + 1 : h[i] = h[i - 1] + k[i].len
      <4>1. h = [i \in 0 .. N + 1 |-> IF i = 0 THEN 0 ELSE h[i - 1] + k[i].len]
        BY <1>3 DEF IsSum
      <4>2. h[0] = 0
        BY ONLY <1>1, <4>1
      <4>3. ASSUME NEW i \in 1 .. N + 1 PROVE h[i] = h[i - 1] + k[i].len
        <5>1. i \in 0 .. N + 1 /\ i # 0
          BY ONLY <1>1, <4>3
        <5> QED BY ONLY <4>1, <5>1
      <4> QED BY <4>2, <4>3
    <3> QED BY <3>1, <3>2
  <2>2. 0 \in Agree
    BY <2>1
  <2>3. ASSUME NEW n \in 0 .. N - 1, n \in Agree PROVE n + 1 \in Agree
    <3>1. n + 1 \in 1 .. N /\ (n + 1) - 1 = n
      BY <1>1
    <3>2. f[n + 1] = f[n] + g[n + 1].len /\ h[n + 1] = h[n] + g[n + 1].len
      BY <1>1, <2>1, <3>1
    <3>3. f[n] \in Nat /\ h[n] = f[n] /\ g[n + 1].len \in Nat /\ n + 1 \in Nat
      BY <1>1, <2>3, <3>1
    <3>4. f[n + 1] \in Nat /\ h[n + 1] = f[n + 1]
      BY ONLY <3>2, <3>3
    <3> QED BY <3>3, <3>4
  <2> HIDE DEF Agree
  <2>4. \A n \in 0 .. N : n \in Agree
    BY <1>1, <2>2, <2>3, UpTo
  <2> QED BY <2>4 DEF Agree
<1>5. h[N + 1] = h[N] + e.len
  BY <1>1, <1>3 DEF IsSum
<1>6. f[N] \in Nat /\ h[N] = f[N]
  BY <1>1, <1>4
<1> QED BY <1>2, <1>3, <1>5, <1>6 DEF k

LEMMA HandedOutNone == HandedOut(<<>>) = 0
<1>1. PICK f : IsSum(f, <<>>, 0) /\ HandedOut(<<>>) = f[0]
  BY HandedOutIsSum
<1> QED BY <1>1 DEF IsSum

(* size_t arithmetic: a sum may be reduced before another is added.        *)
LEMMA Remainder ==
  ASSUME NEW p \in Nat, NEW r \in 0 .. SIZE_MOD - 1
  PROVE  (SIZE_MOD * p + r) % SIZE_MOD = r
<1> DEFINE n == SIZE_MOD * p + r
           q == n \div SIZE_MOD
           s == n % SIZE_MOD
<1>1. SIZE_MOD \in Nat \ {0}
  BY AllocatorAssumption DEF AllocatorAssumption, RegionEnd
<1>2. n \in Nat /\ SIZE_MOD * p \in Nat
  BY <1>1
<1> HIDE DEF n
<1>3. q \in Nat /\ s \in 0 .. SIZE_MOD - 1 /\ n = SIZE_MOD * q + s
  BY <1>1, <1>2
<1> HIDE DEF q, s
<1>4. ~ (q < p)
  <2> SUFFICES ASSUME q < p PROVE FALSE
    OBVIOUS
  <2>1. SIZE_MOD * (q + 1) <= SIZE_MOD * p
    BY <1>1, <1>3
  <2>2. SIZE_MOD * (q + 1) = SIZE_MOD * q + SIZE_MOD
    BY <1>1, <1>3
  <2>3. SIZE_MOD * q \in Nat
    BY <1>1, <1>3
  <2> QED BY <1>1, <1>2, <1>3, <2>1, <2>2, <2>3 DEF n
<1>5. ~ (p < q)
  <2> SUFFICES ASSUME p < q PROVE FALSE
    OBVIOUS
  <2>1. SIZE_MOD * (p + 1) <= SIZE_MOD * q
    BY <1>1, <1>3
  <2>2. SIZE_MOD * (p + 1) = SIZE_MOD * p + SIZE_MOD
    BY <1>1
  <2>3. SIZE_MOD * q \in Nat
    BY <1>1, <1>3
  <2> QED BY <1>1, <1>2, <1>3, <2>1, <2>2, <2>3 DEF n
<1>6. p = q
  BY <1>3, <1>4, <1>5
<1>7. s = r
  BY <1>2, <1>3, <1>6 DEF n
<1> QED BY <1>7 DEF s, n

LEMMA ReducedSum ==
  ASSUME NEW a \in Nat, NEW b \in Nat
  PROVE  ((a % SIZE_MOD) + b) % SIZE_MOD = (a + b) % SIZE_MOD
<1> DEFINE q == a \div SIZE_MOD
           r == a % SIZE_MOD
           p == (r + b) \div SIZE_MOD
           t == (r + b) % SIZE_MOD
<1>1. SIZE_MOD \in Nat \ {0}
  BY AllocatorAssumption DEF AllocatorAssumption, RegionEnd
<1>2. q \in Nat /\ r \in 0 .. SIZE_MOD - 1 /\ a = SIZE_MOD * q + r
  BY <1>1
<1> HIDE DEF q, r
<1>3. p \in Nat /\ t \in 0 .. SIZE_MOD - 1 /\ r + b = SIZE_MOD * p + t
  BY <1>1, <1>2
<1> HIDE DEF p, t
<1>4. a + b = SIZE_MOD * (q + p) + t
  <2>1. SIZE_MOD * (q + p) = SIZE_MOD * q + SIZE_MOD * p
    BY <1>1, <1>2, <1>3
  <2>2. SIZE_MOD * q \in Nat /\ SIZE_MOD * p \in Nat
    BY <1>1, <1>2, <1>3
  <2> QED BY <1>1, <1>2, <1>3, <2>1, <2>2
<1>5. (a + b) % SIZE_MOD = t
  BY <1>2, <1>3, <1>4, Remainder
<1> QED BY <1>5 DEF r, t

(* Taking away -1, converted to size_t.                                    *)
LEMMA MinusMinusOne ==
  ASSUME NEW u \in 0 .. SIZE_MOD - 1
  PROVE  (u - (-1 % SIZE_MOD)) % SIZE_MOD = (u + 1) % SIZE_MOD
<1>1. SIZE_MOD \in Nat \ {0}
  BY AllocatorAssumption DEF AllocatorAssumption, RegionEnd
<1>2. -1 % SIZE_MOD = SIZE_MOD - 1
  BY <1>1
<1> QED BY <1>1, <1>2

UInv == IInv /\ UsedMemoryNeverFalls

LEMMA UsedAllocate ==
  ASSUME UInv, NEW req \in RequestSizes, AllocateFrame(req)
  PROVE  UsedMemoryNeverFalls'
<1> DEFINE size == roundUpToPageBoundary(req)
           e == [addr |-> FreeAtCall, len |-> size]
           S == [addr : Addr, len : Nat]
<1> USE DEF UInv
<1>1. size \in Nat /\ size <= freeMemSize
  BY RoundedRequest DEF AllocateFrame, Fits
<1>2. Grant(MemAtCall, FreeAtCall, size)
  BY <1>1, TailAtCall, TailIsSelected DEF AllocateFrame
<1>3. /\ usedMemory' = (usedMemory + size) % SIZE_MOD
      /\ granted' = Append(granted, e) /\ freed' = freed
  BY <1>2 DEF Grant
<1>4. granted \in Seq(S) /\ e \in S /\ e.len = size /\ \A x \in S : x.len \in Nat
  BY <1>1, TailAtCall DEF IInv, TypeOK
<1>5. Cardinality(freed) \in Nat
  BY FS_CardinalityType DEF IInv, CounterLag
<1> HIDE DEF size, e, S
<1>6. HandedOut(granted) \in Nat /\ HandedOut(granted') = HandedOut(granted) + size
  BY <1>3, <1>4, HandedOutAppend
<1>7. usedMemory' = ((HandedOut(granted) + Cardinality(freed)) + size) % SIZE_MOD
  <2>1. usedMemory = (HandedOut(granted) + Cardinality(freed)) % SIZE_MOD
    BY DEF UsedMemoryNeverFalls
  <2>2. HandedOut(granted) + Cardinality(freed) \in Nat
    BY <1>5, <1>6
  <2> QED BY <1>1, <1>3, <2>1, <2>2, ReducedSum
<1>8. (HandedOut(granted) + Cardinality(freed)) + size
        = HandedOut(granted') + Cardinality(freed')
  BY <1>1, <1>3, <1>5, <1>6
<1> QED BY <1>7, <1>8 DEF UsedMemoryNeverFalls

LEMMA UsedFree ==
  ASSUME UInv, NEW i \in DOMAIN granted, FreeFrame(i)
  PROVE  UsedMemoryNeverFalls'
<1> USE DEF UInv
<1>1. HT!search(addressSizeHT, granted[i].addr) = -1
  BY GrantTypes, SearchMisses DEF IInv
<1>2. /\ usedMemory' = (usedMemory - (-1 % SIZE_MOD)) % SIZE_MOD
      /\ freed' = freed \cup {i} /\ granted' = granted
  BY <1>1 DEF FreeFrame, Release
<1>3. /\ Cardinality(freed') = Cardinality(freed) + 1
      /\ Cardinality(freed) \in Nat
  BY <1>2, FreeIsFirst, FS_AddElement, FS_CardinalityType DEF IInv, CounterLag
<1>4. HandedOut(granted) \in Nat
  <2> DEFINE S == [addr : Addr, len : Nat]
             e == granted[i]
  <2>1. granted \in Seq(S) /\ \A x \in S : x.len \in Nat
    BY DEF IInv, TypeOK
  <2> HIDE DEF S
  <2>2. e \in S
    BY <2>1
  <2> QED BY <2>1, <2>2, HandedOutAppend
<1>5. usedMemory' = (usedMemory + 1) % SIZE_MOD
  BY <1>2, MinusMinusOne DEF IInv, TypeOK
<1>6. usedMemory' = ((HandedOut(granted) + Cardinality(freed)) + 1) % SIZE_MOD
  <2>1. usedMemory = (HandedOut(granted) + Cardinality(freed)) % SIZE_MOD
    BY DEF UsedMemoryNeverFalls
  <2>2. HandedOut(granted) + Cardinality(freed) \in Nat
    BY <1>3, <1>4
  <2> QED BY <1>5, <2>1, <2>2, ReducedSum
<1>7. (HandedOut(granted) + Cardinality(freed)) + 1
        = HandedOut(granted') + Cardinality(freed')
  BY <1>2, <1>3, <1>4
<1> QED BY <1>6, <1>7 DEF UsedMemoryNeverFalls

(* What is given back never lowers usedMemory: it counts, modulo the width *)
(* of size_t, all the bytes ever handed out and one for each frame given   *)
(* back, since the size table never finds the size of a frame.             *)
THEOREM UsedCountsAll == Spec => []UsedMemoryNeverFalls
<1>1. Init => UInv
  <2> SUFFICES ASSUME Init PROVE UInv
    OBVIOUS
  <2>1. granted = <<>> /\ freed = {} /\ usedMemory = 0
    BY DEF Init
  <2>2. (0 + 0) % SIZE_MOD = 0
    BY AllocatorAssumption DEF AllocatorAssumption, RegionEnd
  <2>3. UsedMemoryNeverFalls
    BY <2>1, <2>2, HandedOutNone, FS_EmptySet DEF UsedMemoryNeverFalls
  <2> QED BY <2>3, InitStep DEF UInv
<1>2. UInv /\ [Next]_vars => UInv'
  <2> SUFFICES ASSUME UInv, [Next]_vars PROVE UInv'
    OBVIOUS
  <2>1. IInv'
    BY NextStep, StutterStep DEF UInv
  <2>2. ASSUME UNCHANGED <<usedMemory, granted, freed>>
        PROVE  UsedMemoryNeverFalls'
    BY <2>2 DEF UInv, UsedMemoryNeverFalls
  <2>3. ASSUME NEW req \in RequestSizes, OutOfMemory(req) PROVE UsedMemoryNeverFalls'
    BY <2>2, <2>3 DEF OutOfMemory
  <2>4. ASSUME NEW req \in RequestSizes, AllocateFrame(req) PROVE UsedMemoryNeverFalls'
    BY <2>4, UsedAllocate
  <2>5. ASSUME NEW i \in DOMAIN granted, FreeFrame(i) PROVE UsedMemoryNeverFalls'
    BY <2>5, UsedFree
  <2>6. ASSUME NEW i \in DOMAIN granted, FreeFrameHalts(i)
        PROVE  UsedMemoryNeverFalls'
    BY <2>2, <2>6 DEF FreeFrameHalts
  <2>7. ASSUME UNCHANGED vars PROVE UsedMemoryNeverFalls'
    BY <2>2, <2>7 DEF vars
  <2>8. UsedMemoryNeverFalls'
    BY <2>3, <2>4, <2>5, <2>6, <2>7 DEF Next, Allocation
  <2> QED BY <2>1, <2>8 DEF UInv
<1>3. UInv => UsedMemoryNeverFalls
  BY DEF UInv
<1> QED BY <1>1, <1>2, <1>3, PTL DEF Spec

-----------------------------------------------------------------------------
(* The slot behind the region: what was handed out and what was not make   *)
(* up the region, so the tail is behind it only when nothing is left.      *)

FillsFromStart ==
  HandedOut(granted) \in Nat /\ HandedOut(granted) + NeverGranted = freeMemLen

SInv == IInv /\ FillsFromStart /\ SpillsOnlyWhenFull

(* A block that is linked in is a frame or the tail: if it is the slot     *)
(* behind the region, that is the tail.                                    *)
LEMMA HeadBehindRegion ==
  ASSUME IInv, head = RegionEnd
  PROVE  freeBlock = RegionEnd
<1>1. RegionEnd # NULL /\ RegionEnd \in Nat
  BY AllocatorAssumption DEF AllocatorAssumption, RegionEnd, NULL
<1>2. freeBlock \in Nat /\ freeBlock <= RegionEnd
  BY AllocatorAssumption DEF IInv, TypeOK, AllocatorAssumption, Addr, RegionEnd, NULL
<1>3. ASSUME NEW i \in freed PROVE granted[i].addr < RegionEnd
  <2>1. i \in DOMAIN granted
    BY <1>3 DEF IInv, TypeOK
  <2>2. granted[i].addr \in Nat /\ granted[i].len \in Nat
    BY <2>1, GrantTypes DEF IInv
  <2> QED BY <1>1, <1>2, <2>1, <2>2 DEF IInv, GrantsBelowTail
<1> QED BY <1>1, <1>3 DEF IInv, HeadIsFree

LEMMA SpillOutOfMemory ==
  ASSUME SInv, NEW req \in RequestSizes, OutOfMemory(req)
  PROVE  FillsFromStart' /\ SpillsOnlyWhenFull'
<1> USE DEF SInv
<1>1. mem' = MemAtCall /\ freeBlock' = FreeAtCall /\ granted' = granted
  BY DEF OutOfMemory
<1>2. NeverGranted' = NeverGranted
  <2>1. /\ FreeAtCall # NULL /\ NeverGranted = RegionEnd - FreeAtCall
    BY TailAtCall
  <2> QED BY <1>1, <2>1 DEF NeverGranted, RegionEnd
<1>3. CASE head # NULL
  BY <1>1, <1>2, <1>3 DEF MemAtCall, FillsFromStart, SpillsOnlyWhenFull
<1>4. CASE head = NULL
  <2>1. granted = <<>> /\ freeBlock = NULL
    BY <1>4 DEF IInv, Untouched
  <2>2. HandedOut(granted) = 0
    BY <2>1, HandedOutNone
  <2>3. CASE freeMemLen = 0
    BY <1>1, <1>2, <2>2, <2>3 DEF FillsFromStart, SpillsOnlyWhenFull
  <2>4. CASE freeMemLen # 0
    <3>1. freeMemStart # RegionEnd /\ RegionEnd \in Addr
      BY <2>4, AllocatorAssumption DEF AllocatorAssumption, RegionEnd, Addr
    <3>2. mem'[RegionEnd] = mem[RegionEnd]
      BY <1>1, <1>4, <3>1 DEF MemAtCall, initFreeList, IInv, TypeOK
    <3> QED BY <1>1, <1>2, <3>2 DEF FillsFromStart, SpillsOnlyWhenFull, RegionEnd
  <2> QED BY <2>3, <2>4
<1> QED BY <1>3, <1>4

LEMMA SpillAllocate ==
  ASSUME SInv, NEW req \in RequestSizes, AllocateFrame(req)
  PROVE  FillsFromStart' /\ SpillsOnlyWhenFull'
<1> DEFINE size == roundUpToPageBoundary(req)
           B == FreeAtCall
           e == [addr |-> B, len |-> size]
           S == [addr : Addr, len : Nat]
<1> USE DEF SInv
<1>1. size \in Nat /\ size > 0 /\ size <= freeMemSize
  BY RoundedRequest DEF AllocateFrame, Fits
<1>2. Grant(MemAtCall, B, size)
  BY <1>1, TailAtCall, TailIsSelected DEF AllocateFrame
<1>3. /\ granted' = Append(granted, e) /\ freeBlock' = B + size
      /\ mem' = MemAfterGrant(MemAtCall, B, size)
  BY <1>2 DEF Grant, NewBlock
<1>4. granted \in Seq(S) /\ e \in S /\ e.len = size /\ \A x \in S : x.len \in Nat
  BY <1>1, TailAtCall DEF IInv, TypeOK
<1>5. /\ NeverGranted = RegionEnd - B /\ freeMemSize <= RegionEnd - B
      /\ B \in Addr /\ MemAtCall \in [Addr -> fBlock]
  BY TailAtCall
<1>6. /\ B \in Nat /\ B > 0 /\ RegionEnd \in Nat /\ freeMemStart <= B
      /\ freeMemStart \in Nat /\ freeMemLen \in Nat /\ freeMemSize \in Nat
      /\ RegionEnd = freeMemStart + freeMemLen /\ RegionEnd \in Addr
  BY <1>5, AllocatorAssumption DEF AllocatorAssumption, Addr, RegionEnd, IInv, TypeOK
<1> HIDE DEF size, B, e, S
<1>7. HandedOut(granted) \in Nat /\ HandedOut(granted') = HandedOut(granted) + size
  BY <1>3, <1>4, HandedOutAppend
<1>8. NeverGranted' = RegionEnd - (B + size)
  <2>1. freeBlock' # NULL
    BY <1>1, <1>3, <1>6 DEF NULL
  <2> QED BY <1>3, <2>1 DEF NeverGranted, RegionEnd
<1>9. FillsFromStart'
  <2>1. HandedOut(granted) + (RegionEnd - B) = freeMemLen
    BY <1>5 DEF FillsFromStart
  <2>2. HandedOut(granted') \in Nat
        /\ HandedOut(granted') + (RegionEnd - (B + size)) = freeMemLen
    BY <1>1, <1>6, <1>7, <2>1
  <2> QED BY <1>8, <2>2 DEF FillsFromStart
<1>10. CASE B + size = RegionEnd
  <2>1. NeverGranted' = 0
    BY <1>1, <1>6, <1>8, <1>10
  <2>2. HandedOut(granted') = freeMemLen
    BY <1>9, <2>1 DEF FillsFromStart
  <2> QED BY <1>9, <2>2 DEF SpillsOnlyWhenFull
<1>11. CASE B + size # RegionEnd
  <2>1. B # RegionEnd /\ RegionEnd \notin B .. B + size - 1
    BY <1>1, <1>5, <1>6
  <2>2. mem'[RegionEnd] = MemAtCall[RegionEnd]
    BY <1>3, <1>6, <1>11, <2>1 DEF MemAfterGrant, NewBlock
  <2>3. MemAtCall[RegionEnd] = mem[RegionEnd]
    <3>1. CASE head # NULL
      BY <3>1 DEF MemAtCall
    <3>2. CASE head = NULL
      <4>1. B = freeMemStart
        BY <3>2 DEF B, FreeAtCall
      <4> QED
        BY <1>6, <2>1, <3>2, <4>1
        DEF MemAtCall, initFreeList, IInv, TypeOK, Untouched
    <3> QED BY <3>1, <3>2
  <2>4. HandedOut(granted) # freeMemLen
    <3>1. HandedOut(granted) + (RegionEnd - B) = freeMemLen
      BY <1>5 DEF FillsFromStart
    <3> QED BY <1>1, <1>5, <1>6, <1>7, <3>1
  <2>5. mem'[RegionEnd] = JunkHeader
    BY <2>2, <2>3, <2>4 DEF SpillsOnlyWhenFull
  <2> QED BY <1>9, <2>5 DEF SpillsOnlyWhenFull, RegionEnd
<1> QED BY <1>10, <1>11

LEMMA SpillFree ==
  ASSUME SInv, NEW i \in DOMAIN granted, FreeFrame(i)
  PROVE  FillsFromStart' /\ SpillsOnlyWhenFull'
<1> DEFINE a == granted[i].addr
           size == HT!search(addressSizeHT, a) % SIZE_MOD
           b == [[mem[a] EXCEPT !.size = size] EXCEPT !.next = head]
           h == [mem[head] EXCEPT !.previous = a]
<1> USE DEF SInv
<1>1. i \in DOMAIN granted \ freed
  BY FreeIsFirst
<1>2. /\ head \in Addr /\ head # NULL /\ a # head /\ a # freeBlock
      /\ a \in Addr /\ mem \in [Addr -> fBlock]
  BY <1>1, HeldIsNotHead DEF IInv, TypeOK
<1>3. /\ mem' = [mem EXCEPT ![a] = b, ![head] = h]
      /\ freeBlock' = freeBlock /\ granted' = granted
  BY <1>2 DEF FreeFrame, Release
<1>4. a # RegionEnd
  <2>1. /\ a \in Nat /\ granted[i].len \in Nat /\ granted[i].len > 0
        /\ a + granted[i].len <= freeBlock
    BY GrantTypes DEF IInv, GrantsBelowTail
  <2>2. freeBlock \in Nat /\ freeBlock <= RegionEnd /\ RegionEnd \in Nat
    BY AllocatorAssumption DEF IInv, TypeOK, AllocatorAssumption, Addr, RegionEnd, NULL
  <2> HIDE DEF a
  <2> QED BY <2>1, <2>2
<1> HIDE DEF a, size, b, h
<1>5. FillsFromStart'
  BY <1>3 DEF FillsFromStart, NeverGranted, RegionEnd
<1>6. CASE head = RegionEnd
  <2>1. NeverGranted = 0
    <3>1. freeBlock = RegionEnd /\ RegionEnd # NULL /\ RegionEnd \in Nat
      BY <1>2, <1>6, HeadBehindRegion, AllocatorAssumption
      DEF AllocatorAssumption, RegionEnd
    <3> QED BY <3>1 DEF NeverGranted
  <2> QED BY <1>3, <1>5, <2>1 DEF FillsFromStart, SpillsOnlyWhenFull
<1>7. CASE head # RegionEnd
  <2>1. RegionEnd \in Addr
    BY AllocatorAssumption DEF AllocatorAssumption, RegionEnd, Addr
  <2>2. mem'[RegionEnd] = mem[RegionEnd]
    BY <1>2, <1>3, <1>4, <1>7, <2>1
  <2> QED BY <1>3, <1>5, <2>2 DEF SpillsOnlyWhenFull, RegionEnd
<1> QED BY <1>6, <1>7

(* The allocator writes behind its region only when the region has been    *)
(* handed out to its last byte, whatever was asked for and given back.     *)
THEOREM SpillsLast == Spec => []SpillsOnlyWhenFull
<1>1. Init => SInv
  <2> SUFFICES ASSUME Init PROVE SInv
    OBVIOUS
  <2>1. granted = <<>> /\ freeBlock = NULL /\ mem = [a \in Addr |-> JunkHeader]
    BY DEF Init
  <2>2. HandedOut(granted) = 0 /\ NeverGranted = freeMemLen
    BY <2>1, HandedOutNone DEF NeverGranted
  <2>3. FillsFromStart
    BY <2>2, AllocatorAssumption DEF FillsFromStart, AllocatorAssumption
  <2>4. RegionEnd \in Addr
    BY AllocatorAssumption DEF AllocatorAssumption, RegionEnd, Addr
  <2> QED BY <2>1, <2>3, <2>4, InitStep DEF SInv, SpillsOnlyWhenFull
<1>2. SInv /\ [Next]_vars => SInv'
  <2> SUFFICES ASSUME SInv, [Next]_vars PROVE SInv'
    OBVIOUS
  <2>1. IInv'
    BY NextStep, StutterStep DEF SInv
  <2>2. ASSUME UNCHANGED <<mem, freeBlock, granted>>
        PROVE  FillsFromStart' /\ SpillsOnlyWhenFull'
    BY <2>2 DEF SInv, FillsFromStart, SpillsOnlyWhenFull, NeverGranted, RegionEnd
  <2>3. ASSUME NEW req \in RequestSizes, OutOfMemory(req)
        PROVE  FillsFromStart' /\ SpillsOnlyWhenFull'
    BY <2>3, SpillOutOfMemory
  <2>4. ASSUME NEW req \in RequestSizes, AllocateFrame(req)
        PROVE  FillsFromStart' /\ SpillsOnlyWhenFull'
    BY <2>4, SpillAllocate
  <2>5. ASSUME NEW i \in DOMAIN granted, FreeFrame(i)
        PROVE  FillsFromStart' /\ SpillsOnlyWhenFull'
    BY <2>5, SpillFree
  <2>6. ASSUME NEW i \in DOMAIN granted, FreeFrameHalts(i)
        PROVE  FillsFromStart' /\ SpillsOnlyWhenFull'
    BY <2>2, <2>6 DEF FreeFrameHalts
  <2>7. ASSUME UNCHANGED vars PROVE FillsFromStart' /\ SpillsOnlyWhenFull'
    BY <2>2, <2>7 DEF vars
  <2> QED BY <2>1, <2>3, <2>4, <2>5, <2>6, <2>7 DEF SInv, Next, Allocation
<1>3. SInv => SpillsOnlyWhenFull
  BY DEF SInv
<1> QED BY <1>1, <1>2, <1>3, PTL DEF Spec

-----------------------------------------------------------------------------
(* The allocator implements FrameService.                                  *)

LEMMA ServiceCardinality ==
  ASSUME NEW S PROVE Service!Cardinality(S) = Cardinality(S)
BY DEF Service!Cardinality, Cardinality

LEMMA ServiceInit == Init => Service!Init
<1>1. Cardinality(freeMemStart .. RegionEnd - 1) = freeMemLen
  <2>1. /\ freeMemStart \in Int /\ freeMemLen \in Nat
        /\ RegionEnd = freeMemStart + freeMemLen /\ RegionEnd - 1 \in Int
    BY AllocatorAssumption DEF AllocatorAssumption, RegionEnd
  <2> QED BY <2>1, FS_Interval
<1> QED BY <1>1, ServiceCardinality DEF Init, Service!Init, NeverGranted

LEMMA AllocateIsGrant ==
  ASSUME IInv, NEW req \in RequestSizes, AllocateFrame(req)
  PROVE  Service!Grant(roundUpToPageBoundary(req))
<1> DEFINE size == roundUpToPageBoundary(req)
           e == [addr |-> FreeAtCall, len |-> size]
<1>1. size \in Nat /\ size > 0 /\ size <= freeMemSize
  BY RoundedRequest DEF AllocateFrame, Fits
<1>2. Grant(MemAtCall, FreeAtCall, size)
  BY <1>1, TailAtCall, TailIsSelected DEF AllocateFrame
<1>3. /\ granted' = Append(granted, e) /\ freed' = freed
      /\ freeBlock' = FreeAtCall + size /\ status' = status
  BY <1>2 DEF Grant, NewBlock
<1>4. status = "running"
  BY DEF AllocateFrame
<1>5. /\ NeverGranted = RegionEnd - FreeAtCall
      /\ freeMemSize <= RegionEnd - FreeAtCall
      /\ FreeAtCall \in Nat /\ RegionEnd \in Nat /\ freeMemSize \in Nat
      /\ freeMemStart \in Nat /\ freeMemStart > 0 /\ freeMemStart <= FreeAtCall
      /\ \A i \in DOMAIN granted : granted[i].addr + granted[i].len <= FreeAtCall
  <2>1. freeMemSize \in Nat
    BY DEF IInv, TypeOK
  <2>2. FreeAtCall \in Addr
    BY TailAtCall
  <2>3. /\ FreeAtCall \in Nat /\ RegionEnd \in Nat
        /\ freeMemStart \in Nat /\ freeMemStart > 0 /\ freeMemStart <= FreeAtCall
    BY <2>2, AllocatorAssumption DEF AllocatorAssumption, Addr, RegionEnd
  <2> QED BY <2>1, <2>3, TailAtCall
<1>6. e.addr = FreeAtCall /\ e.len = size
  OBVIOUS
<1> HIDE DEF size, e
<1>7. size <= NeverGranted /\ NeverGranted' = NeverGranted - size
  <2>1. freeBlock' # NULL
    BY <1>1, <1>3, <1>5 DEF NULL
  <2> QED BY <1>1, <1>3, <1>5, <2>1 DEF NeverGranted
<1>8. Service!Bytes(e) \subseteq freeMemStart .. RegionEnd - 1
  BY <1>1, <1>5, <1>6 DEF Service!Bytes
<1>9. ASSUME NEW i \in DOMAIN granted
      PROVE  Service!Bytes(e) \cap Service!Bytes(granted[i]) = {}
  <2>1. granted[i].addr \in Nat /\ granted[i].len \in Nat
    BY GrantTypes DEF IInv
  <2> QED BY <1>1, <1>5, <1>6, <2>1 DEF Service!Bytes
<1>10. FreeAtCall \in freeMemStart .. RegionEnd - 1
  BY <1>1, <1>5
<1> QED BY <1>3, <1>4, <1>7, <1>8, <1>9, <1>10 DEF Service!Grant, e, size

LEMMA OutOfMemoryIsRefuse ==
  ASSUME IInv, NEW req \in RequestSizes, OutOfMemory(req)
  PROVE  Service!Refuse(roundUpToPageBoundary(req))
<1> DEFINE size == roundUpToPageBoundary(req)
<1>1. /\ status = "running" /\ status' = "refused" /\ size > freeMemSize
      /\ freeBlock' = FreeAtCall
      /\ UNCHANGED <<freeMemSize, granted, freed>>
  <2> USE DEF OutOfMemory
  <2>1. size \in Nat /\ freeMemSize \in Nat /\ ~ (size <= freeMemSize)
    BY RoundedRequest DEF Fits, IInv, TypeOK
  <2> QED BY <2>1
<1>2. /\ FreeAtCall # NULL /\ NeverGranted = RegionEnd - FreeAtCall
      /\ FreeAtCall \in Int /\ RegionEnd \in Int
  BY TailAtCall, AllocatorAssumption DEF AllocatorAssumption, Addr, RegionEnd
<1>3. NeverGranted' = NeverGranted
  BY <1>1, <1>2 DEF NeverGranted
<1>4. size + Cardinality(freed) > NeverGranted
  <2>1. NeverGranted <= freeMemSize + Cardinality(freed) /\ Cardinality(freed) \in Nat
    BY FS_CardinalityType DEF IInv, CounterLag
  <2>2. size \in Nat /\ freeMemSize \in Int /\ NeverGranted \in Int
    BY <1>2, RoundedRequest DEF IInv, TypeOK
  <2> HIDE DEF size
  <2> QED BY <1>1, <2>1, <2>2
<1> QED BY <1>1, <1>3, <1>4, ServiceCardinality DEF Service!Refuse

LEMMA FreeIsReturn ==
  ASSUME IInv, NEW i \in DOMAIN granted, FreeFrame(i)
  PROVE  Service!Return(i)
<1>1. i \in DOMAIN granted \ freed /\ freed = {}
  BY FreeIsFirst
<1>2. granted[i].addr # head /\ status = "running"
  BY <1>1, HeldIsNotHead DEF FreeFrame
<1>3. /\ freed' = {i} /\ freeBlock' = freeBlock
      /\ UNCHANGED <<status, granted>>
  BY <1>1, <1>2 DEF FreeFrame, Release
<1>4. NeverGranted' = NeverGranted
  BY <1>3 DEF NeverGranted
<1> QED BY <1>1, <1>2, <1>3, <1>4 DEF Service!Return

LEMMA FreeHaltIsBlock ==
  ASSUME IInv, NEW i \in DOMAIN granted, FreeFrameHalts(i)
  PROVE  Service!Block
<1>1. /\ status = "running" /\ status' = "blocked"
      /\ UNCHANGED <<freeBlock, granted, freed>>
  BY DEF FreeFrameHalts
<1>2. NeverGranted' = NeverGranted
  BY <1>1 DEF NeverGranted
<1>3. granted # <<>>
  OBVIOUS
<1> QED BY <1>1, <1>2, <1>3 DEF Service!Block

(* Every step of the allocator is a step of the service it promises, or    *)
(* changes nothing the service shows.                                      *)
THEOREM Refinement == Spec => ImplementsFrameService
<1>1. IInv /\ [Next]_vars => [Service!Next]_(Service!vars)
  <2> SUFFICES ASSUME IInv, [Next]_vars PROVE [Service!Next]_(Service!vars)
    OBVIOUS
  <2>1. ASSUME NEW req \in RequestSizes, OutOfMemory(req) PROVE Service!Next
    BY <2>1, OutOfMemoryIsRefuse DEF Service!Next
  <2>2. ASSUME NEW req \in RequestSizes, AllocateFrame(req) PROVE Service!Next
    BY <2>2, AllocateIsGrant DEF Service!Next
  <2>3. ASSUME NEW i \in DOMAIN granted, FreeFrame(i) PROVE Service!Next
    BY <2>3, FreeIsReturn DEF Service!Next
  <2>4. ASSUME NEW i \in DOMAIN granted, FreeFrameHalts(i) PROVE Service!Next
    BY <2>4, FreeHaltIsBlock DEF Service!Next
  <2>5. CASE UNCHANGED vars
    BY <2>5 DEF vars, Service!vars, NeverGranted
  <2> QED BY <2>1, <2>2, <2>3, <2>4, <2>5 DEF Next, Allocation
<1> QED
  BY <1>1, ServiceInit, Invariance, PTL
  DEF Spec, ImplementsFrameService, Service!Spec
=============================================================================
