------------------------ MODULE MCPageFrameAllocator ------------------------
(* Instance of PageFrameAllocator: a region of a few two-byte pages.       *)
EXTENDS PageFrameAllocator

MCHash == [a \in Addr |-> a % TABLE_SIZE]

(* What boot left in the region: a header that points somewhere.           *)
MCJunk == [size |-> 5, next |-> freeMemStart + 1, previous |-> freeMemStart]
=============================================================================
