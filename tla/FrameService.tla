---------------------------- MODULE FrameService ----------------------------
(***************************************************************************)
(* What the page frame allocator promises its callers, with no free list   *)
(* and no headers: whoever asks gets memory nobody else was ever given,    *)
(* until what was never handed out is too little for the request.  Giving  *)
(* memory back does not make it available again: the service takes back    *)
(* one frame at the most, and that one may cost it one byte of what it is  *)
(* still willing to hand out.                                              *)
(***************************************************************************)
EXTENDS Integers, Sequences, FiniteSets

CONSTANTS
  Region,     \* the addresses that can be handed out
  FrameSizes  \* the sizes, already rounded to pages, that are asked for

VARIABLES
  extents,    \* what was handed out, in order
  returned,   \* which of it was given back
  remaining,  \* how many bytes were never handed out
  status      \* "running", or stopped at a request or at a return

vars == <<extents, returned, remaining, status>>

Bytes(e) == e.addr .. e.addr + e.len - 1

Init ==
  /\ extents = <<>>
  /\ returned = {}
  /\ remaining = Cardinality(Region)
  /\ status = "running"

Grant(size) ==
  /\ status = "running"
  /\ size <= remaining
  /\ \E addr \in Region :
       LET e == [addr |-> addr, len |-> size]
       IN  /\ Bytes(e) \subseteq Region
           /\ \A i \in DOMAIN extents : Bytes(e) \cap Bytes(extents[i]) = {}
           /\ extents' = Append(extents, e)
  /\ remaining' = remaining - size
  /\ UNCHANGED <<returned, status>>

Return(i) ==
  /\ status = "running"
  /\ returned = {}
  /\ returned' = {i}
  /\ UNCHANGED <<extents, remaining, status>>

(* A request is refused only when what remains, less one byte if a frame   *)
(* was given back, does not cover it.                                      *)
Refuse(size) ==
  /\ status = "running"
  /\ size + Cardinality(returned) > remaining
  /\ status' = "refused"
  /\ UNCHANGED <<extents, returned, remaining>>

(* A return may also stop the service, which does not know the frame.      *)
Block ==
  /\ status = "running"
  /\ extents # <<>>
  /\ status' = "blocked"
  /\ UNCHANGED <<extents, returned, remaining>>

Next ==
  \/ \E size \in FrameSizes : Grant(size) \/ Refuse(size)
  \/ \E i \in DOMAIN extents : Return(i)
  \/ Block

Spec == Init /\ [][Next]_vars
=============================================================================
