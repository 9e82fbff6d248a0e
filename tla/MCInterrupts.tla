---------------------------- MODULE MCInterrupts ----------------------------
(* Instance of Interrupts: exceptions with and without an error code, and  *)
(* lines of both controllers beside the timer's.                           *)
EXTENDS Interrupts

(* A division by zero, a page fault at a write, a protection fault without *)
(* a selector, and with the selectors 0x20, 0x28 and 0x310.                *)
MCExceptions ==
  {[vector |-> 0, error |-> 0], [vector |-> 14, error |-> 2], [vector |-> 13, error |-> 0],
   [vector |-> 13, error |-> 32], [vector |-> 13, error |-> 40], [vector |-> 13, error |-> 784]}
=============================================================================
