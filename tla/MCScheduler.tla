----------------------------- MODULE MCScheduler -----------------------------
(* Instances of Scheduler.                                                 *)
EXTENDS Scheduler

CONSTANTS t1, t2, t3

(* The uninitialised pointer may hold any of the addresses, the same one   *)
(* as before included, or null.                                            *)
MCAnywhere == [n \in Calls |-> Threads \cup {NoThread}]

(* Each of two calls gets memory of its own.                               *)
MCOwn == [n \in Calls |-> IF n = 1 THEN {t1} ELSE {t2, t3}]
=============================================================================
