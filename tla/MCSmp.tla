-------------------------------- MODULE MCSmp --------------------------------
(* Instances of Smp.                                                       *)
EXTENDS Smp

(* The APs are listed in the reverse order of their ids.                   *)
MCReversed == [c \in CPUs |-> IF c = BSP THEN 0 ELSE cpu_count - c]

(* Ids as on machines whose processors have no second thread: 0, 2, 4...   *)
MCSparse == [c \in CPUs |-> 2 * c]
=============================================================================
