------------------------------- MODULE MCHeap -------------------------------
(* Instance of Heap with the sizes of malloc.hpp and a pool of few pages,  *)
(* the first of an odd number.                                             *)
EXTENDS Heap

(* A cpuInfo, half a page, a page, two pages, four pages, and a process    *)
(* record, which is refused.                                               *)
MCRequests == {68, 1900, 4032, 5000, 16000, 20000}
=============================================================================
