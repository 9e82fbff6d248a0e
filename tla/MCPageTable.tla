---------------------------- MODULE MCPageTable ----------------------------
(* Tables of two entries: a large page is 2 pages, a gigabyte 4.           *)
EXTENDS PageTable

Regions == {[base |-> b, length |-> n] : b \in 3 .. 10, n \in 1 .. 6}

(* Up to two regions that begin at or above the first 4 GB, which are 4    *)
(* pages here, or just below; they follow one another and do not overlap.  *)
MemoryMapsMC ==
  {<<r>> : r \in Regions} \cup
  {s \in {<<q, r>> : q \in Regions, r \in Regions} : s[2].base >= s[1].base + s[1].length}
=============================================================================
