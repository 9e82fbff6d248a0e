------------------------------ MODULE Hashtable ------------------------------
(***************************************************************************)
(* The open-addressing table of kernel/paging/hashtable.cpp, as operators  *)
(* on the array of its slots.  The page frame allocator keeps in it the    *)
(* size of every frame it hands out.                                       *)
(*                                                                         *)
(* The mixing steps of hash() are abstracted to an arbitrary function into *)
(* the slots: nothing below depends on how well it spreads the keys.       *)
(***************************************************************************)
EXTENDS Integers

CONSTANTS
  TABLE_SIZE,   \* number of slots (100 in the source), not 0
  Keys,         \* the addresses used as keys; address 0 is never one
  hash          \* the slot, below TABLE_SIZE, at which the search for a key starts

(* A mutant of PROBES: no step is taken before the write.                  *)
NoProbes == 0

(* The literal 100 in the loops of insert, search and deleteKey.  It is    *)
(* written out there, and equals TABLE_SIZE.                               *)
PROBES == TABLE_SIZE

KeyValuePair == [key : Keys \cup {0}, value : Int]
Tables == [0 .. TABLE_SIZE - 1 -> KeyValuePair]

(* The table is a static object, hence all zero at start.                  *)
EmptyTable == [i \in 0 .. TABLE_SIZE - 1 |-> [key |-> 0, value |-> 0]]

(* The slot reached from key's own after i steps of linear probing.        *)
Slot(key, i) == (hash[key] + i) % TABLE_SIZE

(* insert() takes PROBES steps before it writes, whatever it meets.        *)
insert(table, key, value) ==
  [table EXCEPT ![Slot(key, PROBES)] = [key |-> key, value |-> value]]

(* The loop of search() and deleteKey() ends at step i when its condition  *)
(* (another key, or a deleted entry, or i < 100) is false; it gives up     *)
(* when the next step would be back at the first slot.                     *)
Stops(table, key, i) ==
  /\ table[Slot(key, i)].key = key
  /\ table[Slot(key, i)].value # -1
  /\ i >= PROBES

StopSteps(table, key) == {i \in 0 .. TABLE_SIZE - 1 : Stops(table, key, i)}

FirstStop(table, key) ==
  CHOOSE i \in StopSteps(table, key) :
    \A j \in StopSteps(table, key) : i <= j

search(table, key) ==
  IF StopSteps(table, key) = {}
  THEN -1
  ELSE table[Slot(key, FirstStop(table, key))].value

deleteKey(table, key) ==
  IF StopSteps(table, key) = {}
  THEN table
  ELSE [table EXCEPT ![Slot(key, FirstStop(table, key))].value = -1]
=============================================================================
