------------------------------- MODULE MCAcpi -------------------------------
(* Instance of Acpi: two controllers of three pins, addresses of six bits. *)
EXTENDS Acpi

CONSTANTS c1, c2

MCPins == [c \in {c1, c2} |-> 3]
MCIds  == [c \in {c1, c2} |-> IF c = c1 THEN 0 ELSE 1]

LocalAPIC   == [type |-> 0, length |-> 8]
First       == [type |-> 1, length |-> 12, apicID |-> 0, apicAddr |-> c1, gsiBase |-> 0]
Second      == [type |-> 1, length |-> 12, apicID |-> 1, apicAddr |-> c2, gsiBase |-> 3]
Misnumbered == [type |-> 1, length |-> 12, apicID |-> 7, apicAddr |-> c1, gsiBase |-> 0]
TimerISO    == [type |-> 2, length |-> 10, irqSrc |-> 0, gsi |-> 2, flags |-> {}]
LevelISO    == [type |-> 2, length |-> 10, irqSrc |-> 4, gsi |-> 4, flags |-> {1, 3}]
Address     == [type |-> 5, length |-> 12]

Kinds == {LocalAPIC, First, Second, Misnumbered, TimerISO, LevelISO, Address}

(* Another table ("HPET"), zeroes, or what looks like entries.             *)
Signature == [type |-> 72, length |-> 80]
Zero      == [type |-> 0, length |-> 0]
Behind    == {<<Signature>>, <<Zero>>, <<Second, Second, Second>>, <<LevelISO, Second, TimerISO>>}

Ends(memory) ==
  LET f[n \in 0 .. Len(memory)] == IF n = 0 THEN 0 ELSE f[n - 1] + memory[n].length
  IN  f

Old(entries, behind) ==
  [revision |-> 0, rsdt |-> <<3, 5, 9>>, xsdt |-> <<>>, madt |-> 5,
   entries |-> entries, behind |-> behind, ends |-> Ends(entries \o behind)]

Tables == UNION {[1 .. n -> Kinds] : n \in 0 .. 2}

MCMachines ==
  {Old(e, b) : e \in Tables, b \in Behind} \cup
  {[Old(<<LocalAPIC, First>>, <<Signature>>) EXCEPT !.rsdt = <<3, 9>>]} \cup
  {[Old(<<LocalAPIC, First>>, <<Signature>>) EXCEPT !.revision = 2, !.xsdt = x] :
     x \in {<<>>, <<5, 3>>, <<3, 9, 5>>}}

(* An edge-triggered line to processor 1, a masked level one to 0.         *)
MCRequests ==
  UNION {{[lapicID |-> 1, vec |-> 250, gsi |-> g, flags |-> {}, mask |-> FALSE],
          [lapicID |-> 0, vec |-> 40, gsi |-> g, flags |-> {1, 3}, mask |-> TRUE]} : g \in 0 .. 5}
=============================================================================
