----------------------------- MODULE AcpiProofs -----------------------------
(***************************************************************************)
(* Theorems about Acpi, for every machine, controller and redirection.     *)
(***************************************************************************)
EXTENDS Acpi, SequenceTheorems, WellFoundedInduction, TLAPS

Kept(type) == {e \in Entry : e.type = type}

Typed ==
  /\ machine \in Machines
  /\ pc \in {"acpi", "walk", "ioapic", "ready", "redirect", "fault", "halted", "wild"}
  /\ offset \in Nat /\ ioAPICLen \in {0, 1} /\ madtISOLen \in {0, 1}
  /\ madtInformationList \in [0 .. LIST - 1 -> Kept(IOAPIC) \cup {NULL}]
  /\ madtISOList \in [0 .. LIST - 1 -> Kept(ISO) \cup {NULL}]
  /\ lapicAddr \in Nat \cup {NULL}
  /\ DOMAIN redtbl = Controllers
  /\ \A c \in Controllers : redtbl[c] \in [0 .. pins[c] - 1 -> Register]
  /\ seen \in Seq(Entry)
  /\ asked \in [GSIs -> Redirection \cup {NULL}]

(* What is counted is in its list.                                         *)
CountedListed ==
  /\ ioAPICLen = 1 => madtInformationList[0] # NULL
  /\ madtISOLen = 1 => madtISOList[0] # NULL

(* The walk stands behind what it has read, and the counts are those of    *)
(* the last entry when it is over.                                         *)
CountsMatch ==
  /\ Len(seen) > 0
  /\ ioAPICLen = (IF seen[Len(seen)].type = IOAPIC THEN 1 ELSE 0)
  /\ madtISOLen = (IF seen[Len(seen)].type = ISO THEN 1 ELSE 0)

Walked ==
  /\ Len(seen) <= Len(Memory)
  /\ \A i \in DOMAIN seen : seen[i] = Memory[i] /\ seen[i].length > 0
  /\ offset = machine.ends[Len(seen)]
  /\ offset > Last => CountsMatch
  /\ pc \in {"ioapic", "ready", "redirect"} => offset > Last

(* The registers: untouched before the controller is set up, then as       *)
(* asked, but for the upper half of the one being written.                 *)
Written(c, p) ==
  LET ioapic == madtInformationList[0]
      g == ioapic.gsiBase + p
  IN  IF ioapic.apicAddr # c THEN Masked(0)
      ELSE IF g \in GSIs /\ asked[g] # NULL THEN AsAsked(asked[g])
      ELSE Masked(32 + p)

Pins ==
  /\ pc \in {"acpi", "walk", "ioapic"} =>
       /\ \A g \in GSIs : asked[g] = NULL
       /\ \A c \in Controllers : \A p \in DOMAIN redtbl[c] : redtbl[c][p] = Masked(0)
  /\ pc \in {"ready", "redirect"} => madtInformationList[0] # NULL
  /\ pc = "ready" =>
       \A c \in Controllers : \A p \in DOMAIN redtbl[c] : redtbl[c][p] = Written(c, p)
  /\ pc = "redirect" =>
       /\ request \in Redirection /\ request.gsi \in GSIs /\ getGSI(request.gsi) # NULL
       /\ \A c \in Controllers : \A p \in DOMAIN redtbl[c] :
            LET ioapic == getGSI(request.gsi)
            IN  IF c = ioapic.apicAddr /\ p = PinOf(ioapic, request.gsi)
                THEN [redtbl[c][p] EXCEPT !.lapicID = request.lapicID] = AsAsked(request)
                ELSE redtbl[c][p] = Written(c, p)

IInv == Typed /\ CountedListed /\ Walked /\ Pins

(* An entry of length 0, if there is one, is not of a kind that is kept.   *)
ZeroIsOther ==
  \A m \in Machines : \A e \in InMemory(m) : e.length = 0 => e.type \notin {IOAPIC, ISO}

-----------------------------------------------------------------------------
(* What the assumption says of the machine at hand.                        *)

LEMMA MachineIs ==
  ASSUME machine \in Machines
  PROVE  /\ Memory \in Seq(Entry) /\ DOMAIN Memory = 1 .. Len(Memory) /\ Len(Memory) \in Nat
         /\ Len(machine.entries) \in 0 .. Len(Memory)
         /\ \A i \in 1 .. Len(Memory) : Memory[i] \in Entry
         /\ \A e \in Entry : IsEntry(e) /\ \E i \in 1 .. Len(Memory) : e = Memory[i]
         /\ machine.ends \in [0 .. Len(Memory) -> Nat] /\ machine.ends[0] = 0
         /\ \A i \in 1 .. Len(Memory) :
              machine.ends[i] = machine.ends[i - 1] + Memory[i].length
         /\ \A i \in 0 .. Len(machine.entries) :
              machine.ends[i] <= machine.ends[Len(machine.entries)]
         /\ \/ machine.ends[Len(Memory)] > Last
            \/ \E e \in Entry : e.length = 0
<1>1. IsMachine(machine)
  BY AcpiAssumption
<1>2. Memory \in Seq(Entry)
  BY <1>1 DEF IsMachine, Memory, Entry
<1>3. DOMAIN Memory = 1 .. Len(Memory) /\ Len(Memory) \in Nat
  BY <1>2
<1>4. \A i \in 1 .. Len(Memory) : Memory[i] \in Entry
  BY <1>3 DEF Entry, InMemory, Memory
<1>5. \A e \in Entry : IsEntry(e) /\ \E i \in 1 .. Len(Memory) : e = Memory[i]
  BY <1>1, <1>3 DEF IsMachine, Entry, InMemory, Memory
<1>6. Last = machine.ends[Len(machine.entries)] + MADT_HEADER - MADT_INFO
  <2>1. machine.ends[Len(machine.entries)] \in Nat
    BY <1>1 DEF IsMachine
  <2> QED
    BY <2>1 DEF Last, Length, MADT_HEADER, MADT_INFO
<1> QED
  BY <1>1, <1>2, <1>3, <1>4, <1>5, <1>6 DEF IsMachine, Memory, Entry

LEMMA LastIs ==
  ASSUME machine \in Machines
  PROVE  /\ Last \in Nat /\ Last = machine.ends[Len(machine.entries)] + 28
         /\ \A i \in 0 .. Len(machine.entries) : machine.ends[i] <= Last
<1>1. machine.ends[Len(machine.entries)] \in Nat
  BY MachineIs
<1>2. Last = machine.ends[Len(machine.entries)] + 28
  BY <1>1 DEF Last, Length, MADT_HEADER, MADT_INFO
<1>3. ASSUME NEW i \in 0 .. Len(machine.entries) PROVE machine.ends[i] <= Last
  <2>1. i \in 0 .. Len(Memory) /\ machine.ends[i] <= machine.ends[Len(machine.entries)]
    BY MachineIs
  <2>2. machine.ends[i] \in Nat
    BY <2>1, MachineIs
  <2> QED
    BY <1>1, <1>2, <2>1, <2>2
<1> QED
  BY <1>1, <1>2, <1>3

-----------------------------------------------------------------------------
(* The invariant, action by action.                                        *)

LEMMA Initially == Init => IInv
<1> SUFFICES ASSUME Init PROVE IInv
  OBVIOUS
<1> USE AcpiAssumption DEF Init
<1>1. Typed
  <2>1. \A c \in Controllers : redtbl[c] \in [0 .. pins[c] - 1 -> Register]
    BY DEF Masked, Register
  <2>2. seen \in Seq(Entry)
    OBVIOUS
  <2> QED
    BY <2>1, <2>2 DEF Typed
<1>2. CountedListed
  BY DEF CountedListed
<1>3. Walked
  BY MachineIs, LastIs DEF Walked
<1>4. Pins
  BY DEF Pins
<1> QED
  BY <1>1, <1>2, <1>3, <1>4 DEF IInv

(* An entry is left to read, for an entry of length 0 is never left.       *)
LEMMA EntryLeft ==
  ASSUME IInv, offset <= Last
  PROVE  /\ Len(seen) \in Nat /\ Len(seen) + 1 \in 1 .. Len(Memory)
         /\ EntryRead \in Entry /\ IsEntry(EntryRead)
         /\ machine.ends[Len(seen) + 1] = machine.ends[Len(seen)] + EntryRead.length
<1> USE DEF IInv, Typed, Walked
<1>1. Len(seen) \in Nat /\ DOMAIN seen = 1 .. Len(seen)
  OBVIOUS
<1>2. Len(seen) # Len(Memory)
  <2>1. SUFFICES ASSUME Len(seen) = Len(Memory) PROVE FALSE
    OBVIOUS
  <2>2. Last \in Nat /\ offset = machine.ends[Len(Memory)] /\ offset \in Nat
    BY <2>1, LastIs
  <2>3. PICK e \in Entry : e.length = 0
    BY <2>2, MachineIs
  <2>4. PICK i \in 1 .. Len(Memory) : e = Memory[i]
    BY MachineIs
  <2>5. seen[i] = e /\ seen[i].length > 0
    BY <1>1, <2>1, <2>4
  <2> QED
    BY <2>3, <2>5
<1>3. Len(seen) + 1 \in 1 .. Len(Memory)
  <2>1. Len(Memory) \in Nat /\ Len(seen) <= Len(Memory)
    BY MachineIs
  <2> QED
    BY ONLY <1>1, <1>2, <2>1
<1>4. (Len(seen) + 1) - 1 = Len(seen)
  BY <1>1
<1> QED
  BY <1>1, <1>3, <1>4, MachineIs DEF EntryRead

LEMMA SameMachine ==
  ASSUME machine' = machine
  PROVE  Memory' = Memory /\ Entry' = Entry /\ Last' = Last /\ GSIs' = GSIs
BY DEF Memory, Entry, Last, Length, GSIs, MemoryOf, InMemory

(* The steps that go on or stop without a change of anything else.         *)
LEMMA GoesOn ==
  ASSUME IInv, UNCHANGED <<machine, listVars, redtbl, asked>>,
         pc' \in {"walk", "ioapic", "fault", "halted", "wild"},
         pc' \in {"walk", "ioapic"} => pc \in {"acpi", "walk"},
         pc' = "ioapic" => offset > Last
  PROVE  IInv'
<1> USE DEF listVars
<1>1. Memory' = Memory /\ Entry' = Entry /\ Last' = Last /\ GSIs' = GSIs
  BY SameMachine
<1>2. Typed'
  BY <1>1 DEF IInv, Typed, Kept
<1>3. CountedListed'
  BY DEF IInv, CountedListed
<1>4. Walked'
  BY <1>1 DEF IInv, Walked, CountsMatch
<1>5. Pins'
  BY <1>1 DEF IInv, Pins
<1> QED
  BY <1>2, <1>3, <1>4, <1>5 DEF IInv

(* A turn of the walk.                                                     *)
LEMMA Turn ==
  ASSUME IInv, ReadEntry
  PROVE  IInv'
<1> DEFINE entry == EntryRead
           n == Len(seen)
<1>1. Memory' = Memory /\ Entry' = Entry /\ Last' = Last /\ GSIs' = GSIs
  BY SameMachine DEF ReadEntry
<1>2. /\ pc = "walk" /\ pc' = "walk" /\ offset <= Last
      /\ UNCHANGED <<machine, redtbl, asked>>
      /\ offset' = offset + entry.length
      /\ seen' = IF entry.length = 0 THEN seen ELSE Append(seen, entry)
      /\ ioAPICLen' = (IF entry.type = IOAPIC THEN 1 ELSE 0)
      /\ madtISOLen' = (IF entry.type = ISO THEN 1 ELSE 0)
      /\ madtInformationList' =
           IF entry.type = IOAPIC THEN [madtInformationList EXCEPT ![0] = entry]
           ELSE madtInformationList
      /\ madtISOList' =
           IF entry.type = ISO THEN [madtISOList EXCEPT ![0] = entry] ELSE madtISOList
      /\ lapicAddr' = IF entry.type = LAPIC_ADDRESS THEN offset + 8 ELSE lapicAddr
  BY DEF ReadEntry, Advance, Counted, Listed, Reset
<1>3. /\ n \in Nat /\ n + 1 \in 1 .. Len(Memory)
      /\ entry \in Entry /\ IsEntry(entry)
      /\ machine.ends[n + 1] = machine.ends[n] + entry.length
  BY <1>2, EntryLeft
<1>4. offset \in Nat /\ seen \in Seq(Entry) /\ 0 \in 0 .. LIST - 1 /\ entry.length \in Nat
  BY <1>3, AcpiAssumption DEF IInv, Typed, IsEntry
<1>5. seen' \in Seq(Entry)
  BY <1>2, <1>3, <1>4
<1>6. Typed'
  <2>1. offset' \in Nat /\ lapicAddr' \in Nat \cup {NULL}
    BY <1>2, <1>4 DEF IInv, Typed
  <2>2. madtInformationList' \in [0 .. LIST - 1 -> Kept(IOAPIC) \cup {NULL}]
    BY <1>2, <1>3, <1>4 DEF IInv, Typed, Kept
  <2>3. madtISOList' \in [0 .. LIST - 1 -> Kept(ISO) \cup {NULL}]
    BY <1>2, <1>3, <1>4 DEF IInv, Typed, Kept
  <2> QED
    BY <1>1, <1>2, <1>5, <2>1, <2>2, <2>3 DEF IInv, Typed, Kept
<1>7. CountedListed'
  BY <1>2, <1>3, <1>4 DEF IInv, Typed, CountedListed, IsEntry, IOAPIC, ISO
<1>8. Walked'
  <2>1. CASE entry.length = 0
    <3>1. offset' = offset /\ seen' = seen
      BY <1>2, <1>4, <2>1
    <3>2. ~ (offset > Last)
      BY <1>2, <1>4, LastIs DEF IInv, Typed
    <3> QED
      BY <1>1, <1>2, <3>1, <3>2 DEF IInv, Walked
  <2>2. CASE entry.length # 0
    <3>1. seen' = Append(seen, entry)
      BY <1>2, <2>2
    <3>2. /\ Len(seen') = n + 1 /\ seen'[n + 1] = entry
          /\ \A i \in 1 .. n : seen'[i] = seen[i]
          /\ DOMAIN seen = 1 .. n /\ DOMAIN seen' = 1 .. n + 1
      BY <1>3, <1>4, <3>1
    <3>3. Len(seen') <= Len(Memory)'
      <4>1. Len(Memory) \in Nat /\ Len(Memory)' = Len(Memory)
        BY <1>1, MachineIs DEF IInv, Typed
      <4> QED
        BY ONLY <1>3, <3>2, <4>1
    <3>4. ASSUME NEW i \in DOMAIN seen' PROVE seen'[i] = Memory[i] /\ seen'[i].length > 0
      <4>1. CASE i = n + 1
        BY <1>4, <2>2, <3>2, <4>1 DEF EntryRead
      <4>2. CASE i \in 1 .. n
        BY <3>2, <4>2 DEF IInv, Walked
      <4> QED
        BY <1>3, <3>2, <4>1, <4>2
    <3>5. offset' = machine'.ends[Len(seen')]
      BY <1>2, <1>3, <3>2 DEF IInv, Walked
    <3>6. CountsMatch'
      BY <1>2, <1>3, <3>2 DEF CountsMatch
    <3> QED
      BY <1>1, <1>2, <3>3, <3>4, <3>5, <3>6 DEF Walked
  <2> QED
    BY <2>1, <2>2
<1>9. Pins'
  BY <1>1, <1>2 DEF IInv, Pins
<1> QED
  BY <1>6, <1>7, <1>8, <1>9 DEF IInv

(* The controller is set up: pin i gets vector 32 + i, masked.             *)
LEMMA SetsUp ==
  ASSUME IInv, InitIOAPIC
  PROVE  IInv'
<1> DEFINE ioapic == madtInformationList[0]
           c0 == ioapic.apicAddr
<1>1. Memory' = Memory /\ Entry' = Entry /\ Last' = Last /\ GSIs' = GSIs
  BY SameMachine DEF InitIOAPIC
<1>2. /\ pc = "ioapic" /\ pc' = "ready" /\ ioapic # NULL
      /\ UNCHANGED <<machine, listVars, request, asked>>
      /\ redtbl' = [redtbl EXCEPT ![c0] = [i \in DOMAIN @ |-> Masked(32 + i)]]
  BY DEF InitIOAPIC, Goto
<1>3. c0 \in Controllers
  <2>1. 0 \in 0 .. LIST - 1
    BY AcpiAssumption
  <2>2. ioapic \in Kept(IOAPIC)
    BY <1>2, <2>1 DEF IInv, Typed
  <2> QED
    BY <2>2, MachineIs DEF Kept, IsEntry, IInv, Typed
<1>4. pins[c0] \in 1 .. 224 /\ redtbl[c0] \in [0 .. pins[c0] - 1 -> Register]
  BY <1>3, AcpiAssumption DEF IInv, Typed
<1>5. redtbl'[c0] = [i \in 0 .. pins[c0] - 1 |-> Masked(32 + i)]
  BY <1>2, <1>3, <1>4 DEF IInv, Typed
<1>6. /\ DOMAIN redtbl' = Controllers
      /\ \A c \in Controllers \ {c0} : redtbl'[c] = redtbl[c]
  BY <1>2, <1>3 DEF IInv, Typed
<1>7. \A c \in Controllers : redtbl'[c] \in [0 .. pins[c] - 1 -> Register]
  <2>1. \A i \in 0 .. pins[c0] - 1 : Masked(32 + i) \in Register
    <3>1. \A n \in 1 .. 224 : \A i \in 0 .. n - 1 : 32 + i \in 0 .. 255
      OBVIOUS
    <3>2. \A v \in 0 .. 255 : Masked(v) \in Register
      BY DEF Masked, Register
    <3>3. \A i \in 0 .. pins[c0] - 1 : 32 + i \in 0 .. 255
      BY ONLY <1>4, <3>1
    <3> QED
      BY ONLY <3>2, <3>3
  <2> QED
    BY <1>5, <1>6, <2>1 DEF IInv, Typed
<1>8. Typed'
  BY <1>1, <1>2, <1>6, <1>7 DEF IInv, Typed, Kept, listVars
<1>9. CountedListed'
  BY <1>2 DEF IInv, CountedListed, listVars
<1>10. Walked'
  BY <1>1, <1>2 DEF IInv, Walked, CountsMatch, listVars
<1>11. Pins'
  <2>1. ASSUME NEW c \in Controllers, NEW p \in DOMAIN redtbl'[c]
        PROVE  redtbl'[c][p] = Written(c, p)'
    <3>1. \A g \in GSIs : asked'[g] = NULL
      BY <1>2 DEF IInv, Pins
    <3>2. CASE c = c0
      BY <1>1, <1>2, <1>4, <1>5, <2>1, <3>1, <3>2 DEF Written, listVars
    <3>3. CASE c # c0
      BY <1>1, <1>2, <1>6, <2>1, <3>3 DEF Written, listVars, IInv, Pins
    <3> QED
      BY <3>2, <3>3
  <2>2. \A c \in Controllers : \A p \in DOMAIN redtbl'[c] : redtbl'[c][p] = Written(c, p)'
    BY <2>1
  <2>3. madtInformationList'[0] # NULL
    BY <1>2 DEF listVars
  <2> QED
    BY <1>2, <2>2, <2>3, Zenon DEF Pins
<1> QED
  BY <1>8, <1>9, <1>10, <1>11 DEF IInv

-----------------------------------------------------------------------------
(* Redirections.                                                           *)

(* The one entry that can be found is the first of the list.               *)
LEMMA Found ==
  ASSUME IInv, NEW gsi \in Nat, getGSI(gsi) # NULL
  PROVE  LET ioapic == getGSI(gsi)
         IN  /\ ioapic = madtInformationList[0] /\ ioapic.apicAddr \in Controllers
             /\ ioapic.gsiBase \in Nat
             /\ PinOf(ioapic, gsi) \in 0 .. pins[ioapic.apicAddr] - 1
             /\ gsi = ioapic.gsiBase + PinOf(ioapic, gsi)
<1> DEFINE ioapic == madtInformationList[0]
<1>1. Serving(gsi) # {}
  BY DEF getGSI
<1>2. ioAPICLen = 1 /\ Serving(gsi) = {0}
  BY <1>1 DEF IInv, Typed, Serving
<1>3. getGSI(gsi) = ioapic
  <2>1. (CHOOSE i \in {0} : \A j \in {0} : i <= j) = 0
    OBVIOUS
  <2> QED
    BY <1>1, <1>2, <2>1 DEF getGSI
<1>4. 0 \in 0 .. LIST - 1
  BY AcpiAssumption
<1>5. ioapic \in Kept(IOAPIC)
  BY <1>2, <1>4 DEF IInv, Typed, CountedListed
<1>6. ioapic.apicAddr \in Controllers /\ ioapic.gsiBase \in Nat
  BY <1>5, MachineIs DEF Kept, IsEntry, IInv, Typed
<1>7. pins[ioapic.apicAddr] \in 1 .. 224
  BY <1>6, AcpiAssumption
<1>8. ioapic.gsiBase <= gsi /\ ioapic.gsiBase + getGSICount(ioapic) > gsi
  BY <1>2 DEF Serving
<1>9. /\ PinOf(ioapic, gsi) \in 0 .. pins[ioapic.apicAddr] - 1
      /\ gsi = ioapic.gsiBase + PinOf(ioapic, gsi)
  BY <1>6, <1>7, <1>8 DEF PinOf, getGSICount
<1> QED
  BY <1>3, <1>6, <1>9

(* What redirectIRQ asks for is a redirection of a GSI that is named.      *)
LEMMA Asks ==
  ASSUME IInv, NEW r \in Requests, NEW q \in {r, redirectIRQ(r)}
  PROVE  q \in Redirection /\ q.gsi \in GSIs
<1>1. r \in Redirection /\ r.gsi \in GSIs
  BY AcpiAssumption DEF GSIs
<1>2. CASE Overrides(r.gsi) = {}
  <2>1. redirectIRQ(r) = [r EXCEPT !.gsi = r.gsi, !.flags = {}]
    BY <1>2 DEF redirectIRQ, getRedirectIRQ
  <2>2. redirectIRQ(r) \in Redirection /\ redirectIRQ(r).gsi = r.gsi
    <3>1. r.gsi \in Nat /\ {} \in SUBSET (0 .. 15)
      BY <1>1 DEF Redirection
    <3> QED
      BY <1>1, <2>1, <3>1 DEF Redirection
  <2> QED
    BY <1>1, <2>2
<1>3. CASE Overrides(r.gsi) # {}
  <2> DEFINE iso == madtISOList[0]
  <2>1. madtISOLen = 1 /\ Overrides(r.gsi) = {0}
    BY <1>3 DEF IInv, Typed, Overrides
  <2>2. Override(r.gsi) = iso
    <3>1. (CHOOSE i \in {0} : \A j \in {0} : i <= j) = 0
      OBVIOUS
    <3> QED
      BY <2>1, <3>1 DEF Override
  <2>3. 0 \in 0 .. LIST - 1
    BY AcpiAssumption
  <2>4. iso \in Kept(ISO)
    BY <2>1, <2>3 DEF IInv, Typed, CountedListed
  <2>5. iso.gsi \in Nat /\ iso.flags \subseteq 0 .. 15
    BY <2>4, MachineIs DEF Kept, IsEntry, IInv, Typed
  <2>6. iso.gsi \in GSIs
    <3>1. PICK i \in 1 .. Len(Memory) : iso = Memory[i]
      BY <2>4, MachineIs DEF Kept, IInv, Typed
    <3>2. i \in DOMAIN Memory /\ Memory[i].type = ISO
      BY <2>4, <3>1, MachineIs DEF Kept, IInv, Typed
    <3> QED
      BY <3>1, <3>2 DEF GSIs
  <2>7. redirectIRQ(r) = [r EXCEPT !.gsi = iso.gsi, !.flags = iso.flags]
    BY <1>3, <2>2 DEF redirectIRQ, getRedirectIRQ
  <2>8. redirectIRQ(r) \in Redirection /\ redirectIRQ(r).gsi = iso.gsi
    <3>1. PICK g \in Nat : g = iso.gsi
      BY <2>5
    <3>2. PICK f \in SUBSET (0 .. 15) : f = iso.flags
      BY <2>5
    <3>3. redirectIRQ(r) = [r EXCEPT !.gsi = g, !.flags = f]
      BY <2>7, <3>1, <3>2
    <3>4. redirectIRQ(r) \in Redirection /\ redirectIRQ(r).gsi = g
      BY <1>1, <3>3 DEF Redirection
    <3> QED
      BY <3>1, <3>4
  <2> QED
    BY <1>1, <2>6, <2>8
<1> QED
  BY <1>2, <1>3

(* The lower half of the register is written.                              *)
LEMMA Begins ==
  ASSUME IInv, NEW r \in Redirection, r.gsi \in GSIs, Redirect(r)
  PROVE  IInv'
<1> DEFINE ioapic == getGSI(r.gsi)
           c0 == ioapic.apicAddr
           p0 == PinOf(ioapic, r.gsi)
           new == [redtbl[c0][p0] EXCEPT !.vec = r.vec, !.masked = r.mask,
                                         !.low = 1 \in r.flags, !.level = 3 \in r.flags]
<1>1. Memory' = Memory /\ Entry' = Entry /\ Last' = Last /\ GSIs' = GSIs
  BY SameMachine DEF Redirect
<1>2. /\ pc = "ready" /\ pc' = "redirect" /\ ioapic # NULL /\ request' = r
      /\ UNCHANGED <<machine, listVars, asked>>
      /\ redtbl' = [redtbl EXCEPT ![c0][p0] = new]
  BY DEF Redirect, Goto
<1>3. /\ ioapic = madtInformationList[0] /\ c0 \in Controllers /\ ioapic.gsiBase \in Nat
      /\ p0 \in 0 .. pins[c0] - 1 /\ r.gsi = ioapic.gsiBase + p0
  <2>1. r.gsi \in Nat
    BY DEF Redirection
  <2> QED
    BY <1>2, <2>1, Found
<1>4. redtbl[c0] \in [0 .. pins[c0] - 1 -> Register] /\ redtbl[c0][p0] \in Register
  BY <1>3 DEF IInv, Typed
<1>5. new \in Register /\ [new EXCEPT !.lapicID = r.lapicID] = AsAsked(r)
  <2>1. r.vec \in 0 .. 255 /\ r.mask \in BOOLEAN
    BY DEF Redirection
  <2>2. PICK old \in Register : old = redtbl[c0][p0]
    BY <1>4
  <2>3. new = [old EXCEPT !.vec = r.vec, !.masked = r.mask,
                          !.low = 1 \in r.flags, !.level = 3 \in r.flags]
    BY <2>2
  <2> HIDE DEF new
  <2>4. /\ new.vec = r.vec /\ new.masked = r.mask
        /\ new.low = (1 \in r.flags) /\ new.level = (3 \in r.flags)
    BY <2>2, <2>3 DEF Register
  <2>5. new \in Register
    <3>1. new.low \in BOOLEAN /\ new.level \in BOOLEAN
      BY ONLY <2>4
    <3>2. new.vec \in 0 .. 255 /\ new.masked \in BOOLEAN /\ new.lapicID \in Nat
      BY <2>1, <2>2, <2>3, <2>4 DEF Register
    <3>3. /\ DOMAIN new = {"vec", "masked", "level", "low", "lapicID"}
          /\ new = [i \in DOMAIN new |-> new[i]]
      BY <2>2, <2>3 DEF Register
    <3> QED
      BY ONLY <3>1, <3>2, <3>3 DEF Register
  <2>6. new = [vec |-> r.vec, masked |-> r.mask, level |-> 3 \in r.flags,
               low |-> 1 \in r.flags, lapicID |-> new.lapicID]
    BY ONLY <2>4, <2>5 DEF Register
  <2>7. [new EXCEPT !.lapicID = r.lapicID] = AsAsked(r)
    BY ONLY <2>6 DEF AsAsked
  <2> QED
    BY <2>5, <2>7
<1>6. /\ DOMAIN redtbl' = Controllers
      /\ redtbl'[c0] = [redtbl[c0] EXCEPT ![p0] = new]
      /\ \A c \in Controllers \ {c0} : redtbl'[c] = redtbl[c]
  BY <1>2, <1>3 DEF IInv, Typed
<1>7. \A c \in Controllers : redtbl'[c] \in [0 .. pins[c] - 1 -> Register]
  <2>1. redtbl'[c0] \in [0 .. pins[c0] - 1 -> Register]
    BY <1>4, <1>5, <1>6
  <2> QED
    BY <1>6, <2>1 DEF IInv, Typed
<1>8. Typed'
  BY <1>1, <1>2, <1>6, <1>7 DEF IInv, Typed, Kept, listVars
<1>9. CountedListed'
  BY <1>2 DEF IInv, CountedListed, listVars
<1>10. Walked'
  BY <1>1, <1>2 DEF IInv, Walked, CountsMatch, listVars
<1>11. getGSI(request.gsi)' = ioapic
  <2>1. Serving(request.gsi)' = Serving(r.gsi)
    BY <1>2 DEF Serving, getGSICount, listVars
  <2> QED
    BY <1>2, <2>1 DEF getGSI, listVars
<1>12. Pins'
  <2>1. ASSUME NEW c \in Controllers, NEW p \in DOMAIN redtbl'[c], c = c0, p = p0
        PROVE  [redtbl'[c][p] EXCEPT !.lapicID = r.lapicID] = AsAsked(r)
    BY <1>3, <1>4, <1>5, <1>6, <2>1
  <2>2. ASSUME NEW c \in Controllers, NEW p \in DOMAIN redtbl'[c], ~ (c = c0 /\ p = p0)
        PROVE  redtbl'[c][p] = Written(c, p)'
    <3>1. p \in DOMAIN redtbl[c] /\ redtbl'[c][p] = redtbl[c][p]
      BY <1>3, <1>4, <1>6, <2>2
    <3>2. redtbl[c][p] = Written(c, p)
      BY <1>2, <3>1 DEF IInv, Pins
    <3>3. Written(c, p)' = Written(c, p)
      BY <1>1, <1>2 DEF Written, listVars
    <3> QED
      BY <3>1, <3>2, <3>3
  <2>3. request' \in Redirection /\ request'.gsi \in GSIs' /\ getGSI(request.gsi)' # NULL
    BY <1>1, <1>2, <1>11
  <2>4. madtInformationList'[0] # NULL
    BY <1>2, <1>3 DEF listVars
  <2>5. PinOf(getGSI(request.gsi), request.gsi)' = p0
    BY <1>2, <1>11 DEF PinOf
  <2> QED
    BY <1>2, <1>11, <2>1, <2>2, <2>3, <2>4, <2>5 DEF Pins, PinOf
<1> QED
  BY <1>8, <1>9, <1>10, <1>12 DEF IInv

(* The upper half follows, and the pin is as it was asked to be.           *)
LEMMA Completes ==
  ASSUME IInv, RedirectDone
  PROVE  IInv'
<1> DEFINE r == request
           ioapic == getGSI(r.gsi)
           c0 == ioapic.apicAddr
           p0 == PinOf(ioapic, r.gsi)
           new == [redtbl[c0][p0] EXCEPT !.lapicID = r.lapicID]
<1>1. Memory' = Memory /\ Entry' = Entry /\ Last' = Last /\ GSIs' = GSIs
  BY SameMachine DEF RedirectDone
<1>2. /\ pc = "redirect" /\ pc' = "ready" /\ request' = NULL
      /\ UNCHANGED <<machine, listVars>>
      /\ redtbl' = [redtbl EXCEPT ![c0][p0] = new]
      /\ asked' = [asked EXCEPT ![r.gsi] = r]
  BY DEF RedirectDone, Goto
<1>3. r \in Redirection /\ r.gsi \in GSIs /\ ioapic # NULL
  BY <1>2 DEF IInv, Pins
<1>4. /\ ioapic = madtInformationList[0] /\ c0 \in Controllers /\ ioapic.gsiBase \in Nat
      /\ p0 \in 0 .. pins[c0] - 1 /\ r.gsi = ioapic.gsiBase + p0
  <2>1. r.gsi \in Nat
    BY <1>3 DEF Redirection
  <2> QED
    BY <1>3, <2>1, Found
<1>5. redtbl[c0] \in [0 .. pins[c0] - 1 -> Register] /\ redtbl[c0][p0] \in Register
  BY <1>4 DEF IInv, Typed
<1>6. new \in Register
  <2>1. r.lapicID \in Nat
    BY <1>3 DEF Redirection
  <2> QED
    BY <1>5, <2>1 DEF Register
<1>7. new = AsAsked(r)
  BY <1>2, <1>4, <1>5 DEF IInv, Pins
<1>8. /\ DOMAIN redtbl' = Controllers
      /\ redtbl'[c0] = [redtbl[c0] EXCEPT ![p0] = new]
      /\ \A c \in Controllers \ {c0} : redtbl'[c] = redtbl[c]
  BY <1>2, <1>4 DEF IInv, Typed
<1>9. \A c \in Controllers : redtbl'[c] \in [0 .. pins[c] - 1 -> Register]
  <2>1. redtbl'[c0] \in [0 .. pins[c0] - 1 -> Register]
    BY <1>5, <1>6, <1>8
  <2> QED
    BY <1>8, <2>1 DEF IInv, Typed
<1>10. asked' \in [GSIs -> Redirection \cup {NULL}]
  BY <1>2, <1>3 DEF IInv, Typed
<1>11. Typed'
  BY <1>1, <1>2, <1>8, <1>9, <1>10 DEF IInv, Typed, Kept, listVars
<1>12. CountedListed'
  BY <1>2 DEF IInv, CountedListed, listVars
<1>13. Walked'
  BY <1>1, <1>2 DEF IInv, Walked, CountsMatch, listVars
<1>14. Pins'
  <2>1. /\ r # NULL /\ asked'[r.gsi] = r
        /\ \A g \in GSIs : g # r.gsi => asked'[g] = asked[g]
    BY <1>2, <1>3, AcpiAssumption DEF IInv, Typed
  <2>2. ASSUME NEW c \in Controllers, NEW p \in DOMAIN redtbl'[c]
        PROVE  redtbl'[c][p] = Written(c, p)'
    <3>1. CASE c = c0 /\ p = p0
      <4>1. redtbl'[c][p] = AsAsked(r)
        BY <1>4, <1>5, <1>7, <1>8, <3>1
      <4>2. Written(c, p)' = AsAsked(r)
        BY <1>1, <1>2, <1>3, <1>4, <2>1, <3>1 DEF Written, listVars, AsAsked
      <4> QED
        BY <4>1, <4>2
    <3>2. CASE ~ (c = c0 /\ p = p0)
      <4>1. p \in DOMAIN redtbl[c] /\ redtbl'[c][p] = redtbl[c][p]
        BY <1>4, <1>5, <1>8, <2>2, <3>2
      <4>2. redtbl[c][p] = Written(c, p)
        BY <1>2, <3>2, <4>1 DEF IInv, Pins
      <4>3. Written(c, p)' = Written(c, p)
        <5>1. CASE c # c0
          BY <1>2, <1>4, <5>1 DEF Written, listVars
        <5>2. CASE c = c0
          <6>1. p \in 0 .. pins[c0] - 1 /\ pins[c0] \in 1 .. 224
            BY <1>5, <4>1, <5>2, AcpiAssumption
          <6>2. p # p0
            BY <3>2, <5>2
          <6>3. ioapic.gsiBase + p # r.gsi
            BY ONLY <1>4, <6>1, <6>2
          <6> QED
            BY <1>1, <1>2, <1>4, <2>1, <5>2, <6>3 DEF Written, listVars, AsAsked
        <5> QED
          BY <5>1, <5>2
      <4> QED
        BY <4>1, <4>2, <4>3
    <3> QED
      BY <3>1, <3>2
  <2>3. \A c \in Controllers : \A p \in DOMAIN redtbl'[c] : redtbl'[c][p] = Written(c, p)'
    BY <2>2
  <2>4. madtInformationList'[0] # NULL
    BY <1>2, <1>3, <1>4 DEF listVars
  <2> QED
    BY <1>2, <2>3, <2>4, Zenon DEF Pins
<1> QED
  BY <1>11, <1>12, <1>13, <1>14 DEF IInv

LEMMA Stutter ==
  ASSUME IInv, UNCHANGED vars
  PROVE  IInv'
<1> USE DEF vars, listVars
<1>1. Memory' = Memory /\ Entry' = Entry /\ Last' = Last /\ GSIs' = GSIs
  BY SameMachine
<1>2. Typed' /\ CountedListed'
  BY <1>1 DEF IInv, Typed, Kept, CountedListed
<1>3. Walked'
  BY <1>1 DEF IInv, Walked, CountsMatch
<1>4. Pins'
  <2>1. \A c, p : Written(c, p)' = Written(c, p)
    BY <1>1 DEF Written
  <2>2. getGSI(request.gsi)' = getGSI(request.gsi)
    BY DEF getGSI, Serving, getGSICount
  <2> QED
    BY <1>1, <2>1, <2>2 DEF IInv, Pins, PinOf
<1> QED
  BY <1>2, <1>3, <1>4 DEF IInv

LEMMA Inductive == IInv /\ [Next]_vars => IInv'
<1> SUFFICES ASSUME IInv, [Next]_vars PROVE IInv'
  OBVIOUS
<1>1. CASE InitACPI
  BY <1>1, GoesOn DEF InitACPI, FindMADT, FindMADTFaults, FindsNoMADT, Goto, listVars
<1>2. CASE ReadEntry
  BY <1>2, Turn
<1>3. CASE WalkEnds
  BY <1>3, GoesOn DEF WalkEnds, Goto
<1>4. CASE InitIOAPIC
  BY <1>4, SetsUp
<1>5. CASE InitIOAPICHalts \/ InitIOAPICNull
  BY <1>5, GoesOn DEF InitIOAPICHalts, InitIOAPICNull, Goto
<1>6. CASE RedirectDone
  BY <1>6, Completes
<1>7. ASSUME NEW r \in Requests, NEW q \in {r, redirectIRQ(r)}, Redirect(q)
      PROVE  IInv'
  BY <1>7, Asks, Begins
<1>8. ASSUME NEW q, RedirectNull(q)
      PROVE  IInv'
  BY <1>8, GoesOn DEF RedirectNull, Goto
<1>9. CASE UNCHANGED vars
  BY <1>9, Stutter
<1> QED
  BY <1>1, <1>2, <1>3, <1>4, <1>5, <1>6, <1>7, <1>8, <1>9 DEF Next, InitMADT, InitAPIC

LEMMA Invariance == Spec => []IInv
BY Initially, Inductive, PTL DEF Spec

-----------------------------------------------------------------------------
(* What the lists keep.                                                    *)

LEMMA LargestIndex ==
  ASSUME NEW n \in Nat, NEW s \in SUBSET (1 .. n), s # {}
  PROVE  \E k \in s : \A j \in s : j <= k
<1> DEFINE below == {n - i : i \in s}
           R == OpToRel(<, Nat)
<1>1. ASSUME NEW i \in s PROVE n - i \in Nat
  OBVIOUS
<1>2. below \subseteq Nat /\ below # {}
  BY <1>1
<1>3. \A x, y \in Nat : x < y => <<x, y>> \in R
  BY DEF OpToRel
<1>4. PICK d \in below : \A m \in below : ~ (<<m, d>> \in R)
  <2> HIDE DEF below, R
  <2>1. IsWellFoundedOn(R, Nat)
    BY NatLessThanWellFounded DEF R
  <2> QED
    BY <1>2, <2>1, WFMin
<1>5. PICK k \in s : d = n - k
  BY <1>4
<1>6. ASSUME NEW j \in s PROVE j <= k
  <2>1. n - j \in below /\ n - j \in Nat /\ d \in Nat
    BY <1>2, <1>4
  <2>2. ~ (n - j < d)
    <3> HIDE DEF below, R
    <3> QED
      BY <1>3, <1>4, <2>1
  <2>3. j \in Nat /\ k \in Nat
    OBVIOUS
  <2> QED
    BY ONLY <1>5, <2>2, <2>3, n \in Nat
<1> QED
  BY <1>6

LEMMA LastAppended ==
  ASSUME NEW type, seen \in Seq(Entry), NEW e \in Entry, seen' = Append(seen, e)
  PROVE  LastOf(type)' = IF e.type = type THEN e ELSE LastOf(type)
<1> DEFINE n == Len(seen)
           s == {i \in DOMAIN seen : seen[i].type = type}
           t == {i \in DOMAIN seen' : seen'[i].type = type}
<1>1. n \in Nat /\ DOMAIN seen = 1 .. n /\ DOMAIN seen' = 1 .. n + 1
  OBVIOUS
<1>2. seen'[n + 1] = e /\ \A i \in 1 .. n : seen'[i] = seen[i]
  OBVIOUS
<1>3. CASE e.type = type
  <2>1. n + 1 \in t /\ \A j \in t : j <= n + 1
    BY <1>1, <1>2, <1>3
  <2>2. (CHOOSE i \in t : \A j \in t : j <= i) = n + 1
    <3>1. t \subseteq Int
      BY <1>1
    <3>2. \A i \in t : (\A j \in t : j <= i) => i = n + 1
      BY ONLY <1>1, <2>1, <3>1
    <3> HIDE DEF t
    <3> QED
      BY <2>1, <3>2
  <2>3. LastOf(type)' = seen'[n + 1]
    <3>1. t # {}
      BY <2>1
    <3> QED
      BY <2>2, <3>1 DEF LastOf
  <2> QED
    BY <1>2, <1>3, <2>3
<1>4. CASE e.type # type
  <2>1. t = s
    BY <1>1, <1>2, <1>4
  <2>2. CASE s = {}
    BY <1>4, <2>1, <2>2 DEF LastOf
  <2>3. CASE s # {}
    <3>1. PICK k \in s : \A j \in s : j <= k
      <4>1. s \in SUBSET (1 .. n)
        BY <1>1
      <4> QED
        BY <1>1, <2>3, <4>1, LargestIndex
    <3>2. (CHOOSE i \in s : \A j \in s : j <= i) \in 1 .. n
      <4> HIDE DEF s
      <4>1. (CHOOSE i \in s : \A j \in s : j <= i) \in s
        BY <3>1
      <4> QED
        BY <1>1, <4>1 DEF s
    <3> QED
      BY <1>2, <1>4, <2>1, <2>3, <3>2 DEF LastOf
  <2> QED
    BY <2>2, <2>3
<1> QED
  BY <1>3, <1>4

LEMMA ListKept ==
  ASSUME NEW list, NEW e, NEW x, list = Only(x), 0 \in 0 .. LIST - 1
  PROVE  [list EXCEPT ![0] = e] = Only(e)
BY DEF Only

LEMMA KeepsLastStep ==
  ASSUME ZeroIsOther, IInv, KeepsLast, [Next]_vars
  PROVE  KeepsLast'
<1>1. ASSUME UNCHANGED listVars PROVE KeepsLast'
  BY <1>1 DEF listVars, KeepsLast, LastOf, Only
<1>2. CASE ReadEntry
  <2> DEFINE entry == EntryRead
  <2>1. entry \in Entry /\ seen \in Seq(Entry) /\ 0 \in 0 .. LIST - 1
    BY <1>2, EntryLeft, AcpiAssumption DEF ReadEntry, IInv, Typed
  <2>2. /\ seen' = IF entry.length = 0 THEN seen ELSE Append(seen, entry)
        /\ madtInformationList' =
             IF entry.type = IOAPIC THEN [madtInformationList EXCEPT ![0] = entry]
             ELSE madtInformationList
        /\ madtISOList' =
             IF entry.type = ISO THEN [madtISOList EXCEPT ![0] = entry] ELSE madtISOList
    BY <1>2 DEF ReadEntry, Advance, Listed, Reset
  <2>3. CASE entry.length = 0
    <3>1. entry.type # IOAPIC /\ entry.type # ISO
      BY <2>1, <2>3 DEF ZeroIsOther, Entry, IInv, Typed
    <3> QED
      BY <2>2, <2>3, <3>1 DEF KeepsLast, LastOf, Only
  <2>4. CASE entry.length # 0
    <3>1. seen' = Append(seen, entry)
      BY <2>2, <2>4
    <3>2. madtInformationList' = Only(LastOf(IOAPIC)')
      <4>1. LastOf(IOAPIC)' = IF entry.type = IOAPIC THEN entry ELSE LastOf(IOAPIC)
        BY <2>1, <3>1, LastAppended
      <4> QED
        BY <2>1, <2>2, <4>1, ListKept DEF KeepsLast
    <3>3. madtISOList' = Only(LastOf(ISO)')
      <4>1. LastOf(ISO)' = IF entry.type = ISO THEN entry ELSE LastOf(ISO)
        BY <2>1, <3>1, LastAppended
      <4> QED
        BY <2>1, <2>2, <4>1, ListKept DEF KeepsLast
    <3> QED
      BY <3>2, <3>3 DEF KeepsLast, Only
  <2> QED
    BY <2>3, <2>4
<1>3. CASE ~ ReadEntry
  <2>1. UNCHANGED listVars
    BY <1>3 DEF Next, vars, InitACPI, FindMADT, FindMADTFaults, FindsNoMADT, InitMADT, WalkEnds,
                InitAPIC, InitIOAPIC, InitIOAPICHalts, InitIOAPICNull, RedirectDone, Redirect,
                RedirectNull
  <2> QED
    BY <1>1, <2>1
<1> QED
  BY <1>2, <1>3

-----------------------------------------------------------------------------
(* The theorems.                                                           *)

(* The variables of initMADT, initIOAPIC and redirectGSI keep their types: *)
(* the vectors fit their bits, and no list is written past its end.        *)
THEOREM TypeCorrect == Spec => []TypeOK
<1>1. IInv => TypeOK
  <2> SUFFICES ASSUME IInv PROVE TypeOK
    OBVIOUS
  <2>1. ioAPICLen \in 0 .. LIST /\ madtISOLen \in 0 .. LIST
    BY AcpiAssumption DEF IInv, Typed
  <2>2. /\ madtInformationList \in [0 .. LIST - 1 -> Entry \cup {NULL}]
        /\ madtISOList \in [0 .. LIST - 1 -> Entry \cup {NULL}]
    BY DEF IInv, Typed, Kept
  <2> QED
    BY <2>1, <2>2 DEF IInv, Typed, TypeOK
<1> QED
  BY <1>1, Invariance, PTL

(* Every pin is as the last redirection of its GSI asked, through          *)
(* redirectGSI or the override that redirectIRQ finds, and the pins of the *)
(* controllers that initIOAPIC does not set up are left alone.             *)
THEOREM PinsFollowRequests == Spec => []PinsAsAsked
<1>1. IInv => PinsAsAsked
  BY DEF IInv, Pins, PinsAsAsked, Written
<1> QED
  BY <1>1, Invariance, PTL

(* initMADT keeps the last entry of each kind alone, and counts what is    *)
(* read behind the table, if no entry of length 0 is of a kind it keeps.   *)
THEOREM ListsKeepLast ==
  ASSUME ZeroIsOther
  PROVE  Spec => []CountsWhatFollows
<1>1. Init => KeepsLast
  BY DEF Init, KeepsLast, LastOf, Only
<1>2. IInv /\ KeepsLast /\ [Next]_vars => KeepsLast'
  BY KeepsLastStep
<1>3. IInv => CountsBehind
  <2> SUFFICES ASSUME IInv, pc \in {"ioapic", "ready", "redirect"} PROVE
        LET last == seen[Len(seen)]
        IN  /\ Len(seen) > Len(machine.entries)
            /\ \A i \in DOMAIN seen : seen[i] = Memory[i]
            /\ ioAPICLen = (IF last.type = IOAPIC THEN 1 ELSE 0)
            /\ madtISOLen = (IF last.type = ISO THEN 1 ELSE 0)
    BY DEF CountsBehind
  <2>1. /\ offset > Last /\ offset = machine.ends[Len(seen)] /\ CountsMatch
        /\ Len(seen) \in Nat /\ Len(seen) <= Len(Memory)
    BY DEF IInv, Walked, Typed
  <2>2. Len(seen) > Len(machine.entries)
    <3>1. SUFFICES ASSUME Len(seen) <= Len(machine.entries) PROVE FALSE
      BY <2>1, MachineIs DEF IInv, Typed
    <3>2. Len(seen) \in 0 .. Len(machine.entries)
      BY <2>1, <3>1, MachineIs DEF IInv, Typed
    <3>3. offset <= Last /\ Last \in Nat /\ offset \in Nat
      BY <2>1, <3>2, LastIs DEF IInv, Typed
    <3> QED
      BY <2>1, <3>3
  <2> QED
    BY <2>1, <2>2 DEF CountsMatch, IInv, Walked
<1>4. IInv /\ KeepsLast => CountsWhatFollows
  BY <1>3 DEF CountsWhatFollows
<1> QED
  BY <1>1, <1>2, <1>4, Invariance, PTL DEF Spec
=============================================================================
