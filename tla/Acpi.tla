-------------------------------- MODULE Acpi --------------------------------
(***************************************************************************)
(* Finding the MADT, the walk over its entries, and the I/O interrupt      *)
(* controllers it names: acpi.cpp, madt.cpp and ioapic.cpp of kernel/acpi. *)
(*                                                                         *)
(* An entry is the record its bytes stand for, and what lies behind the    *)
(* table is a sequence of entries too, because the walk reads it as such.  *)
(* Where the code goes on through a null or a wild pointer, the model      *)
(* stops.  Interrupts are masked at their controllers while this runs, so  *)
(* that a hlt is final.                                                    *)
(***************************************************************************)
EXTENDS Integers, Sequences, FiniteSets

CONSTANTS
  NULL,
  ADDRESSES,    \* 2^64
  hhdmOffset,   \* the first address of the upper half, where memory is mapped
  LIST,         \* slots of madtInformationList and madtISOList: 128
  pins,         \* interrupt inputs of each controller
  idRegister,   \* the ids in their registers
  Machines,     \* what the firmware may report
  Requests      \* redirections asked for: [lapicID, vec, gsi or irq, flags, mask]

Controllers == DOMAIN pins

(* struct MADT and struct madtInfo, in bytes.                              *)
MADT_HEADER == 44
MADT_INFO   == 16

(* The types of entries the walk of initMADT does something about.         *)
IOAPIC == 1
ISO    == 2
LAPIC_ADDRESS == 5

IsEntry(e) ==
  /\ e # NULL /\ e.length \in Nat
  /\ e.type = IOAPIC => e.apicAddr \in Controllers /\ e.gsiBase \in Nat
  /\ e.type = ISO => e.gsi \in Nat /\ e.flags \subseteq 0 .. 15

(* What the walk can read of machine m, the table first; its entries end   *)
(* at m.ends.  The memory behind the table reaches beyond the end of the   *)
(* walk, or has an entry of length 0 that the walk does not leave.         *)
MemoryOf(m) == m.entries \o m.behind
InMemory(m) == {MemoryOf(m)[i] : i \in DOMAIN MemoryOf(m)}

IsMachine(m) ==
  /\ MemoryOf(m) \in Seq(InMemory(m)) /\ Len(m.entries) \in 0 .. Len(MemoryOf(m))
  /\ \A e \in InMemory(m) : IsEntry(e)
  /\ m.ends \in [0 .. Len(MemoryOf(m)) -> Nat] /\ m.ends[0] = 0
  /\ \A i \in DOMAIN MemoryOf(m) : m.ends[i] = m.ends[i - 1] + MemoryOf(m)[i].length
  /\ \A i \in 0 .. Len(m.entries) : m.ends[i] <= m.ends[Len(m.entries)]
  /\ \/ m.ends[Len(MemoryOf(m))] > m.ends[Len(m.entries)] + MADT_HEADER - MADT_INFO
     \/ \E e \in InMemory(m) : e.length = 0
  /\ \A i \in DOMAIN m.rsdt : m.rsdt[i] < ADDRESSES - hhdmOffset

Redirection ==
  [lapicID : Nat, vec : 0 .. 255, gsi : Nat, flags : SUBSET (0 .. 15), mask : BOOLEAN]

(* The vectors 32 + i of the pins fit their eight bits.                    *)
ASSUME AcpiAssumption ==
  /\ hhdmOffset \in 0 .. ADDRESSES - 1 /\ LIST \in Nat \ {0}
  /\ pins \in [Controllers -> 1 .. 224] /\ idRegister \in [Controllers -> Nat]
  /\ \A m \in Machines : IsMachine(m)
  /\ Requests \subseteq Redirection /\ NULL \notin Redirection

VARIABLES
  machine,      \* [revision, rsdt, xsdt: addresses; madt, entries, behind, ends]
  pc,
  offset,
  ioAPICLen, madtISOLen, madtInformationList, madtISOList,
  lapicAddr,    \* the offset at which physLapic was read
  redtbl,       \* the redirection registers, by controller and pin
  request,      \* the redirection in progress
  seen,         \* history: the entries read and left, in order
  asked         \* history: the last redirection completed, by GSI

listVars == <<offset, ioAPICLen, madtISOLen, madtInformationList, madtISOList,
              lapicAddr, seen>>
vars == <<machine, pc, listVars, redtbl, request, asked>>

Goto(from, to) == pc = from /\ pc' = to

-----------------------------------------------------------------------------
(* Finding the MADT.                                                       *)

toPhysicalAddr(a) == (a - hhdmOffset) % ADDRESSES

(* Between the lower and the upper half lie the addresses that fault.      *)
Canonical(a) == a < ADDRESSES - hhdmOffset \/ a >= hhdmOffset

(* The pointers to the tables that acpiFindTable follows.                  *)
Pointers ==
  IF machine.revision = 0
  THEN machine.rsdt
  ELSE [i \in DOMAIN machine.xsdt |-> toPhysicalAddr(machine.xsdt[i])]

(* initACPI, and initMADT up to the loop.  The tables are looked at in     *)
(* their order, the first MADT is taken.                                   *)
Faults ==
  \E i \in DOMAIN Pointers :
    /\ ~ Canonical(Pointers[i])
    /\ \A j \in 1 .. i - 1 : Pointers[j] # machine.madt

FindMADT ==
  /\ ~ Faults
  /\ \E i \in DOMAIN Pointers : Pointers[i] = machine.madt
  /\ Goto("acpi", "walk")
  /\ UNCHANGED <<machine, listVars, redtbl, request, asked>>

FindMADTFaults ==
  /\ Faults
  /\ Goto("acpi", "fault")
  /\ UNCHANGED <<machine, listVars, redtbl, request, asked>>

FindsNoMADT ==
  /\ ~ Faults
  /\ \A i \in DOMAIN Pointers : Pointers[i] # machine.madt
  /\ Goto("acpi", "halted")
  /\ UNCHANGED <<machine, listVars, redtbl, request, asked>>

-----------------------------------------------------------------------------
(* The walk of initMADT.                                                   *)

Memory == MemoryOf(machine)

(* The entry at the offset, which is where those read so far end.          *)
EntryRead == Memory[Len(seen) + 1]

(* madt->length.                                                           *)
Length == MADT_HEADER + machine.ends[Len(machine.entries)]

(* A mutant of Last: the table's own header is taken off.                  *)
LastWithin == Length - MADT_HEADER - 1

(* The last offset at which an entry is read.                              *)
Last == Length - MADT_INFO

(* A mutant of Reset: the lengths are set once, before the loop.           *)
ResetNever(length) == length

(* Both lengths begin every turn at 0.                                     *)
Reset(length) == 0

(* The list with entry appended if it is of the type, and the new length.  *)
Listed(list, length, type, entry) ==
  IF entry.type = type THEN [list EXCEPT ![Reset(length)] = entry] ELSE list
Counted(length, type, entry) ==
  Reset(length) + (IF entry.type = type THEN 1 ELSE 0)

(* A mutant of Advance: entries of a type not known are not left.          *)
AdvanceKnown(entry) == IF entry.type \in 0 .. 5 THEN entry.length ELSE 0

Advance(entry) == entry.length

(* One turn.  physLapic is aligned by the compiler: it is read 4 bytes     *)
(* after the field.                                                        *)
ReadEntry ==
  /\ pc = "walk" /\ offset <= Last
  /\ LET entry == EntryRead
     IN  /\ madtInformationList' = Listed(madtInformationList, ioAPICLen, IOAPIC, entry)
         /\ ioAPICLen' = Counted(ioAPICLen, IOAPIC, entry)
         /\ madtISOList' = Listed(madtISOList, madtISOLen, ISO, entry)
         /\ madtISOLen' = Counted(madtISOLen, ISO, entry)
         /\ lapicAddr' = IF entry.type = LAPIC_ADDRESS THEN offset + 8 ELSE lapicAddr
         /\ offset' = offset + Advance(entry)
         /\ seen' = IF Advance(entry) = 0 THEN seen ELSE Append(seen, entry)
  /\ UNCHANGED <<machine, pc, redtbl, request, asked>>

WalkEnds ==
  /\ offset > Last
  /\ Goto("walk", "ioapic")
  /\ UNCHANGED <<machine, listVars, redtbl, request, asked>>

-----------------------------------------------------------------------------
(* initIOAPIC.                                                             *)

(* The first entry of the list has the controller; its id must match.      *)
Matches(ioapic) == idRegister[ioapic.apicAddr] = ioapic.apicID

Masked(vec) == [vec |-> vec, masked |-> TRUE, level |-> FALSE, low |-> FALSE,
                lapicID |-> 0]

(* Every pin is masked, with the vector 32 + i.                            *)
InitIOAPIC ==
  /\ Goto("ioapic", "ready")
  /\ LET ioapic == madtInformationList[0]
     IN  /\ ioapic # NULL /\ Matches(ioapic)
         /\ redtbl' = [redtbl EXCEPT ![ioapic.apicAddr] = [i \in DOMAIN @ |-> Masked(32 + i)]]
  /\ UNCHANGED <<machine, listVars, request, asked>>

InitIOAPICHalts ==
  /\ Goto("ioapic", "halted")
  /\ madtInformationList[0] # NULL /\ ~ Matches(madtInformationList[0])
  /\ UNCHANGED <<machine, listVars, redtbl, request, asked>>

(* No entry: the registers are looked for through the null pointer.        *)
InitIOAPICNull ==
  /\ Goto("ioapic", "wild")
  /\ madtInformationList[0] = NULL
  /\ UNCHANGED <<machine, listVars, redtbl, request, asked>>

-----------------------------------------------------------------------------
(* Redirections.                                                           *)

(* The index of the last pin, which the register has, is not the count.    *)
getGSICount(ioapic) == pins[ioapic.apicAddr] - 1

Serving(gsi) ==
  {i \in 0 .. ioAPICLen - 1 :
     LET ioapic == madtInformationList[i]
     IN  ioapic.gsiBase <= gsi /\ ioapic.gsiBase + getGSICount(ioapic) > gsi}

getGSI(gsi) ==
  IF Serving(gsi) = {} THEN NULL
  ELSE madtInformationList[CHOOSE i \in Serving(gsi) : \A j \in Serving(gsi) : i <= j]

(* The override of an interrupt line, the first in the list, or none.      *)
Overrides(irq) == {i \in 0 .. madtISOLen - 1 : madtISOList[i].irqSrc = irq}
Override(irq) ==
  madtISOList[CHOOSE i \in Overrides(irq) : \A j \in Overrides(irq) : i <= j]

getRedirectIRQ(irq) == IF Overrides(irq) = {} THEN irq ELSE Override(irq).gsi

(* redirectIRQ is redirectGSI for the line's override, or for its number.  *)
redirectIRQ(r) ==
  [r EXCEPT !.gsi = getRedirectIRQ(r.gsi),
            !.flags = IF Overrides(r.gsi) = {} THEN {} ELSE Override(r.gsi).flags]

(* A mutant of PinOf: the pins are not counted from the controller's.      *)
PinOfAny(ioapic, gsi) == gsi

PinOf(ioapic, gsi) == gsi - ioapic.gsiBase

(* redirectGSI as far as the write of the lower half.  Bit 1 of the flags  *)
(* is for a low polarity, bit 3 for a level trigger.                       *)
Redirect(r) ==
  /\ getGSI(r.gsi) # NULL
  /\ Goto("ready", "redirect")
  /\ LET ioapic == getGSI(r.gsi)
     IN  redtbl' = [redtbl EXCEPT ![ioapic.apicAddr][PinOf(ioapic, r.gsi)] =
                      [@ EXCEPT !.vec = r.vec, !.masked = r.mask,
                                !.low = 1 \in r.flags, !.level = 3 \in r.flags]]
  /\ request' = r
  /\ UNCHANGED <<machine, listVars, asked>>

(* The result of getGSI is not tested.                                     *)
RedirectNull(r) ==
  /\ getGSI(r.gsi) = NULL
  /\ Goto("ready", "wild")
  /\ UNCHANGED <<machine, listVars, redtbl, request, asked>>

(* The upper half: the processor.                                          *)
RedirectDone ==
  /\ Goto("redirect", "ready")
  /\ LET ioapic == getGSI(request.gsi)
     IN  redtbl' = [redtbl EXCEPT ![ioapic.apicAddr][PinOf(ioapic, request.gsi)].lapicID =
                                     request.lapicID]
  /\ request' = NULL
  /\ asked' = [asked EXCEPT ![request.gsi] = request]
  /\ UNCHANGED <<machine, listVars>>
-----------------------------------------------------------------------------

GSIs == {r.gsi : r \in Requests} \cup
        {Memory[i].gsi : i \in {j \in DOMAIN Memory : Memory[j].type = ISO}}

Init ==
  /\ machine \in Machines
  /\ pc = "acpi"
  /\ offset = 0
  /\ ioAPICLen = 0
  /\ madtISOLen = 0
  /\ madtInformationList = [i \in 0 .. LIST - 1 |-> NULL]
  /\ madtISOList = [i \in 0 .. LIST - 1 |-> NULL]
  /\ lapicAddr = NULL
  /\ redtbl = [c \in Controllers |-> [p \in 0 .. pins[c] - 1 |-> Masked(0)]]
  /\ request = NULL
  /\ seen = <<>>
  /\ asked = [g \in GSIs |-> NULL]

InitACPI == FindMADT \/ FindMADTFaults \/ FindsNoMADT
InitMADT == ReadEntry \/ WalkEnds
InitAPIC == InitIOAPIC \/ InitIOAPICHalts \/ InitIOAPICNull

Next ==
  \/ InitACPI \/ InitMADT \/ InitAPIC
  \/ RedirectDone
  \/ \E r \in Requests : \E q \in {r, redirectIRQ(r)} : Redirect(q) \/ RedirectNull(q)

Spec == Init /\ [][Next]_vars

(* The boot processor keeps executing.                                     *)
FairSpec == Spec /\ WF_vars(InitACPI \/ InitMADT \/ InitAPIC)

-----------------------------------------------------------------------------

Entry == InMemory(machine)

Register == [vec : 0 .. 255, masked : BOOLEAN, level : BOOLEAN, low : BOOLEAN, lapicID : Nat]

(* Every variable keeps its type; the vectors fit the eight bits of their  *)
(* register.                                                               *)
TypeOK ==
  /\ machine \in Machines
  /\ pc \in {"acpi", "walk", "ioapic", "ready", "redirect", "fault", "halted", "wild"}
  /\ offset \in Nat /\ ioAPICLen \in 0 .. LIST /\ madtISOLen \in 0 .. LIST
  /\ madtInformationList \in [0 .. LIST - 1 -> Entry \cup {NULL}]
  /\ madtISOList \in [0 .. LIST - 1 -> Entry \cup {NULL}]
  /\ lapicAddr \in Nat \cup {NULL}
  /\ \A c \in Controllers : redtbl[c] \in [0 .. pins[c] - 1 -> Register]
  /\ seen \in Seq(Entry)

(* However many controllers and overrides there are, each list holds one,  *)
(* the last one read: nothing is ever stored past the first slot.  And the *)
(* walk reads all of the table, and then always beyond it: the counts tell *)
(* what the last entry read there is, and no entry of the table is ever    *)
(* counted when it is over.                                                *)
LastOf(type) ==
  LET s == {i \in DOMAIN seen : seen[i].type = type}
  IN  IF s = {} THEN NULL ELSE seen[CHOOSE i \in s : \A j \in s : j <= i]

Only(entry) == [i \in 0 .. LIST - 1 |-> IF i = 0 THEN entry ELSE NULL]

KeepsLast ==
  madtInformationList = Only(LastOf(IOAPIC)) /\ madtISOList = Only(LastOf(ISO))

CountsBehind ==
  pc \in {"ioapic", "ready", "redirect"} =>
    LET last == seen[Len(seen)]
    IN  /\ Len(seen) > Len(machine.entries)
        /\ \A i \in DOMAIN seen : seen[i] = Memory[i]
        /\ ioAPICLen = (IF last.type = IOAPIC THEN 1 ELSE 0)
        /\ madtISOLen = (IF last.type = ISO THEN 1 ELSE 0)

CountsWhatFollows == KeepsLast /\ CountsBehind

(* A pin of the one controller set up is as the last redirection of its    *)
(* GSI, line by line or by override, has asked, or masked; all the pins of *)
(* the other controllers are as the hardware left them.                    *)
AsAsked(r) ==
  [vec |-> r.vec, masked |-> r.mask, level |-> 3 \in r.flags, low |-> 1 \in r.flags,
   lapicID |-> r.lapicID]

PinsAsAsked ==
  pc = "ready" => \A c \in Controllers : \A p \in DOMAIN redtbl[c] :
    LET ioapic == madtInformationList[0]
        g == ioapic.gsiBase + p
    IN  redtbl[c][p] =
          IF ioapic.apicAddr # c THEN Masked(0)
          ELSE IF g \in GSIs /\ asked[g] # NULL THEN AsAsked(asked[g])
          ELSE Masked(32 + p)

(* With tables of the first version the start-up gets through, if a        *)
(* controller is listed, the ids are right, and no entry has length 0, in  *)
(* the table or behind it.                                                 *)
SetUp ==
  /\ machine.revision = 0
  /\ \E i \in DOMAIN machine.rsdt : machine.rsdt[i] = machine.madt
  /\ \E i \in DOMAIN machine.entries : machine.entries[i].type = IOAPIC
  /\ \A e \in Entry : e.length > 0 /\ (e.type = IOAPIC => Matches(e))

GetsReady == SetUp => <>(pc = "ready")

(* acpi.cpp has a branch for "version 2 or above": there too a table that  *)
(* is listed is found.                                                     *)
FindsListed == pc # "fault"
=============================================================================
