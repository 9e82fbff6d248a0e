-------------------------- MODULE PageTableProofs --------------------------
(***************************************************************************)
(* The safety properties of PageTable, for every size of the tables and    *)
(* every memory map.                                                       *)
(*                                                                         *)
(* Every table has one place in one tree (Placed), so that an entry which  *)
(* map writes is on the way of one chunk of pages of one root.  What a     *)
(* tree holds after some calls of initPaging depends on the last large and *)
(* the last small call for a page only (Built), and the trees of all       *)
(* processors are built by the same calls (IInv).                          *)
(***************************************************************************)
EXTENDS PageTable, WellFoundedInduction, NaturalsInduction, FiniteSetTheorems, TLAPS

(* Where a table stands: at a level, below the top-level table root, for   *)
(* the entries a, b and c on the way to it.  Level 0 is a top-level table  *)
(* of a process, whose entries lead below another one.                     *)
Place(l, root, a, b, c) ==
  [level |-> l, root |-> root, a |-> a, b |-> b, c |-> c]

Top(r)            == Place(4, r, 0, 0, 0)
Third(r, a)       == Place(3, r, a, 0, 0)
Second(r, a, b)   == Place(2, r, a, b, 0)
First(r, a, b, c) == Place(1, r, a, b, c)
Process(t)        == Place(0, t, 0, 0, 0)

Entry == [present : BOOLEAN, large : BOOLEAN, address : Nat]

Links(e, f) == e.present /\ ~ e.large /\ e.address = f

(* An entry leads nowhere, or to the table of a place.                     *)
Leads(e, pl, place) ==
  \/ e = Empty
  \/ e \in Entry /\ Links(e, e.address) /\ e.address \in DOMAIN pl /\ pl[e.address] = place

Physical == 0 .. TABLES - 1

(* An entry of the second level may also map a large page.                 *)
LeadsOrMaps(e, pl, place) ==
  /\ e \in Entry
  /\ ~ e.present => e = Empty
  /\ e.address \in Physical \/ (e.address \in DOMAIN pl /\ pl[e.address] = place)
  /\ e.present /\ ~ e.large => e.address \notin Physical

Maps(e) == e \in Entry /\ e.address \in Physical /\ ~ e.large /\ (~ e.present => e = Empty)

ProcessOK(tab, pl, t) ==
  /\ pl[t] = Process(t)
  /\ DOMAIN tab = 0 .. TOP - 1
  /\ \A a \in 0 .. TOP - 1 : tab[a] \in Entry /\ tab[a].address \in Physical \cup DOMAIN pl

TopOK(tab, pl, t) ==
  /\ pl[t] = Top(t)
  /\ DOMAIN tab = 0 .. TOP - 1
  /\ \A a \in 0 .. TOP - 1 : Leads(tab[a], pl, Third(t, a))

ThirdOK(tab, pl, t, r, a) ==
  /\ pl[t] = Third(r, a)
  /\ DOMAIN tab = 0 .. W - 1
  /\ \A b \in 0 .. W - 1 : Leads(tab[b], pl, Second(r, a, b))

SecondOK(tab, pl, t, r, a, b) ==
  /\ pl[t] = Second(r, a, b)
  /\ DOMAIN tab = 0 .. W - 1
  /\ \A c \in 0 .. W - 1 : LeadsOrMaps(tab[c], pl, First(r, a, b, c))

FirstOK(tab, pl, t, r, a, b, c) ==
  /\ pl[t] = First(r, a, b, c)
  /\ DOMAIN tab = 0 .. W - 1
  /\ \A d \in 0 .. W - 1 : Maps(tab[d])

TableOK(tab, pl, t) ==
  \/ ProcessOK(tab, pl, t)
  \/ TopOK(tab, pl, t)
  \/ \E r, a : ThirdOK(tab, pl, t, r, a)
  \/ \E r, a, b : SecondOK(tab, pl, t, r, a, b)
  \/ \E r, a, b, c : FirstOK(tab, pl, t, r, a, b, c)

(* The tables form trees, in each of which every table has one place.      *)
Placed(ts, pl) ==
  /\ \E n \in Nat : DOMAIN ts = TABLES .. TABLES + n - 1
  /\ DOMAIN pl = DOMAIN ts
  /\ ts = [t \in DOMAIN ts |-> ts[t]]
  /\ \A t \in DOMAIN ts : TableOK(ts[t], pl, t)

(* The tables that a walk for page v comes to, or 0, and the entries that  *)
(* it ends at.                                                             *)
Down(ts, t, i) == IF t = 0 \/ ~ ts[t][i].present THEN 0 ELSE ts[t][i].address

Pml3(ts, r, v)   == Down(ts, r, pml4Entry(v))
Pml2(ts, r, v)   == Down(ts, Pml3(ts, r, v), pml3Entry(v))
Entry2(ts, r, v) == IF Pml2(ts, r, v) = 0 THEN Empty ELSE ts[Pml2(ts, r, v)][pml2Entry(v)]
Entry1(ts, r, v) ==
  IF Entry2(ts, r, v).address \in DOMAIN ts
  THEN ts[Entry2(ts, r, v).address][pml1Entry(v)]
  ELSE Empty

Chunk(v) == v \div W

-----------------------------------------------------------------------------
(* Division.                                                               *)

LEMMA DivMod ==
  ASSUME NEW d \in Nat, d > 0, NEW v \in Nat
  PROVE  /\ v \div d \in Nat /\ v % d \in 0 .. d - 1
         /\ v = d * (v \div d) + (v % d)
OBVIOUS

LEMMA Ordered ==
  ASSUME NEW d \in Nat, NEW x \in Nat, NEW y \in Nat, x < y
  PROVE  d * x + d <= d * y /\ d * x \in Nat /\ d * y \in Nat
<1>1. d * (x + 1) <= d * y
  OBVIOUS
<1> QED BY <1>1

LEMMA DivIs ==
  ASSUME NEW d \in Nat, d > 0, NEW q \in Nat, NEW r \in 0 .. d - 1
  PROVE  (d * q + r) \div d = q /\ (d * q + r) % d = r
<1> DEFINE n == d * q + r
           p == n \div d
           s == n % d
<1>1. n \in Nat /\ d * q \in Nat
  OBVIOUS
<1> HIDE DEF n
<1>2. p \in Nat /\ s \in 0 .. d - 1 /\ n = d * p + s
  BY <1>1, DivMod
<1> HIDE DEF p, s
<1>3. p = q
  BY <1>1, <1>2, Ordered DEF n
<1>4. s = r
  BY <1>1, <1>2, <1>3 DEF n
<1> QED BY <1>3, <1>4 DEF n, p, s

LEMMA Distribute ==
  ASSUME NEW a \in Nat, NEW b \in Nat, NEW p \in Nat, NEW s \in Nat
  PROVE  /\ a * (b * p + s) = (a * b) * p + a * s
         /\ a * b \in Nat /\ (a * b) * p \in Nat /\ a * s \in Nat
OBVIOUS

LEMMA Positive ==
  ASSUME NEW a \in Nat, a > 0, NEW b \in Nat, b > 0
  PROVE  a * b \in Nat /\ a * b > 0
OBVIOUS

(* Division by a product.                                                  *)
LEMMA Nested ==
  ASSUME NEW a \in Nat, a > 0, NEW b \in Nat, b > 0, NEW v \in Nat
  PROVE  v \div (a * b) = (v \div a) \div b
<1> DEFINE q == v \div a
           r == v % a
           p == q \div b
           s == q % b
<1>1. q \in Nat /\ r \in 0 .. a - 1 /\ v = a * q + r
  BY DivMod
<1> HIDE DEF q, r
<1>2. p \in Nat /\ s \in 0 .. b - 1 /\ q = b * p + s
  BY <1>1, DivMod
<1> HIDE DEF p, s
<1>3. PICK x, y, z \in Nat : x = (a * b) * p /\ y = a * s /\ z = a * q
  BY <1>1, <1>2
<1>4. z = x + y
  BY <1>1, <1>2, <1>3, Distribute
<1>5. v = x + (y + r)
  <2>1. v = z + r
    BY <1>1, <1>3
  <2> QED BY ONLY <2>1, <1>4, <1>1, <1>3, x \in Nat, y \in Nat, z \in Nat
<1>6. PICK m \in Nat : m = a * b
  OBVIOUS
<1>7. y + r \in 0 .. m - 1
  <2>1. y + a <= m
    BY <1>2, <1>3, <1>6, Ordered
  <2> QED BY <1>1, <1>3, <2>1
<1>8. m > 0
  BY <1>6, Positive
<1>9. (m * p + (y + r)) \div m = p
  BY <1>2, <1>7, <1>8, DivIs
<1>10. v \div m = p
  BY <1>3, <1>5, <1>6, <1>9
<1> QED BY <1>6, <1>10 DEF p, q

-----------------------------------------------------------------------------
(* Pages and their entries.                                                *)

LEMMA Sizes ==
  /\ W \in Nat /\ W > 1 /\ W * W \in Nat /\ W * W > 0
  /\ TopSize \in Nat /\ TopSize > 0 /\ TOP \in Nat /\ HALF \in 1 .. TOP
  /\ TABLES \in Nat /\ TABLES > 0
<1>1. W \in Nat /\ W > 1 /\ TOP \in Nat /\ HALF \in 1 .. TOP /\ TABLES \in Nat /\ TABLES > 0
  BY PageTableAssumption DEF PageTableAssumption
<1>2. W * W \in Nat /\ W * W > 0
  BY <1>1, Positive
<1>3. TopSize \in Nat /\ TopSize > 0
  BY <1>1, <1>2, Positive DEF TopSize
<1> QED BY <1>1, <1>2, <1>3

LEMMA Entries ==
  ASSUME NEW v \in VirtualPages
  PROVE  /\ v \in Nat
         /\ pml4Entry(v) \in 0 .. TOP - 1 /\ pml3Entry(v) \in 0 .. W - 1
         /\ pml2Entry(v) \in 0 .. W - 1 /\ pml1Entry(v) \in 0 .. W - 1
<1>1. v \in Nat /\ v < TOP * TopSize
  BY Sizes DEF VirtualPages
<1>2. v \div (W * W) \in Nat /\ v \div W \in Nat
  BY <1>1, Sizes, DivMod
<1>3. pml3Entry(v) \in 0 .. W - 1 /\ pml2Entry(v) \in 0 .. W - 1 /\ pml1Entry(v) \in 0 .. W - 1
  BY <1>1, <1>2, Sizes, DivMod DEF pml3Entry, pml2Entry, pml1Entry
<1>4. pml4Entry(v) \in 0 .. TOP - 1
  <2>1. PICK q, r \in Nat : q = v \div TopSize /\ v = TopSize * q + r
    BY <1>1, Sizes, DivMod
  <2>2. ~ (TOP <= q)
    <3> SUFFICES ASSUME TOP <= q PROVE FALSE
      OBVIOUS
    <3>1. TopSize * TOP <= TopSize * q /\ TopSize * TOP \in Nat /\ TopSize * q \in Nat
      BY Sizes
    <3> QED BY <1>1, <2>1, <3>1, Sizes
  <2> QED BY <2>1, <2>2, Sizes DEF pml4Entry
<1> QED BY <1>1, <1>3, <1>4

(* Pages of one large page share all entries but the last.                 *)
LEMMA ChunkEntries ==
  ASSUME NEW v \in Nat
  PROVE  /\ Chunk(v) \in Nat
         /\ pml4Entry(v) = (Chunk(v) \div W) \div W
         /\ pml3Entry(v) = (Chunk(v) \div W) % W
         /\ pml2Entry(v) = Chunk(v) % W
<1>1. Chunk(v) \in Nat
  BY Sizes, DivMod DEF Chunk
<1>2. v \div (W * W) = Chunk(v) \div W
  BY Sizes, Nested DEF Chunk
<1>3. v \div TopSize = (v \div (W * W)) \div W
  BY Sizes, Nested DEF TopSize
<1> QED BY <1>1, <1>2, <1>3 DEF pml4Entry, pml3Entry, pml2Entry, Chunk

LEMMA SameChunk ==
  ASSUME NEW v \in Nat, NEW w \in Nat
  PROVE  /\ Chunk(v) = Chunk(w) <=>
              /\ pml4Entry(v) = pml4Entry(w) /\ pml3Entry(v) = pml3Entry(w)
              /\ pml2Entry(v) = pml2Entry(w)
         /\ v = w <=> Chunk(v) = Chunk(w) /\ pml1Entry(v) = pml1Entry(w)
<1>1. \A x, y \in Nat : x \div W = y \div W /\ x % W = y % W => x = y
  <2> TAKE x, y \in Nat
  <2>1. x = W * (x \div W) + (x % W) /\ y = W * (y \div W) + (y % W)
    BY Sizes, DivMod
  <2> QED BY <2>1
<1>2. Chunk(v) \div W \in Nat /\ Chunk(w) \div W \in Nat
  <2>1. Chunk(v) \in Nat /\ Chunk(w) \in Nat
    BY ChunkEntries
  <2> HIDE DEF Chunk
  <2> QED BY <2>1, Sizes, DivMod
<1>3. ASSUME pml4Entry(v) = pml4Entry(w), pml3Entry(v) = pml3Entry(w),
             pml2Entry(v) = pml2Entry(w)
      PROVE  Chunk(v) = Chunk(w)
  <2>1. Chunk(v) \div W = Chunk(w) \div W
    BY <1>1, <1>2, <1>3, ChunkEntries
  <2> QED BY <1>1, <1>3, <2>1, ChunkEntries
<1>4. v = w <=> Chunk(v) = Chunk(w) /\ pml1Entry(v) = pml1Entry(w)
  BY <1>1 DEF Chunk, pml1Entry
<1> QED BY <1>3, <1>4, ChunkEntries

-----------------------------------------------------------------------------
(* What the table of a place holds.                                        *)

LEMMA Placements ==
  ASSUME NEW l, NEW r, NEW a, NEW b, NEW c, NEW l2, NEW r2, NEW a2, NEW b2, NEW c2
  PROVE  Place(l, r, a, b, c) = Place(l2, r2, a2, b2, c2) <=>
           l = l2 /\ r = r2 /\ a = a2 /\ b = b2 /\ c = c2
BY DEF Place

LEMMA AtProcess ==
  ASSUME NEW ts, NEW pl, Placed(ts, pl), NEW t \in DOMAIN ts, NEW r, pl[t] = Process(r)
  PROVE  r = t /\ ProcessOK(ts[t], pl, t)
<1>1. TableOK(ts[t], pl, t)
  BY DEF Placed
<1> QED BY <1>1, Placements
        DEF TableOK, ProcessOK, TopOK, ThirdOK, SecondOK, FirstOK, Process, Top, Third,
            Second, First

LEMMA AtTop ==
  ASSUME NEW ts, NEW pl, Placed(ts, pl), NEW t \in DOMAIN ts, NEW r, pl[t] = Top(r)
  PROVE  r = t /\ TopOK(ts[t], pl, t)
<1>1. TableOK(ts[t], pl, t)
  BY DEF Placed
<1> QED BY <1>1, Placements
        DEF TableOK, ProcessOK, TopOK, ThirdOK, SecondOK, FirstOK, Process, Top, Third,
            Second, First

LEMMA AtThird ==
  ASSUME NEW ts, NEW pl, Placed(ts, pl), NEW t \in DOMAIN ts, NEW r, NEW a,
         pl[t] = Third(r, a)
  PROVE  ThirdOK(ts[t], pl, t, r, a)
<1>1. TableOK(ts[t], pl, t)
  BY DEF Placed
<1> QED BY <1>1, Placements
        DEF TableOK, ProcessOK, TopOK, ThirdOK, SecondOK, FirstOK, Process, Top, Third,
            Second, First

LEMMA AtSecond ==
  ASSUME NEW ts, NEW pl, Placed(ts, pl), NEW t \in DOMAIN ts, NEW r, NEW a, NEW b,
         pl[t] = Second(r, a, b)
  PROVE  SecondOK(ts[t], pl, t, r, a, b)
<1>1. TableOK(ts[t], pl, t)
  BY DEF Placed
<1> QED BY <1>1, Placements
        DEF TableOK, ProcessOK, TopOK, ThirdOK, SecondOK, FirstOK, Process, Top, Third,
            Second, First

LEMMA AtFirst ==
  ASSUME NEW ts, NEW pl, Placed(ts, pl), NEW t \in DOMAIN ts, NEW r, NEW a, NEW b, NEW c,
         pl[t] = First(r, a, b, c)
  PROVE  FirstOK(ts[t], pl, t, r, a, b, c)
<1>1. TableOK(ts[t], pl, t)
  BY DEF Placed
<1> QED BY <1>1, Placements
        DEF TableOK, ProcessOK, TopOK, ThirdOK, SecondOK, FirstOK, Process, Top, Third,
            Second, First

(* Frames for tables lie above physical memory that is mapped.             *)
LEMMA Frames ==
  ASSUME NEW ts, NEW pl, Placed(ts, pl), NEW t \in DOMAIN ts
  PROVE  t \in Nat /\ t > 0 /\ t \notin Physical /\ t >= TABLES
BY Sizes DEF Placed, Physical

LEMMA NewFrameIs ==
  ASSUME NEW ts, NEW pl, Placed(ts, pl)
  PROVE  /\ NewFrame(ts) \notin DOMAIN ts /\ NewFrame(ts) \in Nat
         /\ NewFrame(ts) >= TABLES /\ NewFrame(ts) > 0 /\ NewFrame(ts) \notin Physical
         /\ DOMAIN ts \cup {NewFrame(ts)} = TABLES .. NewFrame(ts)
         /\ \E n \in Nat : TABLES .. NewFrame(ts) = TABLES .. TABLES + n - 1
<1>1. PICK n \in Nat : DOMAIN ts = TABLES .. TABLES + n - 1
  BY DEF Placed
<1>2. Cardinality(DOMAIN ts) = n
  <2>1. TABLES \in Int /\ TABLES + n - 1 \in Int
    BY Sizes
  <2>2. Cardinality(TABLES .. TABLES + n - 1) =
          IF TABLES > TABLES + n - 1 THEN 0 ELSE (TABLES + n - 1) - TABLES + 1
    BY <2>1, FS_Interval
  <2> QED BY <1>1, <2>1, <2>2, Sizes
<1>3. NewFrame(ts) = TABLES + n
  BY <1>2 DEF NewFrame
<1>4. TABLES .. NewFrame(ts) = TABLES .. TABLES + (n + 1) - 1
  BY <1>3, Sizes
<1> QED BY <1>1, <1>3, <1>4, Sizes DEF Physical

(* A table keeps what it holds when others are added.                      *)
Extends(pl, pl2) == \A t \in DOMAIN pl : t \in DOMAIN pl2 /\ pl2[t] = pl[t]

LEMMA TableKept ==
  ASSUME NEW tab, NEW pl, NEW pl2, NEW t \in DOMAIN pl, Extends(pl, pl2), TableOK(tab, pl, t)
  PROVE  TableOK(tab, pl2, t)
<1>1. pl2[t] = pl[t] /\ \A x \in DOMAIN pl : x \in DOMAIN pl2 /\ pl2[x] = pl[x]
  BY DEF Extends
<1>2. CASE ProcessOK(tab, pl, t)
  BY <1>1, <1>2 DEF TableOK, ProcessOK
<1>3. CASE TopOK(tab, pl, t)
  BY <1>1, <1>3 DEF TableOK, TopOK, Leads, Links
<1>4. CASE \E r, a : ThirdOK(tab, pl, t, r, a)
  <2>1. PICK r, a : ThirdOK(tab, pl, t, r, a)
    BY <1>4
  <2>2. ThirdOK(tab, pl2, t, r, a)
    BY <1>1, <2>1 DEF ThirdOK, Leads, Links
  <2> QED BY <2>2 DEF TableOK
<1>5. CASE \E r, a, b : SecondOK(tab, pl, t, r, a, b)
  <2>1. PICK r, a, b : SecondOK(tab, pl, t, r, a, b)
    BY <1>5
  <2>2. SecondOK(tab, pl2, t, r, a, b)
    BY <1>1, <2>1 DEF SecondOK, LeadsOrMaps
  <2> QED BY <2>2 DEF TableOK
<1>6. CASE \E r, a, b, c : FirstOK(tab, pl, t, r, a, b, c)
  <2>1. PICK r, a, b, c : FirstOK(tab, pl, t, r, a, b, c)
    BY <1>6
  <2>2. FirstOK(tab, pl2, t, r, a, b, c)
    BY <1>1, <2>1 DEF FirstOK
  <2> QED BY <2>2 DEF TableOK
<1> QED BY <1>2, <1>3, <1>4, <1>5, <1>6 DEF TableOK

(* A table is added to the others.                                         *)
Adds(pl, f, place) == [t \in DOMAIN pl \cup {f} |-> IF t = f THEN place ELSE pl[t]]

LEMMA Added ==
  ASSUME NEW ts, NEW pl, Placed(ts, pl), NEW tab, NEW place,
         TableOK(tab, Adds(pl, NewFrame(ts), place), NewFrame(ts))
  PROVE  /\ Placed(With(ts, NewFrame(ts), tab), Adds(pl, NewFrame(ts), place))
         /\ Extends(pl, Adds(pl, NewFrame(ts), place))
         /\ DOMAIN With(ts, NewFrame(ts), tab) = DOMAIN ts \cup {NewFrame(ts)}
         /\ \A t \in DOMAIN ts : With(ts, NewFrame(ts), tab)[t] = ts[t]
         /\ With(ts, NewFrame(ts), tab)[NewFrame(ts)] = tab
<1>1. PICK f : f = NewFrame(ts)
  OBVIOUS
<1>2. PICK ts2 : ts2 = With(ts, f, tab)
  OBVIOUS
<1>3. PICK pl2 : pl2 = Adds(pl, f, place)
  OBVIOUS
<1>4. /\ f \notin DOMAIN ts /\ DOMAIN ts \cup {f} = TABLES .. f
      /\ \E n \in Nat : TABLES .. f = TABLES .. TABLES + n - 1
  BY <1>1, NewFrameIs
<1>5. ts2 = [g \in TABLES .. f |-> IF g = f THEN tab ELSE ts[g]]
  BY <1>2 DEF With
<1>6. /\ DOMAIN ts2 = DOMAIN ts \cup {f} /\ ts2 = [t \in DOMAIN ts2 |-> ts2[t]]
      /\ ts2[f] = tab /\ \A t \in DOMAIN ts : ts2[t] = ts[t]
  BY <1>4, <1>5
<1>7. DOMAIN pl = DOMAIN ts /\ \A t \in DOMAIN ts : TableOK(ts[t], pl, t)
  BY DEF Placed
<1>8. /\ DOMAIN pl2 = DOMAIN pl \cup {f} /\ pl2[f] = place
      /\ \A t \in DOMAIN pl : pl2[t] = pl[t]
  BY <1>3, <1>4, <1>7 DEF Adds
<1>9. Extends(pl, pl2)
  BY <1>8 DEF Extends
<1>10. \A t \in DOMAIN ts2 : TableOK(ts2[t], pl2, t)
  <2> TAKE t \in DOMAIN ts2
  <2>1. CASE t = f
    BY <1>1, <1>3, <1>6, <2>1
  <2>2. CASE t \in DOMAIN ts
    BY <1>6, <1>7, <1>9, <2>2, TableKept
  <2> QED BY <1>6, <2>1, <2>2
<1>11. Placed(ts2, pl2)
  BY <1>4, <1>6, <1>7, <1>8, <1>10 DEF Placed
<1> QED BY <1>1, <1>2, <1>3, <1>6, <1>9, <1>11

(* A table is written to.                                                  *)
LEMMA Written ==
  ASSUME NEW ts, NEW pl, Placed(ts, pl), NEW t \in DOMAIN ts, NEW i \in DOMAIN ts[t], NEW e,
         TableOK([ts[t] EXCEPT ![i] = e], pl, t)
  PROVE  /\ Placed([ts EXCEPT ![t][i] = e], pl)
         /\ DOMAIN [ts EXCEPT ![t][i] = e] = DOMAIN ts
         /\ \A x \in DOMAIN ts : x # t => [ts EXCEPT ![t][i] = e][x] = ts[x]
         /\ [ts EXCEPT ![t][i] = e][t] = [ts[t] EXCEPT ![i] = e]
<1>1. ts = [x \in DOMAIN ts |-> ts[x]]
  BY DEF Placed
<1>2. PICK ts2 : ts2 = [ts EXCEPT ![t][i] = e]
  OBVIOUS
<1>3. PICK tab : tab = [ts[t] EXCEPT ![i] = e]
  OBVIOUS
<1>4. ts2 = [ts EXCEPT ![t] = tab]
  BY <1>2, <1>3
<1>5. /\ DOMAIN ts2 = DOMAIN ts /\ ts2 = [x \in DOMAIN ts2 |-> ts2[x]]
      /\ ts2[t] = tab /\ \A x \in DOMAIN ts : x # t => ts2[x] = ts[x]
  BY <1>1, <1>4
<1>6. \A x \in DOMAIN ts2 : TableOK(ts2[x], pl, x)
  BY <1>3, <1>5 DEF Placed
<1>7. Placed(ts2, pl)
  BY <1>5, <1>6 DEF Placed
<1> QED BY <1>2, <1>3, <1>5, <1>7

-----------------------------------------------------------------------------
(* What a walk comes to.                                                   *)

LEMMA EmptyIs ==
  /\ ~ Empty.present /\ ~ Empty.large /\ Empty.address = 0 /\ Empty \in Entry
  /\ 0 \in Physical /\ Maps(Empty) /\ ~ isValid(Empty)
BY Sizes DEF Empty, Entry, Physical, Maps, isValid

LEMMA Reached ==
  ASSUME NEW ts, NEW pl, Placed(ts, pl), NEW r \in DOMAIN ts, pl[r] = Top(r),
         NEW v \in VirtualPages
  PROVE  /\ Pml3(ts, r, v) # 0 =>
              /\ Pml3(ts, r, v) \in DOMAIN ts
              /\ pl[Pml3(ts, r, v)] = Third(r, pml4Entry(v))
         /\ Pml2(ts, r, v) # 0 =>
              /\ Pml2(ts, r, v) \in DOMAIN ts
              /\ pl[Pml2(ts, r, v)] = Second(r, pml4Entry(v), pml3Entry(v))
         /\ LeadsOrMaps(Entry2(ts, r, v), pl,
                        First(r, pml4Entry(v), pml3Entry(v), pml2Entry(v)))
         /\ Maps(Entry1(ts, r, v))
<1>1. /\ pml4Entry(v) \in 0 .. TOP - 1 /\ pml3Entry(v) \in 0 .. W - 1
      /\ pml2Entry(v) \in 0 .. W - 1 /\ pml1Entry(v) \in 0 .. W - 1
  BY Entries
<1>2. DOMAIN pl = DOMAIN ts
  BY DEF Placed
<1>3. PICK x : x = Pml3(ts, r, v)
  OBVIOUS
<1>4. PICK y : y = Pml2(ts, r, v)
  OBVIOUS
<1>5. PICK e : e = Entry2(ts, r, v)
  OBVIOUS
<1>6. x # 0 => x \in DOMAIN ts /\ pl[x] = Third(r, pml4Entry(v))
  <2>1. Leads(ts[r][pml4Entry(v)], pl, Third(r, pml4Entry(v)))
    BY <1>1, AtTop DEF TopOK
  <2>2. x = IF r = 0 \/ ~ ts[r][pml4Entry(v)].present THEN 0 ELSE ts[r][pml4Entry(v)].address
    BY <1>3 DEF Pml3, Down
  <2> QED BY <1>2, <2>1, <2>2, EmptyIs DEF Leads, Links
<1>7. y # 0 => y \in DOMAIN ts /\ pl[y] = Second(r, pml4Entry(v), pml3Entry(v))
  <2>1. y = IF x = 0 \/ ~ ts[x][pml3Entry(v)].present THEN 0 ELSE ts[x][pml3Entry(v)].address
    BY <1>3, <1>4 DEF Pml2, Down
  <2>2. SUFFICES ASSUME x # 0 PROVE y # 0 =>
                   y \in DOMAIN ts /\ pl[y] = Second(r, pml4Entry(v), pml3Entry(v))
    BY <2>1
  <2>3. Leads(ts[x][pml3Entry(v)], pl, Second(r, pml4Entry(v), pml3Entry(v)))
    BY <1>1, <1>6, <2>2, AtThird DEF ThirdOK
  <2> QED BY <1>2, <2>1, <2>3, EmptyIs DEF Leads, Links
<1>8. LeadsOrMaps(e, pl, First(r, pml4Entry(v), pml3Entry(v), pml2Entry(v)))
  <2>1. e = IF y = 0 THEN Empty ELSE ts[y][pml2Entry(v)]
    BY <1>4, <1>5 DEF Entry2
  <2>2. CASE y = 0
    BY <2>1, <2>2, EmptyIs DEF LeadsOrMaps
  <2>3. CASE y # 0
    BY <1>1, <1>7, <2>1, <2>3, AtSecond DEF SecondOK
  <2> QED BY <2>2, <2>3
<1>9. Maps(Entry1(ts, r, v))
  <2>1. Entry1(ts, r, v) =
          IF e.address \in DOMAIN ts THEN ts[e.address][pml1Entry(v)] ELSE Empty
    BY <1>5 DEF Entry1
  <2>2. CASE e.address \notin DOMAIN ts
    BY <2>1, <2>2, EmptyIs
  <2>3. CASE e.address \in DOMAIN ts
    <3>1. e.address \notin Physical
      BY <2>3, Frames
    <3>2. pl[e.address] = First(r, pml4Entry(v), pml3Entry(v), pml2Entry(v))
      BY <1>8, <3>1 DEF LeadsOrMaps
    <3> QED BY <1>1, <2>1, <2>3, <3>2, AtFirst DEF FirstOK
  <2> QED BY <2>2, <2>3
<1> QED BY <1>3, <1>4, <1>5, <1>6, <1>7, <1>8, <1>9

(* An address that an entry of the second level holds is a table's if and  *)
(* only if it is none of physical memory.                                  *)
LEMMA Address2 ==
  ASSUME NEW ts, NEW pl, Placed(ts, pl), NEW e, NEW place, LeadsOrMaps(e, pl, place)
  PROVE  /\ e.address \in DOMAIN ts <=> e.address \notin Physical
         /\ e.address \in DOMAIN ts => pl[e.address] = place
         /\ e.address = 0 => e.address \in Physical
<1>1. DOMAIN pl = DOMAIN ts
  BY DEF Placed
<1> QED BY <1>1, Frames, EmptyIs DEF LeadsOrMaps

EmptyTable == [j \in 0 .. W - 1 |-> Empty]

(* An empty table added on the way of a walk changes no translation.       *)
LEMMA Attached ==
  ASSUME NEW ts, NEW pl, Placed(ts, pl), NEW ts2, NEW f, NEW t \in DOMAIN ts, NEW i,
         f \notin DOMAIN ts, f \notin Physical, f # 0,
         DOMAIN ts2 = DOMAIN ts \cup {f},
         \A x \in DOMAIN ts : x # t => ts2[x] = ts[x],
         i \in DOMAIN ts[t], ts[t][i] = Empty,
         NEW e0, Links(e0, f), ts2[t] = [ts[t] EXCEPT ![i] = e0],
         ts2[f] = EmptyTable,
         \A q, a, b : pl[t] # Second(q, a, b),
         \A q, a, b, c : pl[t] # First(q, a, b, c),
         NEW r \in DOMAIN ts, pl[r] = Top(r), NEW v \in VirtualPages
  PROVE  Entry2(ts2, r, v) = Entry2(ts, r, v) /\ Entry1(ts2, r, v) = Entry1(ts, r, v)
<1>1. /\ pml4Entry(v) \in 0 .. TOP - 1 /\ pml3Entry(v) \in 0 .. W - 1
      /\ pml2Entry(v) \in 0 .. W - 1 /\ pml1Entry(v) \in 0 .. W - 1
  BY Entries
<1>2. PICK x, y, e : x = Pml3(ts, r, v) /\ y = Pml2(ts, r, v) /\ e = Entry2(ts, r, v)
  OBVIOUS
<1>3. PICK x2, y2, e2 :
        x2 = Pml3(ts2, r, v) /\ y2 = Pml2(ts2, r, v) /\ e2 = Entry2(ts2, r, v)
  OBVIOUS
<1>4. /\ x # 0 => x \in DOMAIN ts /\ pl[x] = Third(r, pml4Entry(v))
      /\ y # 0 => y \in DOMAIN ts /\ pl[y] = Second(r, pml4Entry(v), pml3Entry(v))
      /\ LeadsOrMaps(e, pl, First(r, pml4Entry(v), pml3Entry(v), pml2Entry(v)))
  BY <1>2, Reached
<1>5. \A z \in DOMAIN ts : \A j \in DOMAIN ts[z] :
        \/ ts2[z][j] = ts[z][j]
        \/ z = t /\ j = i /\ ts[z][j] = Empty
             /\ ts2[z][j].present /\ ts2[z][j].address = f
  BY DEF Links
<1>6. r # 0 /\ f # 0 /\ \A z \in DOMAIN ts : z # 0
  BY Frames
<1>7. x2 = x \/ (x = 0 /\ x2 = f)
  <2>1. pml4Entry(v) \in DOMAIN ts[r]
    <3>1. TopOK(ts[r], pl, r)
      BY ONLY AtTop, Placed(ts, pl), r \in DOMAIN ts, pl[r] = Top(r)
    <3> QED BY <1>1, <3>1 DEF TopOK
  <2>2. /\ x = IF r = 0 \/ ~ ts[r][pml4Entry(v)].present THEN 0 ELSE ts[r][pml4Entry(v)].address
        /\ x2 = IF r = 0 \/ ~ ts2[r][pml4Entry(v)].present THEN 0
                ELSE ts2[r][pml4Entry(v)].address
    BY <1>2, <1>3 DEF Pml3, Down
  <2> QED BY <1>5, <1>6, <2>1, <2>2, EmptyIs
<1>8. y2 = y \/ (y = 0 /\ y2 = f)
  <2>1. /\ y = IF x = 0 \/ ~ ts[x][pml3Entry(v)].present THEN 0 ELSE ts[x][pml3Entry(v)].address
        /\ y2 = IF x2 = 0 \/ ~ ts2[x2][pml3Entry(v)].present THEN 0
                ELSE ts2[x2][pml3Entry(v)].address
    BY <1>2, <1>3 DEF Pml2, Down
  <2>2. CASE x2 = x /\ x = 0
    BY <2>1, <2>2
  <2>3. CASE x2 = x /\ x # 0
    <3>1. pml3Entry(v) \in DOMAIN ts[x]
      <4>1. ThirdOK(ts[x], pl, x, r, pml4Entry(v))
        BY ONLY AtThird, Placed(ts, pl), <1>4, <2>3
      <4> QED BY <1>1, <4>1 DEF ThirdOK
    <3> QED BY <1>4, <1>5, <2>1, <2>3, <3>1, EmptyIs
  <2>4. CASE x = 0 /\ x2 = f
    <3>1. ts2[f][pml3Entry(v)] = Empty
      BY <1>1 DEF EmptyTable
    <3> QED BY <2>1, <2>4, <3>1, EmptyIs
  <2> QED BY <1>7, <2>2, <2>3, <2>4
<1>9. e2 = e
  <2>1. /\ e = IF y = 0 THEN Empty ELSE ts[y][pml2Entry(v)]
        /\ e2 = IF y2 = 0 THEN Empty ELSE ts2[y2][pml2Entry(v)]
    BY <1>2, <1>3 DEF Entry2
  <2>2. CASE y2 = y /\ y = 0
    BY <2>1, <2>2
  <2>3. CASE y2 = y /\ y # 0
    <3>1. y \in DOMAIN ts /\ y # t
      BY <1>4, <2>3
    <3> QED BY <2>1, <2>3, <3>1
  <2>4. CASE y = 0 /\ y2 = f
    <3>1. ts2[f][pml2Entry(v)] = Empty
      BY <1>1 DEF EmptyTable
    <3> QED BY <1>6, <2>1, <2>4, <3>1
  <2> QED BY <1>8, <2>2, <2>3, <2>4
<1>10. Entry1(ts2, r, v) = Entry1(ts, r, v)
  <2>1. /\ Entry1(ts, r, v) =
             IF e.address \in DOMAIN ts THEN ts[e.address][pml1Entry(v)] ELSE Empty
        /\ Entry1(ts2, r, v) =
             IF e2.address \in DOMAIN ts2 THEN ts2[e2.address][pml1Entry(v)] ELSE Empty
    BY <1>2, <1>3 DEF Entry1
  <2>2. /\ e.address \in DOMAIN ts <=> e.address \notin Physical
        /\ e.address \in DOMAIN ts =>
             pl[e.address] = First(r, pml4Entry(v), pml3Entry(v), pml2Entry(v))
    BY <1>4, Address2
  <2>3. CASE e.address \in DOMAIN ts
    BY <1>9, <2>1, <2>2, <2>3
  <2>4. CASE e.address \notin DOMAIN ts
    BY <1>9, <2>1, <2>2, <2>4
  <2> QED BY <2>3, <2>4
<1> QED BY <1>2, <1>3, <1>9, <1>10

-----------------------------------------------------------------------------
(* A walk that adds the tables it lacks.                                   *)

(* Tables are added, and what is mapped stays so; of the entries of a      *)
(* top-level table only a is written.                                      *)
Keeps(ts, pl, ts2, pl2, a) ==
  /\ Placed(ts2, pl2)
  /\ Extends(pl, pl2)
  /\ \A x \in DOMAIN ts : pl[x] = Process(x) => ts2[x] = ts[x]
  /\ \A x \in DOMAIN ts : pl[x] = Top(x) =>
       /\ \A j \in 0 .. TOP - 1 : j # a => ts2[x][j] = ts[x][j]
       /\ \A v \in VirtualPages :
            Entry2(ts2, x, v) = Entry2(ts, x, v) /\ Entry1(ts2, x, v) = Entry1(ts, x, v)

LEMMA KeepsAll ==
  ASSUME NEW ts, NEW pl, Placed(ts, pl), NEW a
  PROVE  Keeps(ts, pl, ts, pl, a)
BY DEF Keeps, Extends

LEMMA KeepsOn ==
  ASSUME NEW ts, NEW pl, NEW ts2, NEW pl2, NEW ts3, NEW pl3, NEW a, Placed(ts, pl),
         Keeps(ts, pl, ts2, pl2, a), Keeps(ts2, pl2, ts3, pl3, a)
  PROVE  Keeps(ts, pl, ts3, pl3, a)
<1>1. DOMAIN pl = DOMAIN ts /\ DOMAIN pl2 = DOMAIN ts2
  BY DEF Keeps, Placed
<1>2. \A x \in DOMAIN ts : x \in DOMAIN ts2 /\ pl2[x] = pl[x]
  BY <1>1 DEF Keeps, Extends
<1>3. Placed(ts3, pl3) /\ Extends(pl, pl3)
  BY <1>1, <1>2 DEF Keeps, Extends
<1>4. \A x \in DOMAIN ts : pl[x] = Process(x) => ts3[x] = ts[x]
  BY <1>2 DEF Keeps
<1>5. \A x \in DOMAIN ts : pl[x] = Top(x) =>
       /\ \A j \in 0 .. TOP - 1 : j # a => ts3[x][j] = ts[x][j]
       /\ \A v \in VirtualPages :
            Entry2(ts3, x, v) = Entry2(ts, x, v) /\ Entry1(ts3, x, v) = Entry1(ts, x, v)
  <2> TAKE x \in DOMAIN ts
  <2> HAVE pl[x] = Top(x)
  <2>1. x \in DOMAIN ts2 /\ pl2[x] = Top(x)
    BY <1>2
  <2> QED BY <2>1 DEF Keeps
<1> QED BY <1>3, <1>4, <1>5 DEF Keeps

(* Entry i of table t is one that leads to the table of a place.           *)
OnTheWay(pl, t, i, a, place) ==
  \/ pl[t] = Top(t) /\ i \in 0 .. TOP - 1 /\ i = a /\ place = Third(t, i)
  \/ \E q, b : pl[t] = Third(q, b) /\ i \in 0 .. W - 1 /\ place = Second(q, b, i)

LEMMA Descended ==
  ASSUME NEW ts, NEW pl, Placed(ts, pl), NEW t \in DOMAIN ts, NEW i, NEW a, NEW place,
         OnTheWay(pl, t, i, a, place)
  PROVE  LET g == getNextLevelPointer(ts, t, i)
         IN  \E pl2 :
               /\ Keeps(ts, pl, g.tables, pl2, a)
               /\ g.next \in DOMAIN g.tables /\ pl2[g.next] = place
               /\ Links(g.tables[t][i], g.next)
               /\ \A x \in DOMAIN ts : x # t => g.tables[x] = ts[x]
<1>0. DOMAIN pl = DOMAIN ts
  BY DEF Placed
<1>1. PICK e : e = ts[t][i]
  OBVIOUS
<1>2. PICK g : g = getNextLevelPointer(ts, t, i)
  OBVIOUS
<1>3. PICK f : f = NewFrame(ts)
  OBVIOUS
<1>4. i \in DOMAIN ts[t] /\ Leads(e, pl, place)
  <2>1. CASE pl[t] = Top(t) /\ i \in 0 .. TOP - 1 /\ i = a /\ place = Third(t, i)
    <3>1. TopOK(ts[t], pl, t)
      BY ONLY AtTop, Placed(ts, pl), t \in DOMAIN ts, <2>1
    <3> QED BY <1>1, <2>1, <3>1 DEF TopOK
  <2>2. CASE \E q, b : pl[t] = Third(q, b) /\ i \in 0 .. W - 1 /\ place = Second(q, b, i)
    <3>1. PICK q, b : pl[t] = Third(q, b) /\ i \in 0 .. W - 1 /\ place = Second(q, b, i)
      BY <2>2
    <3>2. ThirdOK(ts[t], pl, t, q, b)
      BY ONLY AtThird, Placed(ts, pl), t \in DOMAIN ts, <3>1
    <3> QED BY <1>1, <3>1, <3>2 DEF ThirdOK
  <2> QED BY <2>1, <2>2 DEF OnTheWay
<1>5. CASE e # Empty
  <2>1. /\ Links(e, e.address)
        /\ e.address \in DOMAIN ts /\ pl[e.address] = place
    BY <1>0, <1>4, <1>5 DEF Leads
  <2>2. isValid(e)
    BY <2>1, Frames DEF isValid, Links
  <2>3. g = [tables |-> ts, next |-> e.address]
    BY <1>1, <1>2, <2>2 DEF getNextLevelPointer
  <2>4. Keeps(ts, pl, g.tables, pl, a)
    BY <2>3, KeepsAll
  <2>5. g.next \in DOMAIN g.tables /\ pl[g.next] = place
    BY <2>1, <2>3
  <2>6. /\ Links(g.tables[t][i], g.next)
        /\ \A x \in DOMAIN ts : x # t => g.tables[x] = ts[x]
    BY <1>1, <2>1, <2>3
  <2> QED BY <1>2, <2>4, <2>5, <2>6
<1>6. CASE e = Empty
  <2>1. PICK new : new = [e EXCEPT !.present = TRUE, !.address = f]
    OBVIOUS
  <2>0. new \in Entry /\ Links(new, f)
    <3>1. f \in Nat
      BY <1>3, NewFrameIs
    <3> QED BY <1>6, <2>1, <3>1, EmptyIs DEF Entry, Links
  <2>2. PICK ts1 : ts1 = With(ts, f, EmptyTable)
    OBVIOUS
  <2>3. PICK ts2 : ts2 = [ts1 EXCEPT ![t][i] = new]
    OBVIOUS
  <2>4. PICK pl2 : pl2 = Adds(pl, f, place)
    OBVIOUS
  <2>5. g = [tables |-> ts2, next |-> f]
    BY <1>1, <1>2, <1>3, <1>6, <2>1, <2>2, <2>3, EmptyIs
       DEF getNextLevelPointer, EmptyTable
  <2>6. f \notin DOMAIN ts /\ f \notin Physical /\ f # 0
    BY <1>3, NewFrameIs
  <2>7. f \in DOMAIN pl2 /\ pl2[f] = place /\ \A x \in DOMAIN pl : pl2[x] = pl[x]
    BY <1>0, <2>4, <2>6 DEF Adds
  <2>8. TableOK(EmptyTable, pl2, f)
    <3>1. DOMAIN EmptyTable = 0 .. W - 1 /\ \A j \in 0 .. W - 1 : EmptyTable[j] = Empty
      BY DEF EmptyTable
    <3>2. CASE pl[t] = Top(t) /\ place = Third(t, i)
      <4>1. ThirdOK(EmptyTable, pl2, f, t, i)
        BY <2>7, <3>1, <3>2 DEF ThirdOK, Leads
      <4> QED BY <4>1 DEF TableOK
    <3>3. CASE \E q, b : place = Second(q, b, i)
      <4>1. PICK q, b : place = Second(q, b, i)
        BY <3>3
      <4>2. SecondOK(EmptyTable, pl2, f, q, b, i)
        BY <2>7, <3>1, <4>1, EmptyIs DEF SecondOK, LeadsOrMaps
      <4> QED BY <4>2 DEF TableOK
    <3> QED BY <3>2, <3>3 DEF OnTheWay
  <2>9. /\ Placed(ts1, pl2) /\ Extends(pl, pl2)
        /\ DOMAIN ts1 = DOMAIN ts \cup {f}
        /\ \A x \in DOMAIN ts : ts1[x] = ts[x]
        /\ ts1[f] = EmptyTable
    BY <1>3, <2>2, <2>4, <2>8, Added
  <2>10. TableOK([ts1[t] EXCEPT ![i] = new], pl2, t)
    <3>1. Leads(new, pl2, place)
      BY <2>0, <2>7 DEF Leads, Links
    <3>2. PICK tab : tab = [ts1[t] EXCEPT ![i] = new]
      OBVIOUS
    <3>3. pl2[t] = pl[t]
      BY <1>0, <2>7
    <3>4. CASE pl[t] = Top(t) /\ i \in 0 .. TOP - 1 /\ i = a /\ place = Third(t, i)
      <4>1. TopOK(ts1[t], pl2, t)
        BY ONLY AtTop, <2>9, t \in DOMAIN ts, <3>3, <3>4
      <4>2. TopOK(tab, pl2, t)
        BY <3>1, <3>2, <3>4, <4>1 DEF TopOK
      <4> QED BY <3>2, <4>2 DEF TableOK
    <3>5. CASE \E q, b : pl[t] = Third(q, b) /\ i \in 0 .. W - 1 /\ place = Second(q, b, i)
      <4>1. PICK q, b : pl[t] = Third(q, b) /\ i \in 0 .. W - 1 /\ place = Second(q, b, i)
        BY <3>5
      <4>2. ThirdOK(ts1[t], pl2, t, q, b)
        BY ONLY AtThird, <2>9, t \in DOMAIN ts, <3>3, <4>1
      <4>3. ThirdOK(tab, pl2, t, q, b)
        BY <3>1, <3>2, <4>1, <4>2 DEF ThirdOK
      <4> QED BY <3>2, <4>3 DEF TableOK
    <3> QED BY <3>4, <3>5 DEF OnTheWay
  <2>11. /\ Placed(ts2, pl2) /\ DOMAIN ts2 = DOMAIN ts1
         /\ \A x \in DOMAIN ts1 : x # t => ts2[x] = ts1[x]
         /\ ts2[t] = [ts1[t] EXCEPT ![i] = new]
    <3>1. t \in DOMAIN ts1 /\ i \in DOMAIN ts1[t]
      BY <1>4, <2>9
    <3> QED BY <2>3, <2>9, <2>10, <3>1, Written
  <2>12. /\ DOMAIN ts2 = DOMAIN ts \cup {f}
         /\ \A x \in DOMAIN ts : x # t => ts2[x] = ts[x]
         /\ ts2[t] = [ts[t] EXCEPT ![i] = new] /\ ts2[f] = EmptyTable
    BY <2>6, <2>9, <2>11
  <2>13. /\ \A q, b, c : pl[t] # Second(q, b, c)
         /\ \A q, b, c, d : pl[t] # First(q, b, c, d)
         /\ pl[t] # Process(t)
    BY Placements DEF OnTheWay, Top, Third, Second, First, Process
  <2>14. \A x \in DOMAIN ts : pl[x] = Top(x) => \A v \in VirtualPages :
           Entry2(ts2, x, v) = Entry2(ts, x, v) /\ Entry1(ts2, x, v) = Entry1(ts, x, v)
    <3> TAKE x \in DOMAIN ts
    <3> HAVE pl[x] = Top(x)
    <3> TAKE v \in VirtualPages
    <3>1. ts[t][i] = Empty
      BY <1>1, <1>6
    <3> QED BY <1>4, <2>0, <2>6, <2>12, <2>13, <3>1, Attached
  <2>15. \A x \in DOMAIN ts : pl[x] = Top(x) =>
           \A j \in 0 .. TOP - 1 : j # a => ts2[x][j] = ts[x][j]
    <3> TAKE x \in DOMAIN ts
    <3> HAVE pl[x] = Top(x)
    <3> TAKE j \in 0 .. TOP - 1
    <3> HAVE j # a
    <3>1. CASE x # t
      BY <2>12, <3>1
    <3>2. CASE x = t
      <4>1. i = a
        <5>1. \A q, b : pl[t] # Third(q, b)
          <6>1. pl[t] = Top(x)
            BY <3>2
          <6> QED BY ONLY <6>1, Placements DEF Top, Third
        <5> QED BY <5>1 DEF OnTheWay
      <4>2. DOMAIN ts[t] = 0 .. TOP - 1
        <5>1. TopOK(ts[t], pl, t)
          BY ONLY AtTop, Placed(ts, pl), t \in DOMAIN ts, pl[x] = Top(x), <3>2
        <5> QED BY <5>1 DEF TopOK
      <4> QED BY <2>12, <3>2, <4>1, <4>2
    <3> QED BY <3>1, <3>2
  <2>16. Keeps(ts, pl, ts2, pl2, a)
    BY <2>9, <2>11, <2>12, <2>13, <2>14, <2>15 DEF Keeps
  <2>17. g.tables = ts2 /\ g.next = f
    BY <2>5
  <2>18. f \in DOMAIN ts2 /\ pl2[f] = place /\ ts2[t][i] = new
    BY <1>4, <2>7, <2>12
  <2> QED BY <1>2, <2>0, <2>12, <2>16, <2>17, <2>18
<1> QED BY <1>5, <1>6

(* The walk of a call of map, to the table that its large page is in.      *)
LEMMA Walked ==
  ASSUME NEW ts, NEW pl, Placed(ts, pl), NEW r \in DOMAIN ts, pl[r] = Top(r),
         NEW v \in VirtualPages
  PROVE  LET pml3 == getNextLevelPointer(ts, r, pml4Entry(v))
             pml2 == getNextLevelPointer(pml3.tables, pml3.next, pml3Entry(v))
         IN  \E pl2 :
               /\ Keeps(ts, pl, pml2.tables, pl2, pml4Entry(v))
               /\ pml2.next \in DOMAIN pml2.tables
               /\ pl2[pml2.next] = Second(r, pml4Entry(v), pml3Entry(v))
               /\ Pml2(pml2.tables, r, v) = pml2.next
<1>1. pml4Entry(v) \in 0 .. TOP - 1 /\ pml3Entry(v) \in 0 .. W - 1
  BY Entries
<1>2. PICK g : g = getNextLevelPointer(ts, r, pml4Entry(v))
  OBVIOUS
<1>3. PICK h : h = getNextLevelPointer(g.tables, g.next, pml3Entry(v))
  OBVIOUS
<1>4. PICK pl1 :
        /\ Keeps(ts, pl, g.tables, pl1, pml4Entry(v))
        /\ g.next \in DOMAIN g.tables /\ pl1[g.next] = Third(r, pml4Entry(v))
        /\ Links(g.tables[r][pml4Entry(v)], g.next)
  <2>1. OnTheWay(pl, r, pml4Entry(v), pml4Entry(v), Third(r, pml4Entry(v)))
    BY <1>1 DEF OnTheWay
  <2> QED BY <1>2, <2>1, Descended
<1>5. Placed(g.tables, pl1)
  BY <1>4 DEF Keeps
<1>6. PICK pl2 :
        /\ Keeps(g.tables, pl1, h.tables, pl2, pml4Entry(v))
        /\ h.next \in DOMAIN h.tables /\ pl2[h.next] = Second(r, pml4Entry(v), pml3Entry(v))
        /\ Links(h.tables[g.next][pml3Entry(v)], h.next)
        /\ \A x \in DOMAIN g.tables : x # g.next => h.tables[x] = g.tables[x]
  <2>1. OnTheWay(pl1, g.next, pml3Entry(v), pml4Entry(v),
                 Second(r, pml4Entry(v), pml3Entry(v)))
    BY <1>1, <1>4 DEF OnTheWay
  <2> QED BY <1>3, <1>4, <1>5, <2>1, Descended
<1>7. Keeps(ts, pl, h.tables, pl2, pml4Entry(v))
  BY <1>4, <1>6, KeepsOn
<1>8. r \in DOMAIN g.tables /\ r # g.next /\ r # 0 /\ g.next # 0
  <2>1. DOMAIN pl = DOMAIN ts /\ DOMAIN pl1 = DOMAIN g.tables
    BY <1>5 DEF Placed
  <2>2. r \in DOMAIN g.tables /\ pl1[r] = Top(r)
    BY <1>4, <2>1 DEF Keeps, Extends
  <2> QED BY <1>4, <1>5, <2>2, Frames, Placements DEF Top, Third
<1>9. Pml3(h.tables, r, v) = g.next
  BY <1>4, <1>6, <1>8 DEF Pml3, Down, Links
<1>10. Pml2(h.tables, r, v) = h.next
  BY <1>6, <1>8, <1>9 DEF Pml2, Down, Links
<1> QED BY <1>2, <1>3, <1>6, <1>7, <1>10

-----------------------------------------------------------------------------
(* What a write to an entry changes.                                       *)

Preserves(ts, pl, ts2, pl2, a) ==
  /\ Placed(ts2, pl2)
  /\ Extends(pl, pl2)
  /\ \A x \in DOMAIN ts : pl[x] = Process(x) => ts2[x] = ts[x]
  /\ \A x \in DOMAIN ts : pl[x] = Top(x) =>
       \A j \in 0 .. TOP - 1 : j # a => ts2[x][j] = ts[x][j]

LEMMA KeepsPreserves ==
  ASSUME NEW ts, NEW pl, NEW ts2, NEW pl2, NEW a, Keeps(ts, pl, ts2, pl2, a)
  PROVE  Preserves(ts, pl, ts2, pl2, a)
BY DEF Keeps, Preserves

LEMMA PreservesOn ==
  ASSUME NEW ts, NEW pl, NEW ts2, NEW pl2, NEW ts3, NEW pl3, NEW a, Placed(ts, pl),
         Preserves(ts, pl, ts2, pl2, a), Preserves(ts2, pl2, ts3, pl3, a)
  PROVE  Preserves(ts, pl, ts3, pl3, a)
<1>1. DOMAIN pl = DOMAIN ts /\ DOMAIN pl2 = DOMAIN ts2
  BY DEF Preserves, Placed
<1>2. \A x \in DOMAIN ts : x \in DOMAIN ts2 /\ pl2[x] = pl[x]
  BY <1>1 DEF Preserves, Extends
<1>3. Placed(ts3, pl3) /\ Extends(pl, pl3)
  BY <1>1, <1>2 DEF Preserves, Extends
<1> QED BY <1>2, <1>3 DEF Preserves

(* The walk for a page does not see tables of the last two levels.         *)
LEMMA SameWalk ==
  ASSUME NEW ts, NEW pl, Placed(ts, pl), NEW ts2, NEW t \in DOMAIN ts,
         \A x \in DOMAIN ts : x # t => ts2[x] = ts[x],
         \A q : pl[t] # Top(q), \A q, a : pl[t] # Third(q, a),
         NEW q \in DOMAIN ts, pl[q] = Top(q), NEW w \in VirtualPages
  PROVE  Pml2(ts2, q, w) = Pml2(ts, q, w)
<1>1. Pml3(ts2, q, w) = Pml3(ts, q, w)
  BY DEF Pml3, Down
<1>2. Pml3(ts, q, w) # 0 =>
        Pml3(ts, q, w) \in DOMAIN ts /\ pl[Pml3(ts, q, w)] = Third(q, pml4Entry(w))
  BY Reached
<1> QED BY <1>1, <1>2 DEF Pml2, Down

LEMMA SamePml2 ==
  ASSUME NEW ts, NEW r, NEW v \in VirtualPages, NEW w \in VirtualPages, Chunk(w) = Chunk(v)
  PROVE  Pml2(ts, r, w) = Pml2(ts, r, v) /\ Entry2(ts, r, w) = Entry2(ts, r, v)
<1>1. pml4Entry(v) = pml4Entry(w) /\ pml3Entry(v) = pml3Entry(w) /\ pml2Entry(v) = pml2Entry(w)
  BY Entries, SameChunk
<1>2. Pml2(ts, r, w) = Pml2(ts, r, v)
  BY <1>1 DEF Pml2, Pml3
<1> QED BY <1>1, <1>2 DEF Entry2

(* Entry e is written at the second level.                                 *)
Writes2(ts, pl, r, v, t, e, ts2) ==
  /\ Placed(ts, pl) /\ r \in DOMAIN ts /\ pl[r] = Top(r) /\ v \in VirtualPages
  /\ t \in DOMAIN ts /\ t = Pml2(ts, r, v)
  /\ LeadsOrMaps(e, pl, First(r, pml4Entry(v), pml3Entry(v), pml2Entry(v)))
  /\ ts2 = [ts EXCEPT ![t][pml2Entry(v)] = e]

LEMMA Write2 ==
  ASSUME NEW ts, NEW pl, NEW r, NEW v, NEW t, NEW e, NEW ts2,
         Writes2(ts, pl, r, v, t, e, ts2), NEW a
  PROVE  /\ Preserves(ts, pl, ts2, pl, a)
         /\ DOMAIN ts2 = DOMAIN ts /\ \A x \in DOMAIN ts : x # t => ts2[x] = ts[x]
         /\ \A q \in DOMAIN ts : pl[q] = Top(q) => \A w \in VirtualPages :
              IF q = r /\ Chunk(w) = Chunk(v)
              THEN /\ Entry2(ts2, q, w) = e
                   /\ Entry1(ts2, q, w) =
                        IF e.address \in DOMAIN ts THEN ts[e.address][pml1Entry(w)] ELSE Empty
              ELSE /\ Entry2(ts2, q, w) = Entry2(ts, q, w)
                   /\ Entry1(ts2, q, w) = Entry1(ts, q, w)
<1> USE DEF Writes2
<1>1. /\ pml4Entry(v) \in 0 .. TOP - 1 /\ pml3Entry(v) \in 0 .. W - 1
      /\ pml2Entry(v) \in 0 .. W - 1
  BY Entries
<1>2. t # 0 /\ pl[t] = Second(r, pml4Entry(v), pml3Entry(v))
  <2>1. t # 0
    BY Frames
  <2> QED BY <2>1, Reached
<1>3. SecondOK(ts[t], pl, t, r, pml4Entry(v), pml3Entry(v))
  BY <1>2, AtSecond
<1>4. pml2Entry(v) \in DOMAIN ts[t]
  BY <1>1, <1>3 DEF SecondOK
<1>5. TableOK([ts[t] EXCEPT ![pml2Entry(v)] = e], pl, t)
  <2>1. SecondOK([ts[t] EXCEPT ![pml2Entry(v)] = e], pl, t, r, pml4Entry(v), pml3Entry(v))
    BY <1>1, <1>3 DEF SecondOK
  <2> QED BY <2>1 DEF TableOK
<1>6. /\ Placed(ts2, pl) /\ DOMAIN ts2 = DOMAIN ts
      /\ \A x \in DOMAIN ts : x # t => ts2[x] = ts[x]
      /\ ts2[t] = [ts[t] EXCEPT ![pml2Entry(v)] = e]
  BY <1>4, <1>5, Written
<1>7. /\ \A q : pl[t] # Top(q) /\ pl[t] # Process(q)
      /\ \A q, b : pl[t] # Third(q, b)
      /\ \A q, b, c, d : pl[t] # First(q, b, c, d)
  BY <1>2, Placements DEF Top, Process, Third, Second, First
<1>8. Preserves(ts, pl, ts2, pl, a)
  BY <1>6, <1>7 DEF Preserves, Extends
<1>9. ASSUME NEW q \in DOMAIN ts, pl[q] = Top(q), NEW w \in VirtualPages
      PROVE  IF q = r /\ Chunk(w) = Chunk(v)
             THEN /\ Entry2(ts2, q, w) = e
                  /\ Entry1(ts2, q, w) =
                       IF e.address \in DOMAIN ts THEN ts[e.address][pml1Entry(w)] ELSE Empty
             ELSE /\ Entry2(ts2, q, w) = Entry2(ts, q, w)
                  /\ Entry1(ts2, q, w) = Entry1(ts, q, w)
  <2>1. PICK y : y = Pml2(ts, q, w)
    OBVIOUS
  <2>2. Pml2(ts2, q, w) = y
    <3>1. Pml2(ts2, q, w) = Pml2(ts, q, w)
      BY ONLY <1>6, <1>7, <1>9, Placed(ts, pl), t \in DOMAIN ts, SameWalk
    <3> QED BY <2>1, <3>1
  <2>3. y # 0 => y \in DOMAIN ts /\ pl[y] = Second(q, pml4Entry(w), pml3Entry(w))
    BY <1>9, <2>1, Reached
  <2>4. /\ Entry2(ts, q, w) = IF y = 0 THEN Empty ELSE ts[y][pml2Entry(w)]
        /\ Entry2(ts2, q, w) = IF y = 0 THEN Empty ELSE ts2[y][pml2Entry(w)]
    BY <2>1, <2>2 DEF Entry2
  <2>5. Entry2(ts2, q, w) = IF q = r /\ Chunk(w) = Chunk(v) THEN e ELSE Entry2(ts, q, w)
    <3>1. CASE q = r /\ Chunk(w) = Chunk(v)
      <4>1. y = t /\ pml2Entry(w) = pml2Entry(v)
        BY <2>1, <3>1, SamePml2, SameChunk, Entries
      <4> QED BY <1>2, <1>4, <1>6, <2>4, <3>1, <4>1
    <3>2. CASE ~ (q = r /\ Chunk(w) = Chunk(v))
      <4>1. CASE y # t
        BY <1>6, <2>3, <2>4, <3>2, <4>1
      <4>2. CASE y = t
        <5>1. q = r /\ pml4Entry(w) = pml4Entry(v) /\ pml3Entry(w) = pml3Entry(v)
          BY <1>2, <2>3, <4>2, Placements DEF Second
        <5>2. pml2Entry(w) # pml2Entry(v)
          BY <3>2, <5>1, SameChunk, Entries
        <5>3. ts2[t][pml2Entry(w)] = ts[t][pml2Entry(w)]
          <6>1. pml2Entry(w) \in 0 .. W - 1
            BY Entries
          <6> QED BY <1>3, <1>6, <5>2, <6>1 DEF SecondOK
        <5> QED BY <1>2, <2>4, <3>2, <4>2, <5>3
      <4> QED BY <4>1, <4>2
    <3> QED BY <3>1, <3>2
  <2>6. PICK g : g = Entry2(ts2, q, w)
    OBVIOUS
  <2>7. LeadsOrMaps(g, pl, First(q, pml4Entry(w), pml3Entry(w), pml2Entry(w)))
    BY <1>6, <1>9, <2>6, Reached
  <2>8. g.address \in DOMAIN ts => g.address # t
    <3>1. g.address \in DOMAIN ts =>
            pl[g.address] = First(q, pml4Entry(w), pml3Entry(w), pml2Entry(w))
      BY <2>7, Address2
    <3> QED BY <1>7, <3>1
  <2>9. Entry1(ts2, q, w) =
          IF g.address \in DOMAIN ts THEN ts[g.address][pml1Entry(w)] ELSE Empty
    BY <1>6, <2>6, <2>8 DEF Entry1
  <2>10. CASE q = r /\ Chunk(w) = Chunk(v)
    BY <2>5, <2>6, <2>9, <2>10
  <2>11. CASE ~ (q = r /\ Chunk(w) = Chunk(v))
    <3>1. g = Entry2(ts, q, w)
      BY <2>5, <2>6, <2>11
    <3>2. Entry1(ts2, q, w) = Entry1(ts, q, w)
      BY <2>9, <3>1 DEF Entry1
    <3> QED BY <2>6, <2>11, <3>1, <3>2
  <2> QED BY <2>10, <2>11
<1> QED BY <1>6, <1>8, <1>9

(* Entry e is written at the last level.                                   *)
Writes1(ts, pl, r, v, t, e, ts2) ==
  /\ Placed(ts, pl) /\ r \in DOMAIN ts /\ pl[r] = Top(r) /\ v \in VirtualPages
  /\ t \in DOMAIN ts /\ t = Entry2(ts, r, v).address
  /\ Maps(e)
  /\ ts2 = [ts EXCEPT ![t][pml1Entry(v)] = e]

LEMMA Write1 ==
  ASSUME NEW ts, NEW pl, NEW r, NEW v, NEW t, NEW e, NEW ts2,
         Writes1(ts, pl, r, v, t, e, ts2), NEW a
  PROVE  /\ Preserves(ts, pl, ts2, pl, a)
         /\ DOMAIN ts2 = DOMAIN ts
         /\ \A q \in DOMAIN ts : pl[q] = Top(q) => \A w \in VirtualPages :
              /\ Entry2(ts2, q, w) = Entry2(ts, q, w)
              /\ Entry1(ts2, q, w) = IF q = r /\ w = v THEN e ELSE Entry1(ts, q, w)
<1> USE DEF Writes1
<1>1. pml1Entry(v) \in 0 .. W - 1
  BY Entries
<1>2. pl[t] = First(r, pml4Entry(v), pml3Entry(v), pml2Entry(v))
  BY Reached, Address2
<1>3. FirstOK(ts[t], pl, t, r, pml4Entry(v), pml3Entry(v), pml2Entry(v))
  BY <1>2, AtFirst
<1>4. pml1Entry(v) \in DOMAIN ts[t]
  BY <1>1, <1>3 DEF FirstOK
<1>5. TableOK([ts[t] EXCEPT ![pml1Entry(v)] = e], pl, t)
  <2>1. FirstOK([ts[t] EXCEPT ![pml1Entry(v)] = e], pl, t, r, pml4Entry(v), pml3Entry(v),
                pml2Entry(v))
    BY <1>1, <1>3 DEF FirstOK
  <2> QED BY <2>1 DEF TableOK
<1>6. /\ Placed(ts2, pl) /\ DOMAIN ts2 = DOMAIN ts
      /\ \A x \in DOMAIN ts : x # t => ts2[x] = ts[x]
      /\ ts2[t] = [ts[t] EXCEPT ![pml1Entry(v)] = e]
  BY ONLY <1>4, <1>5, Placed(ts, pl), t \in DOMAIN ts,
     ts2 = [ts EXCEPT ![t][pml1Entry(v)] = e], Written
<1>7. /\ \A q : pl[t] # Top(q) /\ pl[t] # Process(q)
      /\ \A q, b : pl[t] # Third(q, b)
      /\ \A q, b, c : pl[t] # Second(q, b, c)
  BY <1>2, Placements DEF Top, Process, Third, Second, First
<1>8. Preserves(ts, pl, ts2, pl, a)
  BY <1>6, <1>7 DEF Preserves, Extends
<1>9. ASSUME NEW q \in DOMAIN ts, pl[q] = Top(q), NEW w \in VirtualPages
      PROVE  /\ Entry2(ts2, q, w) = Entry2(ts, q, w)
             /\ Entry1(ts2, q, w) = IF q = r /\ w = v THEN e ELSE Entry1(ts, q, w)
  <2>1. PICK y : y = Pml2(ts, q, w)
    OBVIOUS
  <2>2. Pml2(ts2, q, w) = y
    <3>1. Pml2(ts2, q, w) = Pml2(ts, q, w)
      BY ONLY <1>6, <1>7, <1>9, Placed(ts, pl), t \in DOMAIN ts, SameWalk
    <3> QED BY <2>1, <3>1
  <2>3. y # 0 => y \in DOMAIN ts /\ y # t
    BY <1>7, <1>9, <2>1, Reached
  <2>4. Entry2(ts2, q, w) = Entry2(ts, q, w)
    BY <1>6, <2>1, <2>2, <2>3 DEF Entry2
  <2>5. PICK g : g = Entry2(ts, q, w)
    OBVIOUS
  <2>6. LeadsOrMaps(g, pl, First(q, pml4Entry(w), pml3Entry(w), pml2Entry(w)))
    BY <1>9, <2>5, Reached
  <2>7. g.address \in DOMAIN ts =>
          pl[g.address] = First(q, pml4Entry(w), pml3Entry(w), pml2Entry(w))
    BY <2>6, Address2
  <2>8. /\ Entry1(ts, q, w) =
             IF g.address \in DOMAIN ts THEN ts[g.address][pml1Entry(w)] ELSE Empty
        /\ Entry1(ts2, q, w) =
             IF g.address \in DOMAIN ts THEN ts2[g.address][pml1Entry(w)] ELSE Empty
    BY <1>6, <2>4, <2>5 DEF Entry1
  <2>9. CASE q = r /\ w = v
    BY <1>4, <1>6, <2>4, <2>5, <2>8, <2>9
  <2>10. CASE ~ (q = r /\ w = v)
    <3>1. CASE g.address # t
      BY <1>6, <2>4, <2>8, <2>10, <3>1
    <3>2. CASE g.address = t
      <4>1. /\ q = r /\ pml4Entry(w) = pml4Entry(v) /\ pml3Entry(w) = pml3Entry(v)
            /\ pml2Entry(w) = pml2Entry(v)
        BY <1>2, <2>7, <3>2, Placements DEF First
      <4>2. pml1Entry(w) # pml1Entry(v)
        BY <2>10, <4>1, SameChunk, Entries
      <4>3. ts2[t][pml1Entry(w)] = ts[t][pml1Entry(w)]
        <5>1. pml1Entry(w) \in 0 .. W - 1
          BY Entries
        <5> QED BY <1>3, <1>6, <4>2, <5>1 DEF FirstOK
      <4> QED BY <2>4, <2>8, <2>10, <3>2, <4>3
    <3> QED BY <3>1, <3>2
  <2> QED BY <2>9, <2>10
<1> QED BY <1>6, <1>8, <1>9

(* A table that no entry leads to changes no translation.                  *)
LEMMA AddedUnseen ==
  ASSUME NEW ts, NEW pl, Placed(ts, pl), NEW ts2, NEW f, f \notin Physical,
         DOMAIN ts2 = DOMAIN ts \cup {f}, \A x \in DOMAIN ts : ts2[x] = ts[x],
         NEW q \in DOMAIN ts, pl[q] = Top(q), NEW w \in VirtualPages
  PROVE  Entry2(ts2, q, w) = Entry2(ts, q, w) /\ Entry1(ts2, q, w) = Entry1(ts, q, w)
<1>1. Pml3(ts2, q, w) = Pml3(ts, q, w)
  BY DEF Pml3, Down
<1>2. Pml2(ts2, q, w) = Pml2(ts, q, w)
  <2>1. Pml3(ts, q, w) # 0 => Pml3(ts, q, w) \in DOMAIN ts
    BY Reached
  <2> QED BY <1>1, <2>1 DEF Pml2, Down
<1>3. Entry2(ts2, q, w) = Entry2(ts, q, w)
  <2>1. Pml2(ts, q, w) # 0 => Pml2(ts, q, w) \in DOMAIN ts
    BY Reached
  <2> QED BY <1>2, <2>1 DEF Entry2
<1>4. PICK g : g = Entry2(ts, q, w)
  OBVIOUS
<1>5. g.address \in DOMAIN ts <=> g.address \notin Physical
  <2>1. LeadsOrMaps(g, pl, First(q, pml4Entry(w), pml3Entry(w), pml2Entry(w)))
    BY <1>4, Reached
  <2> QED BY <2>1, Address2
<1> QED BY <1>3, <1>4, <1>5 DEF Entry1

-----------------------------------------------------------------------------
(* A call of map.                                                          *)

Unchanged(ts, ts2, q, w) ==
  Entry2(ts2, q, w) = Entry2(ts, q, w) /\ Entry1(ts2, q, w) = Entry1(ts, q, w)

(* What map writes over the entry e.                                       *)
NewEntry(e, p, large) ==
  [present |-> TRUE, large |-> e.large \/ large, address |-> p]

LEMMA NewEntryIs ==
  ASSUME NEW e, e \in Entry, NEW p \in Physical
  PROVE  /\ NewEntry(e, p, TRUE) \in Entry
         /\ NewEntry(e, p, TRUE).present /\ NewEntry(e, p, TRUE).address = p
         /\ NewEntry(e, p, TRUE).large
         /\ NewEntry(e, p, FALSE) \in Entry
         /\ NewEntry(e, p, FALSE).present /\ NewEntry(e, p, FALSE).address = p
         /\ ~ e.large => ~ NewEntry(e, p, FALSE).large
<1>1. e.large \in BOOLEAN /\ p \in Nat
  BY Sizes DEF Entry, Physical
<1> QED BY <1>1 DEF NewEntry, Entry

LargeMapped(ts, pl, r, v, p, pte) ==
  /\ pte.table \in DOMAIN pte.tables
  /\ \E pl2 : LET ts2 == [pte.tables EXCEPT ![pte.table][pte.entry] =
                            NewEntry(pte.tables[pte.table][pte.entry], p, TRUE)]
       IN  /\ Preserves(ts, pl, ts2, pl2, pml4Entry(v))
           /\ \A q \in DOMAIN ts : pl[q] = Top(q) => \A w \in VirtualPages :
                IF q = r /\ Chunk(w) = Chunk(v)
                THEN /\ Entry2(ts2, q, w).present /\ Entry2(ts2, q, w).large
                     /\ Entry2(ts2, q, w).address = p
                ELSE Unchanged(ts, ts2, q, w)

LEMMA MapsLarge ==
  ASSUME NEW ts, NEW pl, Placed(ts, pl), NEW r \in DOMAIN ts, pl[r] = Top(r),
         NEW v \in VirtualPages, NEW p \in Physical, NEW pte,
         pte = virtualAddrToPTE(ts, r, v, TRUE)
  PROVE  LargeMapped(ts, pl, r, v, p, pte)
<1>1. PICK pml3 : pml3 = getNextLevelPointer(ts, r, pml4Entry(v))
  OBVIOUS
<1>2. PICK pml2 : pml2 = getNextLevelPointer(pml3.tables, pml3.next, pml3Entry(v))
  OBVIOUS
<1>3. PICK us, t : us = pml2.tables /\ t = pml2.next
  OBVIOUS
<1>4. pte.tables = us /\ pte.table = t /\ pte.entry = pml2Entry(v)
  BY <1>1, <1>2, <1>3 DEF virtualAddrToPTE
<1>5. PICK pl2 :
        /\ Keeps(ts, pl, us, pl2, pml4Entry(v)) /\ t \in DOMAIN us
        /\ pl2[t] = Second(r, pml4Entry(v), pml3Entry(v)) /\ Pml2(us, r, v) = t
  BY <1>1, <1>2, <1>3, Walked
<1>6. Placed(us, pl2) /\ DOMAIN pl = DOMAIN ts /\ DOMAIN pl2 = DOMAIN us
  BY <1>5 DEF Keeps, Placed
<1>7. \A q \in DOMAIN ts : q \in DOMAIN us /\ (pl[q] = Top(q) => pl2[q] = Top(q))
  BY <1>5, <1>6 DEF Keeps, Extends
<1>8. PICK e0 : e0 = us[t][pml2Entry(v)]
  OBVIOUS
<1>9. PICK e : e = NewEntry(e0, p, TRUE)
  OBVIOUS
<1>10. e \in Entry /\ e.present /\ e.large /\ e.address = p
  <2>1. e0 \in Entry
    <3>1. SecondOK(us[t], pl2, t, r, pml4Entry(v), pml3Entry(v))
      BY <1>5, <1>6, AtSecond
    <3>2. pml2Entry(v) \in 0 .. W - 1
      BY Entries
    <3> QED BY <1>8, <3>1, <3>2 DEF SecondOK, LeadsOrMaps
  <2> QED BY <1>9, <2>1, NewEntryIs
<1>11. LeadsOrMaps(e, pl2, First(r, pml4Entry(v), pml3Entry(v), pml2Entry(v)))
  BY <1>10 DEF LeadsOrMaps
<1>12. PICK ts2 : ts2 = [us EXCEPT ![t][pml2Entry(v)] = e]
  OBVIOUS
<1>13. /\ Preserves(us, pl2, ts2, pl2, pml4Entry(v))
       /\ \A q \in DOMAIN us : pl2[q] = Top(q) => \A w \in VirtualPages :
            IF q = r /\ Chunk(w) = Chunk(v)
            THEN Entry2(ts2, q, w) = e
            ELSE Entry2(ts2, q, w) = Entry2(us, q, w) /\ Entry1(ts2, q, w) = Entry1(us, q, w)
  <2>1. r \in DOMAIN us /\ pl2[r] = Top(r) /\ t = Pml2(us, r, v)
    BY <1>5, <1>7
  <2>2. Writes2(us, pl2, r, v, t, e, ts2)
    BY <1>5, <1>6, <1>11, <1>12, <2>1 DEF Writes2
  <2> QED BY ONLY <2>2, Write2
<1>14. Preserves(ts, pl, ts2, pl2, pml4Entry(v))
  BY <1>5, <1>13, KeepsPreserves, PreservesOn
<1>15. ASSUME NEW q \in DOMAIN ts, pl[q] = Top(q), NEW w \in VirtualPages
       PROVE  IF q = r /\ Chunk(w) = Chunk(v)
              THEN /\ Entry2(ts2, q, w).present /\ Entry2(ts2, q, w).large
                   /\ Entry2(ts2, q, w).address = p
              ELSE Unchanged(ts, ts2, q, w)
  <2>1. q \in DOMAIN us /\ pl2[q] = Top(q)
    BY <1>7, <1>15
  <2>2. Entry2(us, q, w) = Entry2(ts, q, w) /\ Entry1(us, q, w) = Entry1(ts, q, w)
    BY <1>5, <1>15 DEF Keeps
  <2> QED BY <1>10, <1>13, <2>1, <2>2 DEF Unchanged
<1>16. ts2 = [pte.tables EXCEPT ![pte.table][pte.entry] =
                NewEntry(pte.tables[pte.table][pte.entry], p, TRUE)]
  BY <1>4, <1>8, <1>9, <1>12
<1> QED BY <1>4, <1>5, <1>14, <1>15, <1>16 DEF LargeMapped

(* What becomes of the second level: nothing, if it leads to a table, and  *)
(* a new table if it is no valid entry.                                    *)
MappedSmall(ts, ts2, r, v, p) ==
  /\ \A w \in VirtualPages : Chunk(w) = Chunk(v) =>
       LET e0 == Entry2(ts, r, v)
           e  == Entry2(ts2, r, w)
       IN  /\ e.present /\ e.large = e0.large /\ e.address \notin Physical
           /\ isValid(e0) => e = e0
           /\ w # v => Entry1(ts2, r, w) = IF isValid(e0) THEN Entry1(ts, r, w) ELSE Empty
  /\ LET e == Entry1(ts2, r, v) IN e.present /\ ~ e.large /\ e.address = p

SmallMapped(ts, pl, r, v, p, pte) ==
  IF isValid(Entry2(ts, r, v)) /\ Entry2(ts, r, v).address \in Physical
  THEN /\ pte.table = Entry2(ts, r, v).address /\ pte.table \notin DOMAIN pte.tables
       /\ \E pl2 : Keeps(ts, pl, pte.tables, pl2, pml4Entry(v))
  ELSE /\ pte.table \in DOMAIN pte.tables
       /\ \E pl2 : LET ts2 == [pte.tables EXCEPT ![pte.table][pte.entry] =
                            NewEntry(pte.tables[pte.table][pte.entry], p, FALSE)]
            IN  /\ Preserves(ts, pl, ts2, pl2, pml4Entry(v))
                /\ MappedSmall(ts, ts2, r, v, p)
                /\ \A q \in DOMAIN ts : pl[q] = Top(q) => \A w \in VirtualPages :
                     ~ (q = r /\ Chunk(w) = Chunk(v)) => Unchanged(ts, ts2, q, w)

LEMMA MapsSmall ==
  ASSUME NEW ts, NEW pl, Placed(ts, pl), NEW r \in DOMAIN ts, pl[r] = Top(r),
         NEW v \in VirtualPages, NEW p \in Physical, NEW pte,
         pte = virtualAddrToPTE(ts, r, v, FALSE)
  PROVE  SmallMapped(ts, pl, r, v, p, pte)
<1>1. PICK pml3 : pml3 = getNextLevelPointer(ts, r, pml4Entry(v))
  OBVIOUS
<1>2. PICK pml2 : pml2 = getNextLevelPointer(pml3.tables, pml3.next, pml3Entry(v))
  OBVIOUS
<1>3. PICK us, t : us = pml2.tables /\ t = pml2.next
  OBVIOUS
<1>4. PICK g : g = getNextLevelPointer(us, t, pml2Entry(v))
  OBVIOUS
<1>5. pte.tables = g.tables /\ pte.table = g.next /\ pte.entry = pml1Entry(v)
  BY <1>1, <1>2, <1>3, <1>4 DEF virtualAddrToPTE
<1>6. PICK pl2 :
        /\ Keeps(ts, pl, us, pl2, pml4Entry(v)) /\ t \in DOMAIN us
        /\ pl2[t] = Second(r, pml4Entry(v), pml3Entry(v)) /\ Pml2(us, r, v) = t
  BY <1>1, <1>2, <1>3, Walked
<1>7. Placed(us, pl2) /\ DOMAIN pl = DOMAIN ts /\ DOMAIN pl2 = DOMAIN us
  BY <1>6 DEF Keeps, Placed
<1>8. \A q \in DOMAIN ts : q \in DOMAIN us /\ (pl[q] = Top(q) => pl2[q] = Top(q))
  BY <1>6, <1>7 DEF Keeps, Extends
<1>9. \A q \in DOMAIN ts : pl[q] = Top(q) => \A w \in VirtualPages : Unchanged(ts, us, q, w)
  BY <1>6 DEF Keeps, Unchanged
<1>10. PICK e0 : e0 = Entry2(ts, r, v)
  OBVIOUS
<1>11. us[t][pml2Entry(v)] = e0 /\ Entry2(us, r, v) = e0
  <2>1. Entry2(us, r, v) = e0
    BY <1>9, <1>10 DEF Unchanged
  <2>2. t # 0
    BY <1>6, <1>7, Frames
  <2> QED BY <1>6, <2>1, <2>2 DEF Entry2
<1>12. /\ LeadsOrMaps(e0, pl2, First(r, pml4Entry(v), pml3Entry(v), pml2Entry(v)))
       /\ e0.address \in DOMAIN us <=> e0.address \notin Physical
  <2>1. r \in DOMAIN us /\ pl2[r] = Top(r)
    BY <1>8
  <2>2. LeadsOrMaps(e0, pl2, First(r, pml4Entry(v), pml3Entry(v), pml2Entry(v)))
    BY <1>7, <1>11, <2>1, Reached
  <2> QED BY <1>7, <2>2, Address2
<1>13. CASE isValid(e0) /\ e0.address \in Physical
  <2>1. g = [tables |-> us, next |-> e0.address]
    BY <1>4, <1>11, <1>13 DEF getNextLevelPointer
  <2>2. g.tables = us /\ g.next = e0.address
    BY <2>1
  <2> QED BY <1>5, <1>6, <1>10, <1>12, <1>13, <2>2 DEF SmallMapped
<1>14. CASE isValid(e0) /\ e0.address \notin Physical
  <2>1. g = [tables |-> us, next |-> e0.address]
    BY <1>4, <1>11, <1>14 DEF getNextLevelPointer
  <2>2. g.tables = us /\ g.next = e0.address /\ e0.address \in DOMAIN us
    BY <1>12, <1>14, <2>1
  <2>3. PICK x : x = e0.address
    OBVIOUS
  <2>4. PICK e : e = NewEntry(us[x][pml1Entry(v)], p, FALSE)
    OBVIOUS
  <2>5. us[x][pml1Entry(v)] = Entry1(us, r, v)
    BY <1>11, <2>2, <2>3 DEF Entry1
  <2>6. Maps(e) /\ e.present /\ ~ e.large /\ e.address = p
    <3>1. Maps(us[x][pml1Entry(v)])
      BY <1>7, <1>8, <2>5, Reached
    <3>2. e \in Entry /\ e.present /\ e.address = p /\ ~ e.large
      BY <2>4, <3>1, NewEntryIs DEF Maps
    <3> QED BY <3>2 DEF Maps
  <2>7. PICK ts2 : ts2 = [us EXCEPT ![x][pml1Entry(v)] = e]
    OBVIOUS
  <2>8. /\ Preserves(us, pl2, ts2, pl2, pml4Entry(v)) /\ DOMAIN ts2 = DOMAIN us
        /\ \A q \in DOMAIN us : pl2[q] = Top(q) => \A w \in VirtualPages :
             /\ Entry2(ts2, q, w) = Entry2(us, q, w)
             /\ Entry1(ts2, q, w) = IF q = r /\ w = v THEN e ELSE Entry1(us, q, w)
    <3>1. r \in DOMAIN us /\ pl2[r] = Top(r) /\ x \in DOMAIN us /\ x = Entry2(us, r, v).address
      BY <1>8, <1>11, <2>2, <2>3
    <3>2. Writes1(us, pl2, r, v, x, e, ts2)
      BY <1>7, <2>6, <2>7, <3>1 DEF Writes1
    <3> QED BY ONLY <3>2, Write1
  <2>9. Preserves(ts, pl, ts2, pl2, pml4Entry(v))
    BY <1>6, <2>8, KeepsPreserves, PreservesOn
  <2>10. \A q \in DOMAIN ts : pl[q] = Top(q) => \A w \in VirtualPages :
           /\ Entry2(ts2, q, w) = Entry2(ts, q, w)
           /\ Entry1(ts2, q, w) = IF q = r /\ w = v THEN e ELSE Entry1(ts, q, w)
    BY <1>8, <1>9, <2>8 DEF Unchanged
  <2>11. \A q \in DOMAIN ts : pl[q] = Top(q) => \A w \in VirtualPages :
           ~ (q = r /\ Chunk(w) = Chunk(v)) => Unchanged(ts, ts2, q, w)
    BY <2>10 DEF Unchanged
  <2>12. MappedSmall(ts, ts2, r, v, p)
    <3>1. ASSUME NEW w \in VirtualPages, Chunk(w) = Chunk(v)
          PROVE  /\ Entry2(ts2, r, w) = e0
                 /\ w # v => Entry1(ts2, r, w) = Entry1(ts, r, w)
      BY <1>10, <2>10, <3>1, SamePml2
    <3>2. e0.present
      BY <1>14 DEF isValid
    <3>3. Entry1(ts2, r, v) = e
      BY <2>10
    <3> QED BY <1>10, <1>14, <2>6, <3>1, <3>2, <3>3 DEF MappedSmall
  <2>13. ts2 = [pte.tables EXCEPT ![pte.table][pte.entry] =
                  NewEntry(pte.tables[pte.table][pte.entry], p, FALSE)]
    BY <1>5, <2>2, <2>3, <2>4, <2>7
  <2>14. pte.table \in DOMAIN pte.tables
    BY <1>5, <2>2
  <2> QED BY <1>10, <1>14, <2>9, <2>11, <2>12, <2>13, <2>14 DEF SmallMapped
<1>15. CASE ~ isValid(e0)
  <2>1. PICK f : f = NewFrame(us)
    OBVIOUS
  <2>2. PICK new : new = [e0 EXCEPT !.present = TRUE, !.address = f]
    OBVIOUS
  <2>3. PICK ts1 : ts1 = With(us, f, EmptyTable)
    OBVIOUS
  <2>4. PICK ts2 : ts2 = [ts1 EXCEPT ![t][pml2Entry(v)] = new]
    OBVIOUS
  <2>5. g.tables = ts2 /\ g.next = f
    <3>1. g = [tables |-> ts2, next |-> f]
      BY <1>4, <1>11, <1>15, <2>1, <2>2, <2>3, <2>4 DEF getNextLevelPointer, EmptyTable
    <3> QED BY <3>1
  <2>6. f \notin DOMAIN us /\ f \notin Physical /\ f # 0 /\ f \in Nat
    BY <1>7, <2>1, NewFrameIs
  <2>7. new \in Entry /\ new.present /\ new.large = e0.large /\ new.address = f
    BY <1>12, <2>2, <2>6 DEF LeadsOrMaps, Entry
  <2>8. PICK place : place = First(r, pml4Entry(v), pml3Entry(v), pml2Entry(v))
    OBVIOUS
  <2>9. PICK pl3 : pl3 = Adds(pl2, f, place)
    OBVIOUS
  <2>10. f \in DOMAIN pl3 /\ pl3[f] = place /\ \A x \in DOMAIN us : x \in DOMAIN pl3 /\ pl3[x] = pl2[x]
    BY <1>7, <2>6, <2>9 DEF Adds
  <2>11. TableOK(EmptyTable, pl3, f)
    <3>1. FirstOK(EmptyTable, pl3, f, r, pml4Entry(v), pml3Entry(v), pml2Entry(v))
      BY <2>8, <2>10, EmptyIs DEF FirstOK, EmptyTable
    <3> QED BY <3>1 DEF TableOK
  <2>12. /\ Placed(ts1, pl3) /\ Extends(pl2, pl3) /\ DOMAIN ts1 = DOMAIN us \cup {f}
         /\ \A x \in DOMAIN us : ts1[x] = us[x]
         /\ ts1[f] = EmptyTable
    <3>1. TableOK(EmptyTable, Adds(pl2, NewFrame(us), place), NewFrame(us))
      BY <2>1, <2>9, <2>11
    <3> QED BY ONLY <1>7, <2>1, <2>3, <2>9, <3>1, Added
  <2>13. \A q \in DOMAIN us : pl2[q] = Top(q) => \A w \in VirtualPages :
           Entry2(ts1, q, w) = Entry2(us, q, w) /\ Entry1(ts1, q, w) = Entry1(us, q, w)
    BY <1>7, <2>6, <2>12, AddedUnseen
  <2>14. Keeps(us, pl2, ts1, pl3, pml4Entry(v))
    BY <2>12, <2>13 DEF Keeps
  <2>15. /\ r \in DOMAIN ts1 /\ pl3[r] = Top(r) /\ t \in DOMAIN ts1 /\ t = Pml2(ts1, r, v)
         /\ t # f
    <3>1. r \in DOMAIN us /\ pl2[r] = Top(r)
      BY <1>8
    <3>2. Pml2(ts1, r, v) = Pml2(us, r, v)
      <4>1. Pml3(ts1, r, v) = Pml3(us, r, v)
        BY <2>12, <3>1 DEF Pml3, Down
      <4>2. Pml3(us, r, v) # 0 => Pml3(us, r, v) \in DOMAIN us
        BY <1>7, <3>1, Reached
      <4> QED BY <2>12, <4>1, <4>2 DEF Pml2, Down
    <3> QED BY <1>6, <2>6, <2>10, <2>12, <3>1, <3>2
  <2>16. LeadsOrMaps(new, pl3, First(r, pml4Entry(v), pml3Entry(v), pml2Entry(v)))
    BY <2>6, <2>7, <2>8, <2>10 DEF LeadsOrMaps
  <2>17. /\ Preserves(ts1, pl3, ts2, pl3, pml4Entry(v)) /\ DOMAIN ts2 = DOMAIN ts1
         /\ \A x \in DOMAIN ts1 : x # t => ts2[x] = ts1[x]
         /\ \A q \in DOMAIN ts1 : pl3[q] = Top(q) => \A w \in VirtualPages :
              IF q = r /\ Chunk(w) = Chunk(v)
              THEN /\ Entry2(ts2, q, w) = new
                   /\ Entry1(ts2, q, w) =
                        IF new.address \in DOMAIN ts1 THEN ts1[new.address][pml1Entry(w)] ELSE Empty
              ELSE /\ Entry2(ts2, q, w) = Entry2(ts1, q, w)
                   /\ Entry1(ts2, q, w) = Entry1(ts1, q, w)
    <3>1. Writes2(ts1, pl3, r, v, t, new, ts2)
      BY <2>4, <2>12, <2>15, <2>16 DEF Writes2
    <3> QED BY ONLY <3>1, Write2
  <2>18. PICK e : e = NewEntry(ts2[f][pml1Entry(v)], p, FALSE)
    OBVIOUS
  <2>19. \A w \in VirtualPages : ts1[f][pml1Entry(w)] = Empty
    BY <2>12, Entries DEF EmptyTable
  <2>20. Maps(e) /\ e.present /\ ~ e.large /\ e.address = p
    <3>1. ts2[f][pml1Entry(v)] = Empty
      BY <2>12, <2>15, <2>17, <2>19
    <3>2. e \in Entry /\ e.present /\ e.address = p /\ ~ e.large
      BY <2>18, <3>1, EmptyIs, NewEntryIs
    <3> QED BY <3>2 DEF Maps
  <2>21. PICK ts3 : ts3 = [ts2 EXCEPT ![f][pml1Entry(v)] = e]
    OBVIOUS
  <2>22. Placed(ts2, pl3)
    BY <2>17 DEF Preserves
  <2>23. /\ Preserves(ts2, pl3, ts3, pl3, pml4Entry(v))
         /\ \A q \in DOMAIN ts2 : pl3[q] = Top(q) => \A w \in VirtualPages :
              /\ Entry2(ts3, q, w) = Entry2(ts2, q, w)
              /\ Entry1(ts3, q, w) = IF q = r /\ w = v THEN e ELSE Entry1(ts2, q, w)
    <3>1. /\ r \in DOMAIN ts2 /\ pl3[r] = Top(r) /\ f \in DOMAIN ts2
          /\ f = Entry2(ts2, r, v).address
      BY <2>7, <2>12, <2>15, <2>17
    <3>2. Writes1(ts2, pl3, r, v, f, e, ts3)
      BY <2>20, <2>21, <2>22, <3>1 DEF Writes1
    <3> QED BY ONLY <3>2, Write1
  <2>24. Preserves(ts, pl, ts3, pl3, pml4Entry(v))
    <3>1. Preserves(us, pl2, ts1, pl3, pml4Entry(v))
      BY <2>14, KeepsPreserves
    <3>2. Preserves(us, pl2, ts2, pl3, pml4Entry(v))
      BY <1>7, <2>17, <3>1, PreservesOn
    <3>3. Preserves(us, pl2, ts3, pl3, pml4Entry(v))
      BY <1>7, <2>23, <3>2, PreservesOn
    <3> QED BY <1>6, <3>3, KeepsPreserves, PreservesOn
  <2>25. ASSUME NEW q \in DOMAIN ts, pl[q] = Top(q), NEW w \in VirtualPages
         PROVE  IF q = r /\ Chunk(w) = Chunk(v)
                THEN /\ Entry2(ts3, q, w) = new
                     /\ Entry1(ts3, q, w) = IF w = v THEN e ELSE Empty
                ELSE Unchanged(ts, ts3, q, w)
    <3>1. q \in DOMAIN us /\ pl2[q] = Top(q) /\ q \in DOMAIN ts1 /\ pl3[q] = Top(q) /\ q \in DOMAIN ts2
      BY <1>8, <2>10, <2>12, <2>17, <2>25
    <3>2. Entry2(ts1, q, w) = Entry2(ts, q, w) /\ Entry1(ts1, q, w) = Entry1(ts, q, w)
      BY <1>9, <2>13, <2>25, <3>1 DEF Unchanged
    <3>3. CASE q = r /\ Chunk(w) = Chunk(v)
      <4>1. Entry2(ts2, q, w) = new /\ Entry1(ts2, q, w) = Empty
        BY <2>7, <2>12, <2>17, <2>19, <3>1, <3>3
      <4> QED BY <2>23, <3>1, <3>3, <4>1
    <3>4. CASE ~ (q = r /\ Chunk(w) = Chunk(v))
      <4>1. Entry2(ts2, q, w) = Entry2(ts, q, w) /\ Entry1(ts2, q, w) = Entry1(ts, q, w)
        BY <2>17, <3>1, <3>2, <3>4
      <4>2. ~ (q = r /\ w = v)
        BY <3>4
      <4> QED BY <2>23, <3>1, <3>4, <4>1, <4>2 DEF Unchanged
    <3> QED BY <3>3, <3>4
  <2>26. MappedSmall(ts, ts3, r, v, p)
    BY <1>10, <1>15, <2>6, <2>7, <2>20, <2>25 DEF MappedSmall
  <2>27. ts3 = [pte.tables EXCEPT ![pte.table][pte.entry] =
                  NewEntry(pte.tables[pte.table][pte.entry], p, FALSE)]
    BY <1>5, <2>5, <2>18, <2>21
  <2>28. pte.table \in DOMAIN pte.tables
    BY <1>5, <2>5, <2>12, <2>17
  <2> QED BY <1>10, <1>15, <2>24, <2>25, <2>26, <2>27, <2>28 DEF SmallMapped
<1> QED BY <1>10, <1>13, <1>14, <1>15

(* What a call of map does to what the entries of root r hold.             *)
Effect(ts, ts2, r, m) ==
  IF m.large
  THEN \A w \in VirtualPages : Chunk(w) = Chunk(m.virtual) =>
         /\ Entry2(ts2, r, w).present /\ Entry2(ts2, r, w).large
         /\ Entry2(ts2, r, w).address = m.physical
  ELSE IF isValid(Entry2(ts, r, m.virtual)) /\ Entry2(ts, r, m.virtual).address \in Physical
  THEN \A w \in VirtualPages : Unchanged(ts, ts2, r, w)
  ELSE MappedSmall(ts, ts2, r, m.virtual, m.physical)

Calls == [physical : Physical, virtual : VirtualPages, large : BOOLEAN]

(* The outcome of a call of map: the tables and whether it wrote over      *)
(* something else.                                                         *)
Outcome(ts, r, m, ts2) ==
  LET pte == virtualAddrToPTE(ts, r, m.virtual, m.large)
  IN  ts2 = IF pte.table \in DOMAIN pte.tables
            THEN [pte.tables EXCEPT ![pte.table][pte.entry] =
                    NewEntry(pte.tables[pte.table][pte.entry], m.physical, m.large)]
            ELSE pte.tables

Others(ts, pl, ts2, r, m) ==
  \A q \in DOMAIN ts : pl[q] = Top(q) => \A w \in VirtualPages :
    ~ (q = r /\ Chunk(w) = Chunk(m.virtual)) => Unchanged(ts, ts2, q, w)

LEMMA Mapped ==
  ASSUME NEW ts, NEW pl, Placed(ts, pl), NEW r \in DOMAIN ts, pl[r] = Top(r),
         NEW m \in Calls, NEW ts2, Outcome(ts, r, m, ts2),
         NEW pte, pte = virtualAddrToPTE(ts, r, m.virtual, m.large)
  PROVE  /\ \E pl2 : Preserves(ts, pl, ts2, pl2, pml4Entry(m.virtual))
         /\ Effect(ts, ts2, r, m)
         /\ Others(ts, pl, ts2, r, m)
         /\ pte.table \in DOMAIN pte.tables \/ pte.table \in Physical
         /\ pte.table \notin DOMAIN pte.tables =>
              /\ ~ m.large
              /\ isValid(Entry2(ts, r, m.virtual))
              /\ Entry2(ts, r, m.virtual).address \in Physical
<1>1. PICK v, p : v = m.virtual /\ p = m.physical /\ v \in VirtualPages /\ p \in Physical
  BY DEF Calls
<1>2. CASE m.large = TRUE
  <2>1. pte = virtualAddrToPTE(ts, r, v, TRUE)
    BY <1>1, <1>2
  <2>2. /\ pte.table \in DOMAIN pte.tables
        /\ \E pl2 : LET x == [pte.tables EXCEPT ![pte.table][pte.entry] =
                                  NewEntry(pte.tables[pte.table][pte.entry], p, TRUE)]
             IN  /\ Preserves(ts, pl, x, pl2, pml4Entry(v))
                 /\ \A q \in DOMAIN ts : pl[q] = Top(q) => \A w \in VirtualPages :
                      IF q = r /\ Chunk(w) = Chunk(v)
                      THEN /\ Entry2(x, q, w).present /\ Entry2(x, q, w).large
                           /\ Entry2(x, q, w).address = p
                      ELSE Unchanged(ts, x, q, w)
    <3>1. LargeMapped(ts, pl, r, v, p, pte)
      BY <1>1, <2>1, MapsLarge
    <3> QED BY ONLY <3>1 DEF LargeMapped
  <2>3. ts2 = [pte.tables EXCEPT ![pte.table][pte.entry] =
                 NewEntry(pte.tables[pte.table][pte.entry], p, TRUE)]
    BY <1>1, <1>2, <2>2 DEF Outcome
  <2>4. PICK pl2 : /\ Preserves(ts, pl, ts2, pl2, pml4Entry(v))
                   /\ \A q \in DOMAIN ts : pl[q] = Top(q) => \A w \in VirtualPages :
                        IF q = r /\ Chunk(w) = Chunk(v)
                        THEN /\ Entry2(ts2, q, w).present /\ Entry2(ts2, q, w).large
                             /\ Entry2(ts2, q, w).address = p
                        ELSE Unchanged(ts, ts2, q, w)
    BY ONLY <2>2, <2>3
  <2>5. Effect(ts, ts2, r, m)
    BY <1>1, <1>2, <2>4 DEF Effect
  <2>6. Others(ts, pl, ts2, r, m)
    BY <1>1, <2>4 DEF Others
  <2> QED BY <1>1, <2>2, <2>4, <2>5, <2>6
<1>3. CASE m.large = FALSE
  <2>1. pte = virtualAddrToPTE(ts, r, v, FALSE)
    BY <1>1, <1>3
  <2>2. IF isValid(Entry2(ts, r, v)) /\ Entry2(ts, r, v).address \in Physical
        THEN /\ pte.table = Entry2(ts, r, v).address /\ pte.table \notin DOMAIN pte.tables
             /\ \E pl2 : Keeps(ts, pl, pte.tables, pl2, pml4Entry(v))
        ELSE /\ pte.table \in DOMAIN pte.tables
             /\ \E pl2 : LET x == [pte.tables EXCEPT ![pte.table][pte.entry] =
                                  NewEntry(pte.tables[pte.table][pte.entry], p, FALSE)]
                  IN  /\ Preserves(ts, pl, x, pl2, pml4Entry(v))
                      /\ MappedSmall(ts, x, r, v, p)
                      /\ \A q \in DOMAIN ts : pl[q] = Top(q) => \A w \in VirtualPages :
                           ~ (q = r /\ Chunk(w) = Chunk(v)) => Unchanged(ts, x, q, w)
    <3>1. SmallMapped(ts, pl, r, v, p, pte)
      BY <1>1, <2>1, MapsSmall
    <3> QED BY ONLY <3>1 DEF SmallMapped
  <2>3. CASE isValid(Entry2(ts, r, v)) /\ Entry2(ts, r, v).address \in Physical
    <3>1. ts2 = pte.tables /\ pte.table \in Physical /\ pte.table \notin DOMAIN pte.tables
      BY <1>1, <1>3, <2>2, <2>3 DEF Outcome
    <3>2. PICK pl2 : Keeps(ts, pl, ts2, pl2, pml4Entry(v))
      BY <2>2, <2>3, <3>1
    <3>3. \A q \in DOMAIN ts : pl[q] = Top(q) => \A w \in VirtualPages : Unchanged(ts, ts2, q, w)
      BY <3>2 DEF Keeps, Unchanged
    <3>4. Effect(ts, ts2, r, m)
      BY <1>1, <1>3, <2>3, <3>3 DEF Effect
    <3>5. Others(ts, pl, ts2, r, m)
      BY <3>3 DEF Others
    <3>6. Preserves(ts, pl, ts2, pl2, pml4Entry(v))
      BY <3>2, KeepsPreserves
    <3> QED BY <1>1, <1>3, <2>3, <3>1, <3>4, <3>5, <3>6
  <2>4. CASE ~ (isValid(Entry2(ts, r, v)) /\ Entry2(ts, r, v).address \in Physical)
    <3>1. pte.table \in DOMAIN pte.tables
      BY <2>2, <2>4
    <3>2. ts2 = [pte.tables EXCEPT ![pte.table][pte.entry] =
                   NewEntry(pte.tables[pte.table][pte.entry], p, FALSE)]
      BY <1>1, <1>3, <3>1 DEF Outcome
    <3>3. PICK pl2 : /\ Preserves(ts, pl, ts2, pl2, pml4Entry(v))
                     /\ MappedSmall(ts, ts2, r, v, p)
                     /\ \A q \in DOMAIN ts : pl[q] = Top(q) => \A w \in VirtualPages :
                          ~ (q = r /\ Chunk(w) = Chunk(v)) => Unchanged(ts, ts2, q, w)
      BY ONLY <2>2, <2>4, <3>2
    <3>4. Effect(ts, ts2, r, m)
      BY <1>1, <1>3, <2>4, <3>3 DEF Effect
    <3>5. Others(ts, pl, ts2, r, m)
      BY <1>1, <3>3 DEF Others
    <3> QED BY <1>1, <3>1, <3>3, <3>4, <3>5
  <2> QED BY <2>3, <2>4
<1> QED BY <1>2, <1>3 DEF Calls

-----------------------------------------------------------------------------
(* What the processor makes of a tree.                                     *)

(* Translate, of any tables.                                               *)
TranslateIn(ts, root, v) ==
  LET e4 == ts[root][pml4Entry(v)]
      e3 == ts[e4.address][pml3Entry(v)]
      e2 == ts[e3.address][pml2Entry(v)]
      e1 == ts[e2.address][pml1Entry(v)]
  IN  IF ~ e4.present \/ ~ e3.present \/ ~ e2.present THEN Unmapped
      ELSE IF e2.large THEN Large(e2.address, v)
      ELSE IF e1.present THEN e1.address ELSE Unmapped

Sees(e2, e1, v) ==
  IF ~ e2.present THEN Unmapped
  ELSE IF e2.large THEN Large(e2.address, v)
  ELSE IF e1.present THEN e1.address ELSE Unmapped

LEMMA TranslateIs ==
  ASSUME NEW ts, NEW pl, Placed(ts, pl), NEW r \in DOMAIN ts, pl[r] = Top(r),
         NEW v \in VirtualPages
  PROVE  TranslateIn(ts, r, v) = Sees(Entry2(ts, r, v), Entry1(ts, r, v), v)
<1>1. /\ pml4Entry(v) \in 0 .. TOP - 1 /\ pml3Entry(v) \in 0 .. W - 1
      /\ pml2Entry(v) \in 0 .. W - 1 /\ pml1Entry(v) \in 0 .. W - 1
  BY Entries
<1>2. DOMAIN pl = DOMAIN ts /\ \A x \in DOMAIN ts : x # 0
  <2>1. \A x \in DOMAIN ts : x # 0
    BY Frames
  <2> QED BY <2>1 DEF Placed
<1>3. PICK e4, x, e3, y, e2 :
        /\ e4 = ts[r][pml4Entry(v)] /\ x = Pml3(ts, r, v)
        /\ e3 = ts[e4.address][pml3Entry(v)] /\ y = Pml2(ts, r, v)
        /\ e2 = ts[e3.address][pml2Entry(v)]
  OBVIOUS
<1>4. PICK e1 : e1 = ts[e2.address][pml1Entry(v)]
  OBVIOUS
<1>5. TranslateIn(ts, r, v) =
        IF ~ e4.present \/ ~ e3.present \/ ~ e2.present THEN Unmapped
        ELSE IF e2.large THEN Large(e2.address, v)
        ELSE IF e1.present THEN e1.address ELSE Unmapped
  BY <1>3, <1>4 DEF TranslateIn
<1>6. x = (IF e4.present THEN e4.address ELSE 0) /\ r # 0
  BY <1>2, <1>3 DEF Pml3, Down
<1>7. e4.present => e4.address \in DOMAIN ts /\ e4.address # 0 /\ pl[e4.address] = Third(r, pml4Entry(v))
  <2>1. Leads(e4, pl, Third(r, pml4Entry(v)))
    BY <1>1, <1>3, AtTop DEF TopOK
  <2> QED BY <1>2, <2>1, EmptyIs DEF Leads
<1>8. CASE ~ e4.present
  <2>1. x = 0 /\ y = 0
    BY <1>3, <1>6, <1>8 DEF Pml2, Down
  <2>2. Entry2(ts, r, v) = Empty
    BY <1>3, <2>1 DEF Entry2
  <2> QED BY <1>5, <1>8, <2>2, EmptyIs DEF Sees
<1>9. CASE e4.present
  <2>1. x = e4.address /\ x # 0
    BY <1>6, <1>7, <1>9
  <2>2. y = IF e3.present THEN e3.address ELSE 0
    BY <1>3, <2>1 DEF Pml2, Down
  <2>3. e3.present => e3.address # 0 /\ e3.address \in DOMAIN ts
    <3>1. Leads(e3, pl, Second(r, pml4Entry(v), pml3Entry(v)))
      BY <1>1, <1>3, <1>7, <1>9, AtThird DEF ThirdOK
    <3> QED BY <1>2, <3>1, EmptyIs DEF Leads
  <2>4. CASE ~ e3.present
    <3>1. Entry2(ts, r, v) = Empty
      BY <1>3, <2>2, <2>4 DEF Entry2
    <3> QED BY <1>5, <2>4, <3>1, EmptyIs DEF Sees
  <2>5. CASE e3.present
    <3>1. y # 0 /\ y = e3.address
      BY <2>2, <2>3, <2>5
    <3>2. Entry2(ts, r, v) = e2
      BY <1>3, <3>1 DEF Entry2
    <3>3. LeadsOrMaps(e2, pl, First(r, pml4Entry(v), pml3Entry(v), pml2Entry(v)))
      BY <3>2, Reached
    <3>4. e2.present /\ ~ e2.large => e2.address \in DOMAIN ts
      BY <1>2, <3>3 DEF LeadsOrMaps
    <3>5. e2.present /\ ~ e2.large => Entry1(ts, r, v) = e1
      BY <1>4, <3>2, <3>4 DEF Entry1
    <3> QED BY <1>5, <1>9, <2>5, <3>2, <3>5 DEF Sees
  <2> QED BY <2>4, <2>5
<1> QED BY <1>8, <1>9

LEMMA SameTranslation ==
  ASSUME NEW ts, NEW pl, Placed(ts, pl), NEW ts2, NEW pl2, Placed(ts2, pl2),
         NEW r \in DOMAIN ts, pl[r] = Top(r), r \in DOMAIN ts2, pl2[r] = Top(r),
         NEW v \in VirtualPages, Unchanged(ts, ts2, r, v)
  PROVE  TranslateIn(ts2, r, v) = TranslateIn(ts, r, v)
BY TranslateIs DEF Unchanged

-----------------------------------------------------------------------------
(* The calls that initPaging makes.                                        *)

LEMMA UpTo ==
  ASSUME NEW N \in Nat, NEW S, 0 \in S, \A n \in 0 .. N - 1 : n \in S => n + 1 \in S
  PROVE  \A n \in 0 .. N : n \in S
<1> SUFFICES ASSUME NEW m \in 0 .. N, m \notin S PROVE FALSE
  OBVIOUS
<1> DEFINE Bad == {n \in Nat : n <= N /\ n \notin S}
           R == OpToRel(<, Nat)
<1>1. Bad # {} /\ Bad \subseteq Nat
  OBVIOUS
<1>2. \A x, y \in Nat : x < y => <<x, y>> \in R
  BY DEF OpToRel
<1>3. PICK k \in Bad : \A j \in Bad : ~ (<<j, k>> \in R)
  <2>1. IsWellFoundedOn(R, Nat)
    BY NatLessThanWellFounded
  <2> HIDE DEF Bad, R
  <2> QED BY <1>1, <2>1, WFMin
<1>4. k # 0 /\ k - 1 \in Nat /\ k - 1 < k
  OBVIOUS
<1>5. k - 1 \notin Bad
  BY <1>2, <1>3, <1>4
<1> QED BY <1>4, <1>5

(* The last of some numbers.                                               *)
LEMMA LastOf ==
  ASSUME NEW n \in Nat, NEW S, S \subseteq 1 .. n, S # {}
  PROVE  \E i \in S : \A j \in S : j <= i
<1> DEFINE Below == {k \in Nat : \A j \in S : j <= k => \E i \in S : \A x \in S : x <= k => x <= i}
<1>1. 0 \in Below
  OBVIOUS
<1>2. ASSUME NEW k \in 0 .. n - 1, k \in Below PROVE k + 1 \in Below
  <2>1. CASE k + 1 \in S
    <3>1. \A x \in S : x <= k + 1 => x <= k + 1
      OBVIOUS
    <3> QED BY <2>1, <3>1
  <2>2. CASE k + 1 \notin S
    <3>1. \A x \in S : x <= k + 1 <=> x <= k
      BY <2>2
    <3> QED BY <1>2, <3>1
  <2> QED BY <2>1, <2>2
<1>3. n \in Below
  <2> HIDE DEF Below
  <2>1. \A k \in 0 .. n : k \in Below
    BY <1>1, <1>2, UpTo
  <2> QED BY <2>1
<1>4. PICK j \in S : j <= n
  <2> HIDE DEF Below
  <2>1. \E x : x \in S
    OBVIOUS
  <2>2. \A x \in S : x \in 1 .. n
    OBVIOUS
  <2> QED BY ONLY <2>1, <2>2, n \in Nat
<1>5. PICK i \in S : \A x \in S : x <= n => x <= i
  BY <1>3, <1>4
<1> QED BY <1>5

(* f holds the calls for the first regions of m, up to k of them.          *)
IsRegions(f, m, k) ==
  f = [n \in 0 .. k |-> IF n = 0 THEN <<>> ELSE f[n - 1] \o RegionCalls(m[n])]

CallsOf(m) ==
  LowCalls \o (CHOOSE f : IsRegions(f, m, Len(m)))[Len(m)] \o KernelCalls

LEMMA InitCallsAre == InitCalls = CallsOf(memmap)
BY Zenon DEF InitCalls, CallsOf, IsRegions

LEMMA RegionsExist ==
  ASSUME NEW m, NEW K \in Nat
  PROVE  \E f : IsRegions(f, m, K)
<1> DEFINE S == {k \in Nat : \E f : IsRegions(f, m, k)}
<1>1. 0 \in S
  <2> DEFINE f == [i \in 0 .. 0 |-> <<>>]
  <2>1. IsRegions(f, m, 0)
    BY DEF IsRegions
  <2> QED BY <2>1
<1>2. ASSUME NEW k \in 0 .. K - 1, k \in S PROVE k + 1 \in S
  <2>1. PICK f : IsRegions(f, m, k)
    BY <1>2
  <2> DEFINE g == [i \in 0 .. k + 1 |-> IF i <= k THEN f[i] ELSE f[k] \o RegionCalls(m[k + 1])]
  <2>2. IsRegions(g, m, k + 1)
    BY <2>1 DEF IsRegions
  <2> QED BY <2>2
<1>3. \A k \in 0 .. K : k \in S
  <2> HIDE DEF S
  <2> QED BY <1>1, <1>2, UpTo
<1> QED BY <1>3

(* The three kinds of calls.                                               *)
IsLow(c) ==
  /\ c.large /\ c.physical \in Nat /\ c.physical < LOW /\ c.physical % W = 0
  /\ c.virtual \in {c.physical, c.physical + hhdmOffset}

IsRegion(c, r) ==
  /\ r.base >= LOW /\ c.virtual = c.physical + hhdmOffset
  /\ c.physical \in Nat /\ r.base <= c.physical /\ c.physical < r.base + r.length
  /\ c.large <=> r.length >= W * W
  /\ c.large => \E q \in Nat : c.physical = r.base + W * q

IsKernel(c) ==
  \E n \in 0 .. kernelSize - 1 :
    ~ c.large /\ c.physical = physicalBase + n /\ c.virtual = virtualBase + n

LEMMA PageSizes ==
  ASSUME NEW l \in Nat
  PROVE  /\ requiredSize(l) \in {1, W} /\ requiredSize(l) \in Nat /\ requiredSize(l) > 0
         /\ requiredSize(l) = W <=> l >= W * W
         /\ requiredSize(l) # 1 <=> l >= W * W
BY Sizes DEF requiredSize

(* The number of pages of a size that cover a length.                      *)
LEMMA Covering ==
  ASSUME NEW l \in Nat, NEW s \in Nat, s > 0
  PROVE  /\ (l + s - 1) \div s \in Nat
         /\ \A n \in 1 .. (l + s - 1) \div s : s * (n - 1) \in Nat /\ s * (n - 1) < l
         /\ \A q \in 0 .. l - 1 : (q \div s) + 1 \in 1 .. (l + s - 1) \div s
<1> DEFINE x == l + s - 1
           p == x \div s
<1>1. x \in Nat /\ p \in Nat /\ x % s \in 0 .. s - 1 /\ x = s * p + (x % s)
  BY DivMod
<1>2. PICK z, y : z = s * p /\ z \in Nat /\ y = x % s
  BY <1>1
<1>3. x = z + y /\ y < s /\ y \in Nat
  BY <1>1, <1>2
<1>4. ASSUME NEW n \in 1 .. p PROVE s * (n - 1) \in Nat /\ s * (n - 1) < l
  <2>1. n - 1 \in Nat /\ n - 1 < p
    BY <1>1
  <2>2. s * (n - 1) + s <= s * p /\ s * (n - 1) \in Nat
    BY <1>1, <2>1, Ordered
  <2>3. PICK u : u = s * (n - 1) /\ u \in Nat
    BY <2>2
  <2>4. u + s <= z
    BY <1>2, <2>2, <2>3
  <2>5. u < l
    BY ONLY <1>2, <1>3, <2>3, <2>4, l \in Nat, s \in Nat, s > 0
  <2> QED BY <2>3, <2>5
<1>5. ASSUME NEW q \in 0 .. l - 1 PROVE (q \div s) + 1 \in 1 .. p
  <2>1. PICK d, t \in Nat : d = q \div s /\ q = s * d + t
    BY DivMod
  <2>2. ~ (p <= d)
    <3> SUFFICES ASSUME p <= d PROVE FALSE
      OBVIOUS
    <3>1. s * p <= s * d /\ s * d \in Nat
      BY <1>1
    <3>2. PICK u : u = s * d /\ u \in Nat
      BY <3>1
    <3> QED BY ONLY <1>2, <1>3, <2>1, <3>1, <3>2, q \in 0 .. l - 1, l \in Nat, s \in Nat, s > 0
  <2> QED BY <1>1, <2>1, <2>2
<1> QED BY <1>1, <1>4, <1>5

(* What the constants say of addresses.                                    *)
LEMMA Addresses ==
  /\ LOW \in Nat /\ LOW > 0 /\ LOW % W = 0 /\ LOW <= TopSize /\ LOW <= TABLES
  /\ hhdmOffset \in Nat /\ hhdmOffset % TopSize = 0 /\ hhdmOffset >= TopSize
  /\ hhdmOffset >= HALF * TopSize
  /\ virtualBase \in Nat /\ virtualBase % W = 0 /\ hhdmOffset + LOW <= virtualBase
  /\ physicalBase \in Nat /\ kernelSize \in Nat /\ physicalBase + kernelSize <= TABLES
  /\ \A v \in Nat : v < virtualBase + kernelSize => v \in VirtualPages
  /\ \A v \in Nat : v < virtualBase => v \in VirtualPages
<1>1. HALF * TopSize >= TopSize
  BY Sizes
<1> QED BY <1>1, Sizes, PageTableAssumption DEF PageTableAssumption, VirtualPages

LEMMA Regions ==
  ASSUME NEW m \in MemoryMaps
  PROVE  /\ Len(m) \in Nat /\ DOMAIN m = 1 .. Len(m)
         /\ \A j \in DOMAIN m :
              /\ m[j].base \in Nat /\ m[j].length \in Nat
              /\ m[j].base + m[j].length <= TABLES
              /\ hhdmOffset + m[j].base + m[j].length <= virtualBase
         /\ \A i, j \in DOMAIN m : i < j => m[i].base + m[i].length <= m[j].base
<1>1. IsMemoryMap(m)
  BY PageTableAssumption DEF PageTableAssumption
<1>2. m \in Seq([base : Nat, length : Nat])
  BY <1>1 DEF IsMemoryMap
<1>3. /\ Len(m) \in Nat /\ DOMAIN m = 1 .. Len(m)
      /\ \A j \in DOMAIN m : m[j] \in [base : Nat, length : Nat]
  <2>1. PICK S : S = [base : Nat, length : Nat]
    OBVIOUS
  <2>2. m \in Seq(S)
    BY <1>2, <2>1
  <2>3. Len(m) \in Nat /\ DOMAIN m = 1 .. Len(m)
    BY ONLY <2>2
  <2>4. \A j \in DOMAIN m : m[j] \in S
    BY ONLY <2>2, <2>3
  <2> QED BY <2>1, <2>3, <2>4
<1>4. \A j \in DOMAIN m : m[j].base \in Nat /\ m[j].length \in Nat
  BY <1>3
<1> QED BY <1>1, <1>3, <1>4 DEF IsMemoryMap

(* The pages that a call gives its address.                                *)
Covers(c, p) ==
  IF c.large THEN c.physical <= p /\ p < c.physical + W ELSE c.physical = p

LEMMA RegionCallsAre ==
  ASSUME NEW m \in MemoryMaps, NEW j \in DOMAIN m
  PROVE  /\ RegionCalls(m[j]) \in Seq(Calls)
         /\ \A n \in DOMAIN RegionCalls(m[j]) : IsRegion(RegionCalls(m[j])[n], m[j])
         /\ m[j].base >= LOW => \A p \in Pages(m[j]) :
              \E n \in DOMAIN RegionCalls(m[j]) : Covers(RegionCalls(m[j])[n], p)
<1>1. PICK b, l \in Nat : b = m[j].base /\ l = m[j].length
  BY Regions
<1>2. b + l <= TABLES /\ hhdmOffset + b + l <= virtualBase
  BY <1>1, Regions
<1>3. PICK s : s = requiredSize(l)
  OBVIOUS
<1>4. /\ s \in {1, W} /\ s \in Nat /\ s > 0 /\ (s = W <=> l >= W * W) /\ (s # 1 <=> l >= W * W)
  BY <1>3, PageSizes
<1>5. PICK N : N = (l + s - 1) \div s
  OBVIOUS
<1>6. /\ N \in Nat /\ \A n \in 1 .. N : s * (n - 1) \in Nat /\ s * (n - 1) < l
      /\ \A q \in 0 .. l - 1 : (q \div s) + 1 \in 1 .. N
  BY <1>4, <1>5, Covering
<1>7. CASE b < LOW
  <2>1. RegionCalls(m[j]) = <<>>
    BY <1>1, <1>7 DEF RegionCalls
  <2> QED BY <1>1, <1>7, <2>1, Addresses
<1>8. CASE ~ (b < LOW)
  <2>1. PICK cs : cs = RegionCalls(m[j])
    OBVIOUS
  <2>2. cs = [n \in 1 .. N |-> LET k == b + (n - 1) * s IN Call(k, k + hhdmOffset, s # 1)]
    BY <1>1, <1>3, <1>5, <1>8, <2>1 DEF RegionCalls
  <2>3. ASSUME NEW n \in 1 .. N
        PROVE  /\ cs[n] \in Calls /\ IsRegion(cs[n], m[j])
               /\ cs[n].physical = b + s * (n - 1) /\ (cs[n].large <=> l >= W * W)
    <3>1. (n - 1) * s = s * (n - 1)
      BY <1>4
    <3>2. PICK x : x = s * (n - 1) /\ x \in Nat /\ x < l
      BY <1>6
    <3>3. cs[n] = Call(b + x, (b + x) + hhdmOffset, s # 1)
      BY <2>2, <3>1, <3>2
    <3>4. /\ cs[n].physical = b + x /\ cs[n].virtual = (b + x) + hhdmOffset
          /\ cs[n].large = (s # 1) /\ cs[n].large \in BOOLEAN
      BY <3>3 DEF Call
    <3>5. b + x \in Physical
      BY <1>2, <3>2, Sizes DEF Physical
    <3>6. (b + x) + hhdmOffset \in VirtualPages
      BY <1>2, <3>2, Addresses
    <3>7. cs[n] \in Calls
      BY <3>3, <3>5, <3>6 DEF Call, Calls
    <3>8. cs[n].large <=> l >= W * W
      BY <1>4, <3>4
    <3>9. cs[n].large => \E q \in Nat : cs[n].physical = b + W * q
      <4> HAVE cs[n].large
      <4>1. s = W /\ n - 1 \in Nat
        BY <1>4, <3>8
      <4> QED BY <3>2, <3>4, <4>1
    <3>10. IsRegion(cs[n], m[j])
      BY <1>1, <1>8, <3>2, <3>4, <3>8, <3>9, Addresses DEF IsRegion
    <3> QED BY <3>2, <3>4, <3>7, <3>8, <3>10
  <2>4. cs \in Seq(Calls) /\ DOMAIN cs = 1 .. N
    BY <1>6, <2>2, <2>3
  <2>5. ASSUME NEW p \in Pages(m[j]) PROVE \E n \in 1 .. N : Covers(cs[n], p)
    <3>1. PICK q \in 0 .. l - 1 : p = b + q
      <4>1. p - b \in 0 .. l - 1
        BY <1>1 DEF Pages
      <4> QED BY <4>1, <1>1 DEF Pages
    <3>2. PICK d, t : d = q \div s /\ t = q % s
      OBVIOUS
    <3>3. d \in Nat /\ t \in 0 .. s - 1 /\ q = s * d + t
      BY <1>4, <3>2, DivMod
    <3>4. d + 1 \in 1 .. N /\ (d + 1) - 1 = d
      BY <1>6, <3>2, <3>3
    <3>5. cs[d + 1].physical = b + s * d /\ (cs[d + 1].large <=> l >= W * W)
      BY <2>3, <3>4
    <3>6. PICK x : x = s * d /\ x \in Nat
      BY <1>4, <3>3
    <3>7. Covers(cs[d + 1], p)
      <4>1. CASE l >= W * W
        BY <1>4, <3>1, <3>3, <3>5, <3>6, <4>1, Sizes DEF Covers
      <4>2. CASE ~ (l >= W * W)
        <5>1. s = 1 /\ t = 0
          BY <1>4, <3>3, <4>2
        <5> QED BY <3>1, <3>3, <3>5, <3>6, <4>2, <5>1 DEF Covers
      <4> QED BY <4>1, <4>2
    <3> QED BY <3>4, <3>7
  <2> QED BY <2>1, <2>3, <2>4, <2>5
<1> QED BY <1>7, <1>8

LEMMA LowCallsAre ==
  /\ LowCalls \in Seq(Calls)
  /\ \A n \in DOMAIN LowCalls : IsLow(LowCalls[n])
  /\ \A p \in 0 .. LOW - 1 :
       \E n, k \in DOMAIN LowCalls :
         /\ Covers(LowCalls[n], p) /\ LowCalls[n].virtual = LowCalls[n].physical
         /\ Covers(LowCalls[k], p) /\ LowCalls[k].virtual = LowCalls[k].physical + hhdmOffset
<1>1. PICK D : D = LOW \div W
  OBVIOUS
<1>2. D \in Nat /\ LOW = W * D
  BY <1>1, Sizes, Addresses, DivMod
<1>3. 2 * D \in Nat /\ \A n \in 1 .. 2 * D : (n - 1) \div 2 \in 0 .. D - 1
  BY <1>2
<1>4. ASSUME NEW n \in 1 .. 2 * D
      PROVE  /\ LowCalls[n] \in Calls /\ IsLow(LowCalls[n])
             /\ LowCalls[n].large /\ LowCalls[n].physical = W * ((n - 1) \div 2)
             /\ LowCalls[n].virtual =
                  IF n % 2 = 1 THEN LowCalls[n].physical
                  ELSE LowCalls[n].physical + hhdmOffset
  <2>1. PICK d \in 0 .. D - 1 : d = (n - 1) \div 2
    BY <1>3
  <2>2. PICK x : x = W * d
    OBVIOUS
  <2>3. x \in Nat /\ x < LOW /\ x % W = 0
    <3>1. x + W <= W * D /\ x \in Nat
      BY <1>2, <2>2, Sizes, Ordered
    <3>2. x = W * d + 0 /\ 0 \in 0 .. W - 1
      BY <2>2, <3>1, Sizes
    <3> QED BY <1>2, <3>1, <3>2, Sizes, DivIs
  <2>4. LowCalls[n] = Call(x, IF n % 2 = 1 THEN x ELSE x + hhdmOffset, TRUE)
    <3>1. ((n - 1) \div 2) * W = x
      BY <2>1, <2>2, Sizes
    <3> QED BY <1>1, <3>1 DEF LowCalls
  <2>5. x \in Physical /\ x \in VirtualPages /\ x + hhdmOffset \in VirtualPages
    BY <2>3, Sizes, Addresses DEF Physical
  <2>6. LowCalls[n] \in Calls
    BY <2>4, <2>5 DEF Call, Calls
  <2>7. /\ LowCalls[n].large /\ LowCalls[n].physical = x
        /\ LowCalls[n].virtual = IF n % 2 = 1 THEN x ELSE x + hhdmOffset
    BY <2>4 DEF Call
  <2> QED BY <2>1, <2>2, <2>3, <2>6, <2>7 DEF IsLow
<1>5. DOMAIN LowCalls = 1 .. 2 * D /\ LowCalls \in Seq(Calls)
  <2>1. DOMAIN LowCalls = 1 .. 2 * D /\ LowCalls = [n \in 1 .. 2 * D |-> LowCalls[n]]
    BY <1>1 DEF LowCalls
  <2>2. LowCalls \in [1 .. 2 * D -> Calls]
    BY <1>4, <2>1
  <2> QED BY <1>3, <2>1, <2>2
<1>6. ASSUME NEW p \in 0 .. LOW - 1
      PROVE  \E n, k \in DOMAIN LowCalls :
         /\ Covers(LowCalls[n], p) /\ LowCalls[n].virtual = LowCalls[n].physical
         /\ Covers(LowCalls[k], p) /\ LowCalls[k].virtual = LowCalls[k].physical + hhdmOffset
  <2>1. PICK d, t : d = p \div W /\ t = p % W
    OBVIOUS
  <2>2. d \in Nat /\ t \in 0 .. W - 1 /\ p = W * d + t
    BY <2>1, Sizes, Addresses, DivMod
  <2>3. d < D
    <3> SUFFICES ASSUME ~ (d < D) PROVE FALSE
      OBVIOUS
    <3>1. W * D <= W * d /\ W * d \in Nat
      BY <1>2, <2>2, Sizes
    <3> QED BY <1>2, <2>2, <3>1, Sizes
  <2>4. /\ 2 * d + 1 \in 1 .. 2 * D /\ 2 * d + 2 \in 1 .. 2 * D
        /\ ((2 * d + 1) - 1) \div 2 = d /\ ((2 * d + 2) - 1) \div 2 = d
        /\ (2 * d + 1) % 2 = 1 /\ (2 * d + 2) % 2 = 0
    BY <1>2, <2>2, <2>3
  <2>5. /\ Covers(LowCalls[2 * d + 1], p) /\ Covers(LowCalls[2 * d + 2], p)
    <3>1. /\ LowCalls[2 * d + 1].large /\ LowCalls[2 * d + 1].physical = W * d
          /\ LowCalls[2 * d + 2].large /\ LowCalls[2 * d + 2].physical = W * d
      BY <1>4, <2>4
    <3>2. PICK x : x = W * d /\ x \in Nat
      BY <2>2, Sizes
    <3> QED BY <2>2, <3>1, <3>2, Sizes DEF Covers
  <2>6. /\ LowCalls[2 * d + 1].virtual = LowCalls[2 * d + 1].physical
        /\ LowCalls[2 * d + 2].virtual = LowCalls[2 * d + 2].physical + hhdmOffset
    BY <1>4, <2>4
  <2> QED BY <1>5, <2>4, <2>5, <2>6
<1> QED BY <1>4, <1>5, <1>6

LEMMA KernelCallsAre ==
  /\ KernelCalls \in Seq(Calls)
  /\ \A n \in DOMAIN KernelCalls : IsKernel(KernelCalls[n])
  /\ \A n \in 0 .. kernelSize - 1 : \E k \in DOMAIN KernelCalls :
       ~ KernelCalls[k].large /\ KernelCalls[k].virtual = virtualBase + n
<1>1. ASSUME NEW n \in 1 .. kernelSize
      PROVE  /\ KernelCalls[n] \in Calls /\ IsKernel(KernelCalls[n])
             /\ ~ KernelCalls[n].large /\ KernelCalls[n].virtual = virtualBase + (n - 1)
  <2>1. n - 1 \in 0 .. kernelSize - 1
    BY Addresses
  <2>2. KernelCalls[n] = Call(physicalBase + (n - 1), virtualBase + (n - 1), FALSE)
    <3>1. physicalBase + n - 1 = physicalBase + (n - 1) /\ virtualBase + n - 1 = virtualBase + (n - 1)
      BY Addresses
    <3> QED BY <3>1 DEF KernelCalls
  <2>3. /\ ~ KernelCalls[n].large /\ KernelCalls[n].physical = physicalBase + (n - 1)
        /\ KernelCalls[n].virtual = virtualBase + (n - 1)
    BY <2>2 DEF Call
  <2>4. physicalBase + (n - 1) \in Physical /\ virtualBase + (n - 1) \in VirtualPages
    BY <2>1, Sizes, Addresses DEF Physical
  <2>5. KernelCalls[n] \in Calls
    BY <2>2, <2>4 DEF Call, Calls
  <2> QED BY <2>1, <2>3, <2>5 DEF IsKernel
<1>2. DOMAIN KernelCalls = 1 .. kernelSize /\ KernelCalls \in Seq(Calls)
  <2>1. /\ DOMAIN KernelCalls = 1 .. kernelSize
        /\ KernelCalls = [n \in 1 .. kernelSize |-> KernelCalls[n]]
    BY DEF KernelCalls
  <2>2. KernelCalls \in [1 .. kernelSize -> Calls]
    BY <1>1, <2>1
  <2> QED BY <2>1, <2>2, Addresses
<1>3. ASSUME NEW n \in 0 .. kernelSize - 1
      PROVE  \E k \in DOMAIN KernelCalls :
               ~ KernelCalls[k].large /\ KernelCalls[k].virtual = virtualBase + n
  <2>1. n + 1 \in 1 .. kernelSize /\ (n + 1) - 1 = n
    BY Addresses
  <2> QED BY <1>1, <1>2, <2>1
<1> QED BY <1>1, <1>2, <1>3

(* u is s and then t.                                                      *)
Joined(u, s, t, S) ==
  /\ u \in Seq(S)
  /\ \A i \in DOMAIN u : (\E j \in DOMAIN s : u[i] = s[j]) \/ (\E j \in DOMAIN t : u[i] = t[j])
  /\ \A j \in DOMAIN s : \E i \in DOMAIN u : u[i] = s[j]
  /\ \A j \in DOMAIN t : \E i \in DOMAIN u : u[i] = t[j]

LEMMA Concatenation ==
  ASSUME NEW S, NEW s \in Seq(S), NEW t \in Seq(S)
  PROVE  Joined(s \o t, s, t, S)
<1>1. PICK u : u = s \o t
  OBVIOUS
<1>2. /\ u \in Seq(S) /\ DOMAIN s = 1 .. Len(s) /\ DOMAIN t = 1 .. Len(t)
      /\ Len(s) \in Nat /\ Len(t) \in Nat /\ DOMAIN u = 1 .. Len(s) + Len(t)
      /\ \A i \in 1 .. Len(s) : u[i] = s[i]
      /\ \A i \in Len(s) + 1 .. Len(s) + Len(t) : u[i] = t[i - Len(s)]
  BY <1>1
<1>3. ASSUME NEW i \in DOMAIN u
      PROVE  (\E j \in DOMAIN s : u[i] = s[j]) \/ (\E j \in DOMAIN t : u[i] = t[j])
  <2>1. CASE i <= Len(s)
    <3>1. i \in DOMAIN s /\ u[i] = s[i]
      BY <1>2, <2>1
    <3> QED BY <3>1
  <2>2. CASE ~ (i <= Len(s))
    <3>1. i - Len(s) \in DOMAIN t /\ u[i] = t[i - Len(s)]
      BY <1>2, <2>2
    <3> QED BY <3>1
  <2> QED BY <2>1, <2>2
<1>4. ASSUME NEW j \in DOMAIN s PROVE \E i \in DOMAIN u : u[i] = s[j]
  <2>1. j \in DOMAIN u /\ u[j] = s[j]
    BY <1>2
  <2> QED BY <2>1
<1>5. ASSUME NEW j \in DOMAIN t PROVE \E i \in DOMAIN u : u[i] = t[j]
  <2>1. Len(s) + j \in DOMAIN u /\ u[Len(s) + j] = t[j]
    BY <1>2
  <2> QED BY <2>1
<1> QED BY <1>1, <1>2, <1>3, <1>4, <1>5 DEF Joined

(* s holds calls for the first k regions of m, and all of them.            *)
Serves(s, m, k) ==
  /\ s \in Seq(Calls)
  /\ \A i \in DOMAIN s : \E j \in DOMAIN m : IsRegion(s[i], m[j])
  /\ \A j \in 1 .. k : \A n \in DOMAIN RegionCalls(m[j]) :
       \E i \in DOMAIN s : s[i] = RegionCalls(m[j])[n]

LEMMA RegionSequence ==
  ASSUME NEW m \in MemoryMaps, NEW f, IsRegions(f, m, Len(m))
  PROVE  Serves(f[Len(m)], m, Len(m))
<1> DEFINE S == {k \in Nat : Serves(f[k], m, k)}
<1>1. Len(m) \in Nat /\ DOMAIN m = 1 .. Len(m)
  BY Regions
<1>2. /\ f[0] = <<>>
      /\ \A k \in 0 .. Len(m) - 1 : f[k + 1] = f[k] \o RegionCalls(m[k + 1])
  BY <1>1 DEF IsRegions
<1>3. 0 \in S
  <2>1. <<>> \in Seq(Calls) /\ DOMAIN <<>> = {}
    OBVIOUS
  <2>2. Serves(<<>>, m, 0)
    BY <2>1 DEF Serves
  <2> QED BY <1>2, <2>2
<1>4. ASSUME NEW k \in 0 .. Len(m) - 1, k \in S PROVE k + 1 \in S
  <2>1. PICK s, t : s = f[k] /\ t = RegionCalls(m[k + 1])
    OBVIOUS
  <2>2. k + 1 \in DOMAIN m
    BY <1>1
  <2>3. t \in Seq(Calls) /\ \A n \in DOMAIN t : IsRegion(t[n], m[k + 1])
    BY <2>1, <2>2, RegionCallsAre
  <2>4. Serves(s, m, k)
    BY <1>4, <2>1
  <2>5. s \in Seq(Calls)
    BY <2>4 DEF Serves
  <2>6. PICK u : u = s \o t
    OBVIOUS
  <2>7. /\ u \in Seq(Calls)
        /\ \A i \in DOMAIN u :
             (\E j \in DOMAIN s : u[i] = s[j]) \/ (\E j \in DOMAIN t : u[i] = t[j])
        /\ \A j \in DOMAIN s : \E i \in DOMAIN u : u[i] = s[j]
        /\ \A j \in DOMAIN t : \E i \in DOMAIN u : u[i] = t[j]
    <3>1. Joined(u, s, t, Calls)
      BY <2>3, <2>5, <2>6, Concatenation
    <3> QED BY ONLY <3>1 DEF Joined
  <2>8. \A i \in DOMAIN u : \E j \in DOMAIN m : IsRegion(u[i], m[j])
    <3> TAKE i \in DOMAIN u
    <3>1. CASE \E j \in DOMAIN s : u[i] = s[j]
      BY <2>4, <3>1 DEF Serves
    <3>2. CASE \E j \in DOMAIN t : u[i] = t[j]
      BY <2>2, <2>3, <3>2
    <3> QED BY <2>7, <3>1, <3>2
  <2>9. ASSUME NEW j \in 1 .. k + 1, NEW n \in DOMAIN RegionCalls(m[j])
        PROVE  \E i \in DOMAIN u : u[i] = RegionCalls(m[j])[n]
    <3>1. CASE j = k + 1
      BY <2>1, <2>7, <2>9, <3>1
    <3>2. CASE j # k + 1
      <4>1. j \in 1 .. k
        BY <3>2
      <4>2. PICK i \in DOMAIN s : s[i] = RegionCalls(m[j])[n]
        BY <2>4, <2>9, <4>1 DEF Serves
      <4> QED BY <2>7, <4>2
    <3> QED BY <3>1, <3>2
  <2>10. Serves(u, m, k + 1)
    BY <2>7, <2>8, <2>9 DEF Serves
  <2>11. f[k + 1] = u /\ k + 1 \in Nat
    <3>1. f[k + 1] = f[k] \o RegionCalls(m[k + 1])
      BY <1>2
    <3>2. k + 1 \in Nat
      BY <1>1
    <3> QED BY ONLY <2>1, <2>6, <3>1, <3>2
  <2> QED BY <2>10, <2>11
<1>5. \A k \in 0 .. Len(m) : k \in S
  <2> HIDE DEF S
  <2> QED BY <1>1, <1>3, <1>4, UpTo
<1> QED BY <1>1, <1>5

IsCall(c, m) == IsLow(c) \/ (\E j \in DOMAIN m : IsRegion(c, m[j])) \/ IsKernel(c)

LEMMA CallsAre ==
  ASSUME NEW m \in MemoryMaps, NEW cs, cs = CallsOf(m)
  PROVE  /\ cs \in Seq(Calls) /\ Len(cs) \in Nat /\ DOMAIN cs = 1 .. Len(cs)
         /\ \A i \in DOMAIN cs : cs[i] \in Calls /\ IsCall(cs[i], m)
         /\ \A p \in 0 .. LOW - 1 : \E i, k \in DOMAIN cs :
              /\ cs[i].large /\ Covers(cs[i], p) /\ cs[i].virtual = cs[i].physical
              /\ cs[k].large /\ Covers(cs[k], p)
              /\ cs[k].virtual = cs[k].physical + hhdmOffset
         /\ \A j \in DOMAIN m : m[j].base >= LOW => \A p \in Pages(m[j]) :
              \E i \in DOMAIN cs : Covers(cs[i], p) /\ IsRegion(cs[i], m[j])
         /\ \A n \in 0 .. kernelSize - 1 : \E i \in DOMAIN cs :
              ~ cs[i].large /\ cs[i].virtual = virtualBase + n
<1>1. PICK s : s = (CHOOSE f : IsRegions(f, m, Len(m)))[Len(m)]
  OBVIOUS
<1>2. Serves(s, m, Len(m))
  <2>1. \E f : IsRegions(f, m, Len(m))
    BY Regions, RegionsExist
  <2>2. IsRegions(CHOOSE f : IsRegions(f, m, Len(m)), m, Len(m))
    BY <2>1, Zenon
  <2> QED BY <1>1, <2>2, RegionSequence
<1>3. PICK t : t = LowCalls \o s
  OBVIOUS
<1>4. cs = t \o KernelCalls
  BY <1>1, <1>3, Zenon DEF CallsOf
<1>5. s \in Seq(Calls)
  BY <1>2 DEF Serves
<1>6. /\ t \in Seq(Calls)
      /\ \A i \in DOMAIN t :
           (\E j \in DOMAIN LowCalls : t[i] = LowCalls[j]) \/ (\E j \in DOMAIN s : t[i] = s[j])
      /\ \A j \in DOMAIN LowCalls : \E i \in DOMAIN t : t[i] = LowCalls[j]
      /\ \A j \in DOMAIN s : \E i \in DOMAIN t : t[i] = s[j]
  <2>1. LowCalls \in Seq(Calls)
    BY LowCallsAre
  <2>2. Joined(t, LowCalls, s, Calls)
    BY <1>3, <1>5, <2>1, Concatenation
  <2> QED BY ONLY <2>2 DEF Joined
<1>7. /\ cs \in Seq(Calls)
      /\ \A i \in DOMAIN cs :
           (\E j \in DOMAIN t : cs[i] = t[j]) \/ (\E j \in DOMAIN KernelCalls : cs[i] = KernelCalls[j])
      /\ \A j \in DOMAIN t : \E i \in DOMAIN cs : cs[i] = t[j]
      /\ \A j \in DOMAIN KernelCalls : \E i \in DOMAIN cs : cs[i] = KernelCalls[j]
  <2>1. KernelCalls \in Seq(Calls)
    BY KernelCallsAre
  <2>2. Joined(cs, t, KernelCalls, Calls)
    BY <1>4, <1>6, <2>1, Concatenation
  <2> QED BY ONLY <2>2 DEF Joined
<1>8. Len(cs) \in Nat /\ DOMAIN cs = 1 .. Len(cs) /\ \A i \in DOMAIN cs : cs[i] \in Calls
  BY ONLY <1>7
<1>9. \A i \in DOMAIN cs : IsCall(cs[i], m)
  <2> TAKE i \in DOMAIN cs
  <2>1. ASSUME NEW j \in DOMAIN t PROVE IsCall(t[j], m)
    <3>1. CASE \E k \in DOMAIN LowCalls : t[j] = LowCalls[k]
      BY <3>1, LowCallsAre DEF IsCall
    <3>2. CASE \E k \in DOMAIN s : t[j] = s[k]
      BY <1>2, <3>2 DEF IsCall, Serves
    <3> QED BY <1>6, <3>1, <3>2
  <2>2. CASE \E j \in DOMAIN t : cs[i] = t[j]
    BY <2>1, <2>2
  <2>3. CASE \E j \in DOMAIN KernelCalls : cs[i] = KernelCalls[j]
    BY <2>3, KernelCallsAre DEF IsCall
  <2> QED BY <1>7, <2>2, <2>3
<1>10. \A j \in DOMAIN LowCalls : \E i \in DOMAIN cs : cs[i] = LowCalls[j]
  BY <1>6, <1>7
<1>11. \A j \in DOMAIN s : \E i \in DOMAIN cs : cs[i] = s[j]
  BY <1>6, <1>7
<1>12. ASSUME NEW p \in 0 .. LOW - 1
       PROVE  \E i, k \in DOMAIN cs :
              /\ cs[i].large /\ Covers(cs[i], p) /\ cs[i].virtual = cs[i].physical
              /\ cs[k].large /\ Covers(cs[k], p)
              /\ cs[k].virtual = cs[k].physical + hhdmOffset
  <2>1. PICK n, q \in DOMAIN LowCalls :
         /\ Covers(LowCalls[n], p) /\ LowCalls[n].virtual = LowCalls[n].physical
         /\ Covers(LowCalls[q], p) /\ LowCalls[q].virtual = LowCalls[q].physical + hhdmOffset
    BY LowCallsAre
  <2>2. LowCalls[n].large /\ LowCalls[q].large
    BY LowCallsAre DEF IsLow
  <2>3. PICK i \in DOMAIN cs : cs[i] = LowCalls[n]
    BY <1>10
  <2>4. PICK k \in DOMAIN cs : cs[k] = LowCalls[q]
    BY <1>10
  <2> QED BY <2>1, <2>2, <2>3, <2>4
<1>13. ASSUME NEW j \in DOMAIN m, m[j].base >= LOW, NEW p \in Pages(m[j])
       PROVE  \E i \in DOMAIN cs : Covers(cs[i], p) /\ IsRegion(cs[i], m[j])
  <2>1. PICK n \in DOMAIN RegionCalls(m[j]) : Covers(RegionCalls(m[j])[n], p)
    BY <1>13, RegionCallsAre
  <2>2. IsRegion(RegionCalls(m[j])[n], m[j])
    BY RegionCallsAre
  <2>3. j \in 1 .. Len(m)
    BY Regions
  <2>4. PICK k \in DOMAIN s : s[k] = RegionCalls(m[j])[n]
    BY <1>2, <2>3 DEF Serves
  <2>5. PICK i \in DOMAIN cs : cs[i] = s[k]
    BY <1>11
  <2> QED BY <2>1, <2>2, <2>4, <2>5
<1>14. ASSUME NEW n \in 0 .. kernelSize - 1
       PROVE  \E i \in DOMAIN cs : ~ cs[i].large /\ cs[i].virtual = virtualBase + n
  <2>1. PICK k \in DOMAIN KernelCalls :
          ~ KernelCalls[k].large /\ KernelCalls[k].virtual = virtualBase + n
    BY KernelCallsAre
  <2>2. PICK i \in DOMAIN cs : cs[i] = KernelCalls[k]
    BY <1>7
  <2> QED BY <2>1, <2>2
<1> QED BY <1>7, <1>8, <1>9, <1>12, <1>13, <1>14

-----------------------------------------------------------------------------
(* Where the calls lie.                                                    *)

LEMMA Shift ==
  ASSUME NEW x \in Nat, NEW k \in Nat
  PROVE  Chunk(x + W * k) = Chunk(x) + k /\ (x + W * k) % W = x % W /\ W * k \in Nat
<1>1. PICK q, r : q = x \div W /\ r = x % W
  OBVIOUS
<1>2. q \in Nat /\ r \in 0 .. W - 1 /\ x = W * q + r
  BY <1>1, Sizes, DivMod
<1>3. PICK y, z, u : y = W * q /\ z = W * k /\ u = W * (q + k)
  OBVIOUS
<1>4. y \in Nat /\ z \in Nat /\ u \in Nat /\ u = y + z
  <2>1. W * (q + k) = W * q + W * k
    BY <1>2, Sizes
  <2>2. W * q \in Nat /\ W * k \in Nat
    BY <1>2, Sizes
  <2> QED BY <1>3, <2>1, <2>2
<1>5. x + z = u + r
  BY ONLY <1>2, <1>3, <1>4
<1>6. (u + r) \div W = q + k /\ (u + r) % W = r
  BY <1>2, <1>3, Sizes, DivIs
<1> QED BY <1>1, <1>3, <1>4, <1>5, <1>6 DEF Chunk

LEMMA Monotone ==
  ASSUME NEW x \in Nat, NEW y \in Nat, x <= y
  PROVE  Chunk(x) <= Chunk(y) /\ Chunk(x) \in Nat /\ Chunk(y) \in Nat
<1>1. PICK p, q : p = Chunk(x) /\ q = Chunk(y)
  OBVIOUS
<1>2. /\ p \in Nat /\ q \in Nat /\ x % W \in 0 .. W - 1 /\ y % W \in 0 .. W - 1
      /\ x = W * p + (x % W) /\ y = W * q + (y % W)
  BY <1>1, Sizes, DivMod DEF Chunk
<1>3. p <= q
  <2> SUFFICES ASSUME ~ (p <= q) PROVE FALSE
    OBVIOUS
  <2>1. W * q + W <= W * p /\ W * q \in Nat /\ W * p \in Nat
    BY <1>2, Sizes, Ordered
  <2>2. PICK i, j, k, l : i = W * p /\ j = W * q /\ k = x % W /\ l = y % W
    OBVIOUS
  <2> QED BY ONLY <1>2, <2>1, <2>2, x <= y, Sizes
<1> QED BY <1>1, <1>2, <1>3

(* Multiples of W.                                                         *)
LEMMA Whole ==
  ASSUME NEW x \in Nat
  PROVE  /\ x % W = 0 <=> x = W * Chunk(x)
         /\ x < W * Chunk(x) + W /\ W * Chunk(x) <= x /\ W * Chunk(x) \in Nat
         /\ x = W * Chunk(x) + (x % W) /\ x % W \in 0 .. W - 1
<1>1. PICK q, r, s : q = x \div W /\ r = x % W /\ s = W * q
  OBVIOUS
<1>2. q \in Nat /\ r \in 0 .. W - 1 /\ x = s + r /\ s \in Nat
  BY <1>1, Sizes, DivMod
<1> QED BY <1>1, <1>2, Sizes DEF Chunk

LEMMA ChunkOfMultiple ==
  ASSUME NEW d \in Nat
  PROVE  W * d \in Nat /\ Chunk(W * d) = d /\ (W * d) % W = 0
<1>1. W * d \in Nat /\ W * d + 0 = W * d /\ 0 \in 0 .. W - 1
  BY Sizes
<1> QED BY <1>1, Sizes, DivIs DEF Chunk

LEMMA Bases ==
  /\ hhdmOffset = W * Chunk(hhdmOffset) /\ LOW = W * Chunk(LOW)
  /\ virtualBase = W * Chunk(virtualBase)
  /\ Chunk(hhdmOffset) \in Nat /\ Chunk(LOW) \in Nat /\ Chunk(virtualBase) \in Nat
  /\ Chunk(LOW) > 0 /\ Chunk(LOW) <= Chunk(hhdmOffset)
  /\ Chunk(hhdmOffset) + Chunk(LOW) <= Chunk(virtualBase)
<1>1. LOW = W * Chunk(LOW) /\ virtualBase = W * Chunk(virtualBase)
  BY Addresses, Whole
<1>2. hhdmOffset = W * Chunk(hhdmOffset)
  <2>1. PICK q \in Nat : hhdmOffset = TopSize * q
    <3>1. hhdmOffset = TopSize * (hhdmOffset \div TopSize) + (hhdmOffset % TopSize)
      BY Sizes, Addresses, DivMod
    <3>2. hhdmOffset \div TopSize \in Nat /\ TopSize * (hhdmOffset \div TopSize) \in Nat
      BY Sizes, Addresses, DivMod
    <3> QED BY <3>1, <3>2, Addresses
  <2>2. PICK k : k = W * W
    OBVIOUS
  <2>3. k \in Nat /\ TopSize = k * W
    BY <2>2, Sizes DEF TopSize
  <2>4. (k * W) * q = W * (k * q) /\ k * q \in Nat
    BY <2>3, Sizes
  <2>5. hhdmOffset = W * (k * q)
    BY <2>1, <2>3, <2>4
  <2>6. hhdmOffset % W = 0
    BY <2>4, <2>5, ChunkOfMultiple
  <2> QED BY <2>6, Addresses, Whole
<1>3. Chunk(LOW) <= Chunk(hhdmOffset) /\ Chunk(LOW) \in Nat /\ Chunk(hhdmOffset) \in Nat
  <2>1. LOW <= hhdmOffset
    BY Sizes, Addresses
  <2> QED BY <2>1, Addresses, Monotone
<1>4. Chunk(LOW) > 0
  BY <1>1, <1>3, Sizes, Addresses
<1>5. Chunk(hhdmOffset) + Chunk(LOW) <= Chunk(virtualBase) /\ Chunk(virtualBase) \in Nat
  <2>1. Chunk(LOW + W * Chunk(hhdmOffset)) = Chunk(LOW) + Chunk(hhdmOffset)
    BY <1>3, Addresses, Shift
  <2>2. Chunk(LOW + hhdmOffset) <= Chunk(virtualBase) /\ Chunk(virtualBase) \in Nat
    BY Addresses, Monotone
  <2>3. LOW + hhdmOffset = LOW + W * Chunk(hhdmOffset)
    BY <1>2
  <2> QED BY <2>1, <2>2, <2>3, <1>3
<1> QED BY <1>1, <1>2, <1>3, <1>4, <1>5

(* Pages and their chunks before and after LOW and virtualBase.            *)
LEMMA Sides ==
  ASSUME NEW x \in Nat
  PROVE  /\ Chunk(x) \in Nat
         /\ x < LOW <=> Chunk(x) < Chunk(LOW)
         /\ x < virtualBase <=> Chunk(x) < Chunk(virtualBase)
         /\ Chunk(x + hhdmOffset) = Chunk(x) + Chunk(hhdmOffset)
         /\ (x + hhdmOffset) % W = x % W
<1>1. Chunk(x) \in Nat
  BY Monotone
<1>2. ASSUME NEW d \in Nat PROVE x < W * d <=> Chunk(x) < d
  <2>1. PICK y, u : y = W * d /\ y \in Nat /\ u = W * Chunk(x) /\ u \in Nat
    BY <1>1, Sizes
  <2>2. u <= x /\ x < u + W
    BY <2>1, Whole
  <2>3. Chunk(x) < d => u + W <= y
    BY <1>1, <2>1, Sizes, Ordered
  <2>4. ~ (Chunk(x) < d) => y <= u
    <3> HAVE ~ (Chunk(x) < d)
    <3>1. W * d <= W * Chunk(x)
      BY <1>1, Sizes
    <3> QED BY <2>1, <3>1
  <2>5. x < y <=> Chunk(x) < d
    BY ONLY <2>1, <2>2, <2>3, <2>4, x \in Nat, Sizes
  <2> QED BY <2>1, <2>5
<1>3. x < LOW <=> Chunk(x) < Chunk(LOW)
  BY <1>2, Bases
<1>4. x < virtualBase <=> Chunk(x) < Chunk(virtualBase)
  BY <1>2, Bases
<1>5. /\ Chunk(x + W * Chunk(hhdmOffset)) = Chunk(x) + Chunk(hhdmOffset)
      /\ (x + W * Chunk(hhdmOffset)) % W = x % W
  BY Bases, Shift
<1> QED BY <1>1, <1>3, <1>4, <1>5, Bases

LEMMA Before ==
  ASSUME NEW x \in Nat, NEW y \in Nat, y % W = 0
  PROVE  x < y <=> Chunk(x) < Chunk(y)
<1>1. Chunk(x) \in Nat /\ Chunk(y) \in Nat
  BY Monotone
<1>2. W * Chunk(x) <= x /\ x < W * Chunk(x) + W /\ W * Chunk(x) \in Nat /\ y = W * Chunk(y)
  BY Whole
<1>3. CASE Chunk(x) < Chunk(y)
  <2>1. W * Chunk(x) + W <= W * Chunk(y)
    BY <1>1, <1>3, Sizes, Ordered
  <2>2. PICK u : u = W * Chunk(x)
    OBVIOUS
  <2> QED BY ONLY <1>2, <1>3, <2>1, <2>2, x \in Nat, y \in Nat, Sizes
<1>4. CASE ~ (Chunk(x) < Chunk(y))
  <2>1. ~ (x < y)
    <3> SUFFICES ASSUME x < y PROVE FALSE
      OBVIOUS
    <3>1. Chunk(x) = Chunk(y)
      BY <1>1, <1>4, Monotone
    <3> QED BY <1>2, <3>1
  <2> QED BY <1>4, <2>1
<1> QED BY <1>3, <1>4

LEMMA LowIs ==
  ASSUME NEW c \in Calls, IsLow(c)
  PROVE  /\ c.large /\ Chunk(c.physical) \in Nat /\ Chunk(c.physical) < Chunk(LOW)
         /\ c.physical = W * Chunk(c.physical)
         /\ Chunk(c.virtual) \in {Chunk(c.physical), Chunk(c.physical) + Chunk(hhdmOffset)}
<1>1. c.physical \in Nat /\ c.physical < LOW /\ c.physical % W = 0 /\ c.large
  BY DEF IsLow
<1>2. c.physical = W * Chunk(c.physical)
  BY <1>1, Whole
<1>3. /\ Chunk(c.physical) \in Nat /\ Chunk(c.physical) < Chunk(LOW)
      /\ Chunk(c.physical + hhdmOffset) = Chunk(c.physical) + Chunk(hhdmOffset)
  BY <1>1, Sides
<1> QED BY <1>1, <1>2, <1>3 DEF IsLow

LEMMA RegionIs ==
  ASSUME NEW m \in MemoryMaps, NEW j \in DOMAIN m, NEW c \in Calls, IsRegion(c, m[j])
  PROVE  /\ c.large <=> m[j].length >= W * W
         /\ c.virtual = c.physical + hhdmOffset /\ c.virtual < virtualBase
         /\ c.physical \in Nat /\ c.physical \in Pages(m[j]) /\ m[j].base >= LOW
         /\ Chunk(c.physical) \in Nat /\ Chunk(c.physical) >= Chunk(LOW)
         /\ Chunk(c.virtual) = Chunk(c.physical) + Chunk(hhdmOffset)
         /\ Chunk(c.virtual) < Chunk(virtualBase)
         /\ c.large /\ m[j].base % W = 0 => c.physical = W * Chunk(c.physical)
<1>1. PICK b, l, x : b = m[j].base /\ l = m[j].length /\ x = c.physical
  OBVIOUS
<1>2. /\ b \in Nat /\ l \in Nat /\ x \in Nat /\ b >= LOW /\ b <= x /\ x < b + l
      /\ c.virtual = x + hhdmOffset /\ (c.large <=> l >= W * W)
      /\ hhdmOffset + b + l <= virtualBase
      /\ c.large => \E q \in Nat : x = b + W * q
  BY <1>1, Regions DEF IsRegion
<1>3. c.virtual < virtualBase /\ c.virtual \in Nat /\ ~ (x < LOW) /\ x \in b .. b + l - 1
  BY <1>2, Addresses
<1>4. /\ Chunk(x) \in Nat /\ ~ (Chunk(x) < Chunk(LOW))
      /\ Chunk(c.virtual) = Chunk(x) + Chunk(hhdmOffset)
      /\ Chunk(c.virtual) < Chunk(virtualBase)
  BY <1>2, <1>3, Sides
<1>5. c.large /\ b % W = 0 => x = W * Chunk(x)
  <2> HAVE c.large /\ b % W = 0
  <2>1. PICK q \in Nat : x = b + W * q
    BY <1>2
  <2>2. x % W = 0
    BY <1>2, <2>1, Shift
  <2> QED BY <1>2, <2>2, Whole
<1> QED BY <1>1, <1>2, <1>3, <1>4, <1>5, Bases DEF Pages

LEMMA KernelIs ==
  ASSUME NEW c \in Calls, IsKernel(c)
  PROVE  /\ ~ c.large /\ c.virtual \in Nat /\ c.virtual >= virtualBase
         /\ Chunk(c.virtual) \in Nat /\ Chunk(c.virtual) >= Chunk(virtualBase)
         /\ c.physical = physicalBase + (c.virtual - virtualBase)
<1>1. PICK n \in 0 .. kernelSize - 1 :
        ~ c.large /\ c.physical = physicalBase + n /\ c.virtual = virtualBase + n
  BY DEF IsKernel
<1>2. /\ c.virtual \in Nat /\ c.virtual >= virtualBase /\ ~ (c.virtual < virtualBase)
      /\ c.physical = physicalBase + (c.virtual - virtualBase)
  BY <1>1, Addresses
<1>3. Chunk(c.virtual) \in Nat /\ ~ (Chunk(c.virtual) < Chunk(virtualBase))
  BY <1>2, Sides
<1> QED BY <1>1, <1>2, <1>3, Bases

(* No small page is mapped where a large one has address 0: map would take *)
(* the entry for an empty one.                                             *)
LEMMA NotAtZero ==
  ASSUME NEW m \in MemoryMaps, NEW c \in Calls, NEW d \in Calls, IsCall(c, m), IsCall(d, m),
         c.large, ~ d.large, Chunk(c.virtual) = Chunk(d.virtual)
  PROVE  c.physical # 0
<1> SUFFICES ASSUME c.physical = 0 PROVE FALSE
  OBVIOUS
<1>1. ~ IsKernel(c)
  BY KernelIs
<1>2. ASSUME NEW j \in DOMAIN m, IsRegion(c, m[j]) PROVE FALSE
  BY <1>2, Addresses, Regions DEF IsRegion
<1>3. IsLow(c)
  BY <1>1, <1>2 DEF IsCall
<1>4. Chunk(c.virtual) < Chunk(LOW) + Chunk(hhdmOffset)
  BY <1>3, LowIs, Bases
<1>5. ~ IsLow(d)
  BY LowIs
<1>6. ASSUME NEW j \in DOMAIN m, IsRegion(d, m[j]) PROVE FALSE
  BY <1>4, <1>6, RegionIs, Bases
<1>7. ~ IsKernel(d)
  BY <1>4, KernelIs, Bases
<1> QED BY <1>5, <1>6, <1>7 DEF IsCall

(* Regular, of any memory map.                                             *)
RegularMap(m) ==
  \A i \in DOMAIN m : m[i].base >= LOW /\ m[i].length >= W * W =>
    LET end == m[i].base + m[i].length
    IN  /\ m[i].base % W = 0
        /\ \A j \in DOMAIN m : \A p \in Pages(m[j]) : p >= end => p \div W # (end - 1) \div W

LEMMA RegularIs == Regular <=> RegularMap(memmap)
BY DEF Regular, RegularMap

(* A large page and a small one never meet.                                *)
LEMMA Apart ==
  ASSUME NEW m \in MemoryMaps, RegularMap(m), NEW c \in Calls, NEW d \in Calls,
         IsCall(c, m), IsCall(d, m), c.large, ~ d.large
  PROVE  Chunk(c.virtual) # Chunk(d.virtual)
<1> SUFFICES ASSUME Chunk(c.virtual) = Chunk(d.virtual) PROVE FALSE
  OBVIOUS
<1>1. ~ IsLow(d) /\ ~ IsKernel(c)
  BY LowIs, KernelIs
<1>2. CASE IsLow(c)
  <2>1. Chunk(c.virtual) < Chunk(LOW) + Chunk(hhdmOffset)
    BY <1>2, LowIs, Bases
  <2>2. ASSUME NEW j \in DOMAIN m, IsRegion(d, m[j]) PROVE FALSE
    BY <2>1, <2>2, RegionIs, Bases
  <2>3. ~ IsKernel(d)
    BY <2>1, KernelIs, Bases
  <2> QED BY <1>1, <2>2, <2>3 DEF IsCall
<1>3. ASSUME NEW i \in DOMAIN m, IsRegion(c, m[i]) PROVE FALSE
  <2>1. ~ IsKernel(d)
    BY <1>3, RegionIs, KernelIs, Bases
  <2>2. PICK j \in DOMAIN m : IsRegion(d, m[j])
    BY <1>1, <2>1 DEF IsCall
  <2>3. PICK x, y : x = c.physical /\ y = d.physical
    OBVIOUS
  <2>4. /\ x \in Nat /\ y \in Nat /\ x \in Pages(m[i]) /\ y \in Pages(m[j])
        /\ m[i].base >= LOW /\ m[i].length >= W * W /\ ~ (m[j].length >= W * W)
    BY <1>3, <2>2, <2>3, RegionIs
  <2>5. Chunk(x) = Chunk(y)
    BY <1>3, <2>2, <2>3, RegionIs, Bases
  <2>6. PICK b, l, b2, l2 \in Nat :
          b = m[i].base /\ l = m[i].length /\ b2 = m[j].base /\ l2 = m[j].length
    BY Regions
  <2>7. /\ b % W = 0
        /\ \A p \in Pages(m[j]) : p >= b + l => p \div W # ((b + l) - 1) \div W
    BY <2>4, <2>6 DEF RegularMap
  <2>8. x >= b /\ x < b + l /\ y >= b2 /\ y < b2 + l2
    BY <2>4, <2>6 DEF Pages
  <2>9. i \in Nat /\ j \in Nat /\ i # j
    BY <2>4, Regions
  <2>10. CASE i < j
    <3>1. b + l <= b2
      BY <2>6, <2>10, Regions
    <3>2. y >= b + l /\ (b + l) - 1 \in Nat /\ x <= (b + l) - 1 /\ (b + l) - 1 <= y
      BY <2>4, <2>6, <2>8, <3>1
    <3>3. /\ Chunk(x) <= Chunk((b + l) - 1) /\ Chunk((b + l) - 1) <= Chunk(y)
          /\ Chunk(x) \in Nat /\ Chunk(y) \in Nat /\ Chunk((b + l) - 1) \in Nat
      BY <2>4, <3>2, Monotone
    <3>4. Chunk(y) # Chunk((b + l) - 1)
      BY <2>4, <2>7, <3>2 DEF Chunk
    <3> QED BY <2>5, <3>3, <3>4
  <2>11. CASE j < i
    <3>1. b2 + l2 <= b
      BY <2>6, <2>11, Regions
    <3>2. y < b /\ b <= x
      BY <2>4, <2>6, <2>8, <3>1
    <3>3. Chunk(y) < Chunk(b)
      BY <2>4, <2>6, <2>7, <3>2, Before
    <3>4. Chunk(b) <= Chunk(x) /\ Chunk(b) \in Nat /\ Chunk(x) \in Nat
      BY <2>4, <2>6, <3>2, Monotone
    <3> QED BY <2>5, <3>3, <3>4
  <2> QED BY <2>9, <2>10, <2>11
<1> QED BY <1>1, <1>2, <1>3 DEF IsCall

(* The calls for the chunk of a page that is to be mapped agree.           *)
LEMMA AtLow ==
  ASSUME NEW m \in MemoryMaps, NEW c \in Calls, IsCall(c, m), NEW p \in 0 .. LOW - 1,
         Chunk(c.virtual) \in {Chunk(p), Chunk(p + hhdmOffset)}
  PROVE  c.large /\ c.physical = W * Chunk(p)
<1>1. /\ Chunk(p) \in Nat /\ Chunk(p) < Chunk(LOW)
      /\ Chunk(p + hhdmOffset) = Chunk(p) + Chunk(hhdmOffset)
  <2>1. p \in Nat /\ p < LOW
    BY Addresses
  <2> QED BY <2>1, Sides
<1>2. Chunk(c.virtual) < Chunk(LOW) + Chunk(hhdmOffset)
  BY <1>1, Bases
<1>3. ~ IsKernel(c)
  BY <1>2, KernelIs, Bases
<1>4. ASSUME NEW j \in DOMAIN m, IsRegion(c, m[j]) PROVE FALSE
  BY <1>2, <1>4, RegionIs, Bases
<1>5. IsLow(c)
  BY <1>3, <1>4 DEF IsCall
<1>6. Chunk(c.physical) = Chunk(p)
  BY <1>1, <1>5, LowIs, Bases
<1> QED BY <1>5, <1>6, LowIs

(* A call covers pages of its chunk only, when it maps whole ones.          *)
LEMMA CoveredChunk ==
  ASSUME NEW c \in Calls, NEW p \in Nat, Covers(c, p),
         c.large => c.physical = W * Chunk(c.physical)
  PROVE  Chunk(c.physical) = Chunk(p)
<1>1. CASE c.large
  <2>1. PICK q, t : q = Chunk(c.physical) /\ t = p - c.physical
    OBVIOUS
  <2>2. q \in Nat /\ W \in Nat /\ W > 0 /\ c.physical \in Nat
    <3>1. c.physical \in Nat
      BY Sizes DEF Calls, Physical
    <3> QED BY <2>1, <3>1, ChunkEntries, Sizes
  <2>3. t \in 0 .. W - 1 /\ p = W * q + t
    <3>1. W * q \in Nat /\ c.physical = W * q
      BY <1>1, <2>1, <2>2
    <3> QED BY <1>1, <2>1, <2>2, <3>1 DEF Covers
  <2>4. (W * q + t) \div W = q
    BY <2>2, <2>3, DivIs
  <2> QED BY <2>1, <2>3, <2>4 DEF Chunk
<1>2. CASE ~ c.large
  BY <1>2 DEF Covers
<1> QED BY <1>1, <1>2

LEMMA AtRegion ==
  ASSUME NEW m \in MemoryMaps, RegularMap(m), NEW j \in DOMAIN m, m[j].base >= LOW,
         NEW p \in Pages(m[j]), NEW d \in Calls, IsRegion(d, m[j]), Covers(d, p),
         NEW c \in Calls, IsCall(c, m), Chunk(c.virtual) = Chunk(p + hhdmOffset)
  PROVE  /\ c.large <=> d.large
         /\ c.large => c.physical = W * Chunk(p)
         /\ c.virtual = p + hhdmOffset /\ ~ c.large => c.physical = p
<1>1. p \in Nat /\ p >= m[j].base /\ p >= LOW /\ p + hhdmOffset < virtualBase
  <2>1. /\ m[j].base \in Nat /\ m[j].length \in Nat
        /\ hhdmOffset + m[j].base + m[j].length <= virtualBase
    BY Regions
  <2>2. p \in m[j].base .. m[j].base + m[j].length - 1
    BY DEF Pages
  <2> QED BY <2>1, <2>2, Addresses
<1>2. /\ Chunk(p) \in Nat /\ Chunk(p) >= Chunk(LOW)
      /\ Chunk(p + hhdmOffset) = Chunk(p) + Chunk(hhdmOffset)
  <2>1. ~ (p < LOW)
    BY <1>1, Addresses
  <2> QED BY <1>1, <2>1, Sides, Bases
<1>3. m[j].length >= W * W => m[j].base % W = 0
  BY DEF RegularMap
<1>4. Chunk(d.virtual) = Chunk(p + hhdmOffset)
  <2>1. Chunk(d.physical) = Chunk(p)
    BY <1>1, <1>3, RegionIs, CoveredChunk
  <2> QED BY <1>2, <2>1, RegionIs
<1>5. IsCall(d, m)
  BY DEF IsCall
<1>6. c.large <=> d.large
  <2>1. ~ (c.large /\ ~ d.large)
    BY <1>4, <1>5, Apart
  <2>2. ~ (d.large /\ ~ c.large)
    BY <1>4, <1>5, Apart
  <2>3. c.large \in BOOLEAN /\ d.large \in BOOLEAN
    BY DEF Calls
  <2> QED BY <2>1, <2>2, <2>3
<1>7. c.large => c.physical = W * Chunk(p)
  <2> HAVE c.large
  <2>1. ~ IsKernel(c)
    BY KernelIs
  <2>2. ~ IsLow(c)
    BY <1>2, LowIs, Bases
  <2>3. PICK i \in DOMAIN m : IsRegion(c, m[i])
    BY <2>1, <2>2 DEF IsCall
  <2>4. m[i].base % W = 0
    BY <2>3, RegionIs DEF RegularMap
  <2>5. Chunk(c.physical) = Chunk(p)
    BY <1>2, <2>3, RegionIs, Bases
  <2> QED BY <2>3, <2>4, <2>5, RegionIs
<1>8. c.virtual = p + hhdmOffset /\ ~ c.large => c.physical = p
  <2> HAVE c.virtual = p + hhdmOffset /\ ~ c.large
  <2>1. ~ IsKernel(c)
    BY <1>1, KernelIs, Addresses
  <2>2. ~ IsLow(c)
    BY LowIs
  <2>3. PICK i \in DOMAIN m : IsRegion(c, m[i])
    BY <2>1, <2>2 DEF IsCall
  <2>4. c.virtual = c.physical + hhdmOffset /\ c.physical \in Nat
    BY <2>3, RegionIs
  <2> QED BY <1>1, <2>4, Addresses
<1> QED BY <1>6, <1>7, <1>8

LEMMA AtKernel ==
  ASSUME NEW m \in MemoryMaps, RegularMap(m), NEW n \in 0 .. kernelSize - 1,
         NEW d \in Calls, IsCall(d, m), ~ d.large, d.virtual = virtualBase + n,
         NEW c \in Calls, IsCall(c, m), Chunk(c.virtual) = Chunk(virtualBase + n)
  PROVE  ~ c.large /\ (c.virtual = virtualBase + n => c.physical = physicalBase + n)
<1>1. ~ c.large
  BY Apart
<1>2. virtualBase + n \in Nat /\ virtualBase + n >= virtualBase
  BY Addresses
<1>3. c.virtual = virtualBase + n => c.physical = physicalBase + n
  <2> HAVE c.virtual = virtualBase + n
  <2>1. ASSUME NEW j \in DOMAIN m, IsRegion(c, m[j]) PROVE FALSE
    BY <1>2, <2>1, RegionIs, Addresses
  <2>2. IsKernel(c)
    BY <1>1, <2>1, LowIs DEF IsCall
  <2>3. c.physical = physicalBase + (c.virtual - virtualBase)
    BY <2>2, KernelIs
  <2> QED BY <2>3, Addresses
<1> QED BY <1>1, <1>3

-----------------------------------------------------------------------------
(* What a tree holds after the first n calls.                              *)

LargeOnes(cs, n, v) == {i \in 1 .. n : cs[i].large /\ Chunk(cs[i].virtual) = Chunk(v)}
SmallOnes(cs, n, v) == {i \in 1 .. n : ~ cs[i].large /\ Chunk(cs[i].virtual) = Chunk(v)}
OnesAt(cs, n, v)    == {i \in 1 .. n : ~ cs[i].large /\ cs[i].virtual = v}

IsLast(i, S) == i \in S /\ \A j \in S : j <= i

(* The last large page counts; without one, the last small one.            *)
BuiltAs(e2, e1, cs, L, S, P) ==
  /\ \A i \in L : IsLast(i, L) => e2.present /\ e2.large /\ e2.address = cs[i].physical
  /\ L = {} /\ S = {} => e2 = Empty
  /\ L = {} /\ S # {} => e2.present /\ ~ e2.large /\ e2.address \notin Physical
  /\ L = {} /\ P = {} => e1 = Empty
  /\ L = {} => \A i \in P : IsLast(i, P) => e1.present /\ e1.address = cs[i].physical

BuiltAt(ts, r, cs, n, v) ==
  BuiltAs(Entry2(ts, r, v), Entry1(ts, r, v), cs,
          LargeOnes(cs, n, v), SmallOnes(cs, n, v), OnesAt(cs, n, v))

Built(ts, r, cs, n) ==
  \A v \in VirtualPages : Chunk(v) # Chunk(stackAddr) => BuiltAt(ts, r, cs, n, v)

LEMMA BuiltStart ==
  ASSUME NEW ts, NEW pl, Placed(ts, pl), NEW r \in DOMAIN ts, ts[r] = EmptyTop, NEW cs
  PROVE  Built(ts, r, cs, 0)
<1> SUFFICES ASSUME NEW v \in VirtualPages PROVE BuiltAt(ts, r, cs, 0, v)
  BY DEF Built
<1>1. pml4Entry(v) \in 0 .. TOP - 1
  BY Entries
<1>2. ts[r][pml4Entry(v)] = Empty
  BY <1>1 DEF EmptyTop
<1>3. Pml3(ts, r, v) = 0
  BY <1>2, EmptyIs DEF Pml3, Down
<1>4. Pml2(ts, r, v) = 0
  BY <1>3 DEF Pml2, Down
<1>5. Entry2(ts, r, v) = Empty
  BY <1>4 DEF Entry2
<1>6. Entry1(ts, r, v) = Empty
  <2>1. 0 \notin DOMAIN ts
    BY Frames
  <2> QED BY <1>5, <2>1, EmptyIs DEF Entry1
<1>7. LargeOnes(cs, 0, v) = {} /\ SmallOnes(cs, 0, v) = {} /\ OnesAt(cs, 0, v) = {}
  BY DEF LargeOnes, SmallOnes, OnesAt
<1> QED BY <1>5, <1>6, <1>7 DEF BuiltAt, BuiltAs

LEMMA BuiltKept ==
  ASSUME NEW ts, NEW ts2, NEW r, NEW cs, NEW n, Built(ts, r, cs, n),
         \A v \in VirtualPages : Chunk(v) # Chunk(stackAddr) => Unchanged(ts, ts2, r, v)
  PROVE  Built(ts2, r, cs, n)
<1> SUFFICES ASSUME NEW v \in VirtualPages, Chunk(v) # Chunk(stackAddr)
             PROVE  BuiltAt(ts2, r, cs, n, v)
  BY DEF Built
<1>1. BuiltAt(ts, r, cs, n, v) /\ Unchanged(ts, ts2, r, v)
  BY DEF Built
<1> QED BY <1>1 DEF BuiltAt, Unchanged

(* One call more.                                                          *)
LEMMA OneMore ==
  ASSUME NEW cs, NEW n \in Nat, NEW v
  PROVE  LET c == cs[n + 1]
         IN  /\ LargeOnes(cs, n + 1, v) =
                  IF c.large /\ Chunk(c.virtual) = Chunk(v)
                  THEN LargeOnes(cs, n, v) \cup {n + 1} ELSE LargeOnes(cs, n, v)
             /\ SmallOnes(cs, n + 1, v) =
                  IF ~ c.large /\ Chunk(c.virtual) = Chunk(v)
                  THEN SmallOnes(cs, n, v) \cup {n + 1} ELSE SmallOnes(cs, n, v)
             /\ OnesAt(cs, n + 1, v) =
                  IF ~ c.large /\ c.virtual = v
                  THEN OnesAt(cs, n, v) \cup {n + 1} ELSE OnesAt(cs, n, v)
<1>1. 1 .. n + 1 = 1 .. n \cup {n + 1}
  OBVIOUS
<1>2. LargeOnes(cs, n + 1, v) =
        IF cs[n + 1].large /\ Chunk(cs[n + 1].virtual) = Chunk(v)
        THEN LargeOnes(cs, n, v) \cup {n + 1} ELSE LargeOnes(cs, n, v)
  BY <1>1 DEF LargeOnes
<1>3. SmallOnes(cs, n + 1, v) =
        IF ~ cs[n + 1].large /\ Chunk(cs[n + 1].virtual) = Chunk(v)
        THEN SmallOnes(cs, n, v) \cup {n + 1} ELSE SmallOnes(cs, n, v)
  BY <1>1 DEF SmallOnes
<1>4. OnesAt(cs, n + 1, v) =
        IF ~ cs[n + 1].large /\ cs[n + 1].virtual = v
        THEN OnesAt(cs, n, v) \cup {n + 1} ELSE OnesAt(cs, n, v)
  BY <1>1 DEF OnesAt
<1> QED BY <1>2, <1>3, <1>4

LEMMA LastAdded ==
  ASSUME NEW n \in Nat, NEW S, S \subseteq 1 .. n
  PROVE  \A i \in S \cup {n + 1} : IsLast(i, S \cup {n + 1}) => i = n + 1
BY DEF IsLast

LEMMA BuiltOn ==
  ASSUME NEW m \in MemoryMaps, NEW cs, cs = CallsOf(m), NEW n \in Nat, n + 1 \in DOMAIN cs,
         NEW ts, NEW pl, Placed(ts, pl), NEW r \in DOMAIN ts, pl[r] = Top(r),
         Built(ts, r, cs, n), NEW ts2,
         Effect(ts, ts2, r, cs[n + 1]), Others(ts, pl, ts2, r, cs[n + 1])
  PROVE  Built(ts2, r, cs, n + 1)
<1> SUFFICES ASSUME NEW v \in VirtualPages, Chunk(v) # Chunk(stackAddr)
             PROVE  BuiltAt(ts2, r, cs, n + 1, v)
  BY DEF Built
<1>1. PICK c : c = cs[n + 1]
  OBVIOUS
<1>2. c \in Calls /\ IsCall(c, m) /\ DOMAIN cs = 1 .. Len(cs) /\ Len(cs) \in Nat
  BY <1>1, CallsAre
<1>3. \A i \in 1 .. n : i \in DOMAIN cs /\ cs[i] \in Calls /\ IsCall(cs[i], m)
  <2>1. \A i \in 1 .. n : i \in DOMAIN cs
    BY <1>2
  <2> QED BY <2>1, CallsAre
<1>4. PICK L, S, P : L = LargeOnes(cs, n, v) /\ S = SmallOnes(cs, n, v) /\ P = OnesAt(cs, n, v)
  OBVIOUS
<1>5. PICK L2, S2, P2 :
        L2 = LargeOnes(cs, n + 1, v) /\ S2 = SmallOnes(cs, n + 1, v) /\ P2 = OnesAt(cs, n + 1, v)
  OBVIOUS
<1>6. /\ L2 = IF c.large /\ Chunk(c.virtual) = Chunk(v) THEN L \cup {n + 1} ELSE L
      /\ S2 = IF ~ c.large /\ Chunk(c.virtual) = Chunk(v) THEN S \cup {n + 1} ELSE S
      /\ P2 = IF ~ c.large /\ c.virtual = v THEN P \cup {n + 1} ELSE P
  BY <1>1, <1>4, <1>5, OneMore
<1>7. PICK e2, e1 : e2 = Entry2(ts, r, v) /\ e1 = Entry1(ts, r, v)
  OBVIOUS
<1>8. PICK f2, f1 : f2 = Entry2(ts2, r, v) /\ f1 = Entry1(ts2, r, v)
  OBVIOUS
<1>9. BuiltAs(e2, e1, cs, L, S, P)
  BY <1>4, <1>7 DEF Built, BuiltAt
<1>10. BuiltAs(f2, f1, cs, L2, S2, P2)
  <2>1. L \subseteq 1 .. n /\ P \subseteq 1 .. n /\ P \subseteq S
    BY <1>4 DEF LargeOnes, OnesAt, SmallOnes
  <2>2. CASE Chunk(c.virtual) # Chunk(v)
    <3>1. L2 = L /\ S2 = S /\ P2 = P
      BY <1>6, <2>2
    <3>2. f2 = e2 /\ f1 = e1
      BY <1>1, <1>7, <1>8, <2>2 DEF Others, Unchanged
    <3> QED BY <1>9, <3>1, <3>2
  <2>3. CASE Chunk(c.virtual) = Chunk(v) /\ c.large
    <3>1. L2 = L \cup {n + 1}
      BY <1>6, <2>3
    <3>2. f2.present /\ f2.large /\ f2.address = c.physical
      BY <1>1, <1>8, <2>3 DEF Effect
    <3>3. \A i \in L2 : IsLast(i, L2) => i = n + 1
      BY <2>1, <3>1, LastAdded
    <3>4. L2 # {}
      BY <3>1
    <3> QED BY <1>1, <3>2, <3>3, <3>4 DEF BuiltAs
  <2>4. CASE Chunk(c.virtual) = Chunk(v) /\ ~ c.large
    <3>1. L2 = L /\ S2 = S \cup {n + 1}
      BY <1>6, <2>4
    <3>2. c.virtual \in VirtualPages /\ Entry2(ts, r, c.virtual) = e2
      <4>1. c.virtual \in VirtualPages
        BY <1>2 DEF Calls
      <4> QED BY <1>7, <2>4, <4>1, SamePml2
    <3>3. CASE L # {}
      <4>1. PICK i \in L : IsLast(i, L)
        BY <2>1, <3>3, LastOf DEF IsLast
      <4>2. e2.present /\ e2.large /\ e2.address = cs[i].physical
        BY <1>9, <4>1 DEF BuiltAs
      <4>3. cs[i].physical # 0 /\ cs[i].physical \in Physical
        <5>1. i \in 1 .. n /\ cs[i].large /\ Chunk(cs[i].virtual) = Chunk(v)
          BY <1>4 DEF LargeOnes
        <5>2. cs[i] \in Calls /\ IsCall(cs[i], m)
          BY <1>3, <5>1
        <5>3. cs[i].physical # 0
          BY <1>2, <2>4, <5>1, <5>2, NotAtZero
        <5> QED BY <5>2, <5>3 DEF Calls
      <4>4. Unchanged(ts, ts2, r, v)
        BY <1>1, <2>4, <3>2, <4>2, <4>3 DEF Effect, isValid
      <4>5. f2 = e2 /\ f1 = e1
        BY <1>7, <1>8, <4>4 DEF Unchanged
      <4> QED BY <1>9, <3>1, <3>3, <4>5 DEF BuiltAs
    <3>4. CASE L = {}
      <4>1. S = {} => e2 = Empty
        BY <1>9, <3>4 DEF BuiltAs
      <4>2. S # {} => e2.present /\ ~ e2.large /\ e2.address \notin Physical
        BY <1>9, <3>4 DEF BuiltAs
      <4>3. ~ (isValid(e2) /\ e2.address \in Physical) /\ ~ e2.large
        BY <4>1, <4>2, EmptyIs
      <4>4. MappedSmall(ts, ts2, r, c.virtual, c.physical)
        BY <1>1, <2>4, <3>2, <4>3 DEF Effect
      <4>5. /\ f2.present /\ f2.large = e2.large /\ f2.address \notin Physical
            /\ v # c.virtual => f1 = IF isValid(e2) THEN e1 ELSE Empty
        BY <1>7, <1>8, <2>4, <3>2, <4>4 DEF MappedSmall
      <4>6. v = c.virtual => f1.present /\ f1.address = c.physical
        BY <1>8, <4>4 DEF MappedSmall
      <4>7. S2 # {}
        BY <3>1
      <4>8. v # c.virtual => P2 = P /\ f1 = e1
        <5> HAVE v # c.virtual
        <5>1. P2 = P
          BY <1>6
        <5>2. CASE S = {}
          <6>1. P = {}
            BY <2>1, <5>2
          <6>2. e1 = Empty /\ ~ isValid(e2)
            BY <1>9, <3>4, <4>1, <5>2, <6>1, EmptyIs DEF BuiltAs
          <6> QED BY <4>5, <5>1, <6>2
        <5>3. CASE S # {}
          <6>1. isValid(e2)
            BY <4>2, <5>3, EmptyIs DEF isValid
          <6> QED BY <4>5, <5>1, <6>1
        <5> QED BY <5>2, <5>3
      <4>9. v = c.virtual => P2 = P \cup {n + 1} /\ \A i \in P2 : IsLast(i, P2) => i = n + 1
        <5> HAVE v = c.virtual
        <5>1. P2 = P \cup {n + 1}
          BY <1>6, <2>4
        <5> QED BY <2>1, <5>1, LastAdded
      <4>10. CASE v = c.virtual
        <5>1. P2 # {} /\ \A i \in P2 : IsLast(i, P2) => f1.present /\ f1.address = cs[i].physical
          BY <1>1, <4>6, <4>9, <4>10
        <5> QED BY <3>1, <3>4, <4>3, <4>5, <4>7, <5>1 DEF BuiltAs
      <4>11. CASE v # c.virtual
        <5>1. P2 = P /\ f1 = e1
          BY <4>8, <4>11
        <5> QED BY <1>9, <3>1, <3>4, <4>3, <4>5, <4>7, <5>1 DEF BuiltAs
      <4> QED BY <4>10, <4>11
    <3> QED BY <3>3, <3>4
  <2>5. c.large \in BOOLEAN
    BY <1>2 DEF Calls
  <2> QED BY <2>2, <2>3, <2>4
<1> QED BY <1>5, <1>8, <1>10 DEF BuiltAt

(* Two trees that the same calls have built are seen alike.                *)
LEMMA SeenAlike ==
  ASSUME NEW cs, NEW n \in Nat, NEW ts, NEW r, NEW r2, NEW v,
         BuiltAt(ts, r, cs, n, v), BuiltAt(ts, r2, cs, n, v)
  PROVE  Sees(Entry2(ts, r, v), Entry1(ts, r, v), v) = Sees(Entry2(ts, r2, v), Entry1(ts, r2, v), v)
<1>1. PICK L, S, P : L = LargeOnes(cs, n, v) /\ S = SmallOnes(cs, n, v) /\ P = OnesAt(cs, n, v)
  OBVIOUS
<1>2. PICK e2, e1 : e2 = Entry2(ts, r, v) /\ e1 = Entry1(ts, r, v)
  OBVIOUS
<1>3. PICK f2, f1 : f2 = Entry2(ts, r2, v) /\ f1 = Entry1(ts, r2, v)
  OBVIOUS
<1>4. BuiltAs(e2, e1, cs, L, S, P) /\ BuiltAs(f2, f1, cs, L, S, P)
  BY <1>1, <1>2, <1>3 DEF BuiltAt
<1>5. L \subseteq 1 .. n /\ P \subseteq 1 .. n
  BY <1>1 DEF LargeOnes, OnesAt
<1>6. CASE L # {}
  <2>1. PICK i \in L : IsLast(i, L)
    BY <1>5, <1>6, LastOf DEF IsLast
  <2>2. /\ e2.present /\ e2.large /\ e2.address = cs[i].physical
        /\ f2.present /\ f2.large /\ f2.address = cs[i].physical
    BY <1>4, <2>1 DEF BuiltAs
  <2> QED BY <1>2, <1>3, <2>2 DEF Sees
<1>7. CASE L = {} /\ S = {}
  <2>1. e2 = Empty /\ f2 = Empty
    BY <1>4, <1>7 DEF BuiltAs
  <2> QED BY <1>2, <1>3, <2>1, EmptyIs DEF Sees
<1>8. CASE L = {} /\ S # {}
  <2>1. e2.present /\ ~ e2.large /\ f2.present /\ ~ f2.large
    BY <1>4, <1>8 DEF BuiltAs
  <2>2. CASE P = {}
    <3>1. e1 = Empty /\ f1 = Empty
      BY <1>4, <1>8, <2>2 DEF BuiltAs
    <3> QED BY <1>2, <1>3, <2>1, <3>1, EmptyIs DEF Sees
  <2>3. CASE P # {}
    <3>1. PICK i \in P : IsLast(i, P)
      BY <1>5, <2>3, LastOf DEF IsLast
    <3>2. e1.present /\ e1.address = cs[i].physical /\ f1.present /\ f1.address = cs[i].physical
      BY <1>4, <1>8, <3>1 DEF BuiltAs
    <3> QED BY <1>2, <1>3, <2>1, <3>2 DEF Sees
  <2> QED BY <2>2, <2>3
<1> QED BY <1>6, <1>7, <1>8

LEMMA SeenLarge ==
  ASSUME NEW cs, NEW n \in Nat, NEW ts, NEW r, NEW v, BuiltAt(ts, r, cs, n, v), NEW x,
         LargeOnes(cs, n, v) # {}, \A i \in LargeOnes(cs, n, v) : cs[i].physical = x
  PROVE  Sees(Entry2(ts, r, v), Entry1(ts, r, v), v) = Large(x, v)
<1>1. LargeOnes(cs, n, v) \subseteq 1 .. n
  BY DEF LargeOnes
<1>2. PICK i \in LargeOnes(cs, n, v) : IsLast(i, LargeOnes(cs, n, v))
  BY <1>1, LastOf DEF IsLast
<1>3. PICK e2 : e2 = Entry2(ts, r, v)
  OBVIOUS
<1>4. e2.present /\ e2.large /\ e2.address = x
  BY <1>2, <1>3 DEF BuiltAt, BuiltAs
<1> QED BY <1>3, <1>4 DEF Sees

LEMMA SeenSmall ==
  ASSUME NEW cs, NEW n \in Nat, NEW ts, NEW r, NEW v, BuiltAt(ts, r, cs, n, v), NEW x,
         LargeOnes(cs, n, v) = {}, OnesAt(cs, n, v) # {},
         \A i \in OnesAt(cs, n, v) : cs[i].physical = x
  PROVE  Sees(Entry2(ts, r, v), Entry1(ts, r, v), v) = x
<1>1. OnesAt(cs, n, v) \subseteq 1 .. n /\ OnesAt(cs, n, v) \subseteq SmallOnes(cs, n, v)
  BY DEF OnesAt, SmallOnes
<1>2. PICK i \in OnesAt(cs, n, v) : IsLast(i, OnesAt(cs, n, v))
  BY <1>1, LastOf DEF IsLast
<1>3. PICK e2, e1 : e2 = Entry2(ts, r, v) /\ e1 = Entry1(ts, r, v)
  OBVIOUS
<1>4. e2.present /\ ~ e2.large
  BY <1>1, <1>3 DEF BuiltAt, BuiltAs
<1>5. e1.present /\ e1.address = x
  BY <1>2, <1>3 DEF BuiltAt, BuiltAs
<1> QED BY <1>3, <1>4, <1>5 DEF Sees

-----------------------------------------------------------------------------
(* What is mapped once all calls are made.                                 *)

LEMMA StackAside ==
  /\ stackAddr \in VirtualPages /\ stackAddr \in Nat
  /\ Chunk(stackAddr) >= Chunk(LOW) /\ Chunk(stackAddr) < Chunk(hhdmOffset)
  /\ Chunk(stackAddr) \in Nat
  /\ pml4Entry(stackAddr) \in 1 .. HALF - 1
<1>1. stackAddr \in Nat /\ pml4Entry(stackAddr) \in 1 .. HALF - 1
  BY PageTableAssumption DEF PageTableAssumption, pml4Entry
<1>2. PICK q, r : q = stackAddr \div TopSize /\ r = stackAddr % TopSize
  OBVIOUS
<1>3. /\ q \in 1 .. HALF - 1 /\ r \in 0 .. TopSize - 1 /\ stackAddr = TopSize * q + r
  BY <1>1, <1>2, Sizes, DivMod DEF pml4Entry
<1>4. stackAddr >= TopSize
  <2>1. TopSize * q >= TopSize /\ TopSize * q \in Nat
    BY <1>3, Sizes
  <2> QED BY <1>3, <2>1, Sizes
<1>5. stackAddr < HALF * TopSize
  <2>1. TopSize * q + TopSize <= TopSize * HALF /\ TopSize * q \in Nat
    <3>1. q \in Nat /\ HALF \in Nat /\ q < HALF /\ TopSize \in Nat
      BY <1>3, Sizes
    <3> QED BY <3>1, Ordered
  <2>2. TopSize * HALF = HALF * TopSize /\ HALF * TopSize \in Nat
    BY Sizes
  <2> QED BY <1>3, <2>1, <2>2, Sizes
<1>6. ~ (stackAddr < LOW) /\ stackAddr < hhdmOffset /\ stackAddr < virtualBase
  BY <1>1, <1>4, <1>5, Sizes, Addresses
<1>7. Chunk(stackAddr) \in Nat /\ ~ (Chunk(stackAddr) < Chunk(LOW))
  BY <1>1, <1>6, Sides
<1>8. Chunk(stackAddr) < Chunk(hhdmOffset)
  <2>1. hhdmOffset % W = 0
    BY Bases, Addresses, Whole
  <2> QED BY <1>1, <1>6, <2>1, Addresses, Before
<1> QED BY <1>1, <1>6, <1>7, <1>8, Addresses, Bases

LEMMA LargeAt ==
  ASSUME NEW p \in Nat, NEW v \in Nat, v % W = p % W
  PROVE  Large(W * Chunk(p), v) = p
<1>1. Chunk(p) \in Nat
  BY Monotone
<1>2. (W * Chunk(p)) % W = 0
  BY <1>1, ChunkOfMultiple
<1>3. p = W * Chunk(p) + (p % W)
  BY Whole
<1> QED BY <1>2, <1>3 DEF Large

(* All that the calls of initPaging for m have built.                      *)
Complete(ts, pl, r, m) ==
  /\ Placed(ts, pl) /\ r \in DOMAIN ts /\ pl[r] = Top(r)
  /\ m \in MemoryMaps
  /\ Built(ts, r, CallsOf(m), Len(CallsOf(m)))

LEMMA LowMapped ==
  ASSUME NEW ts, NEW pl, NEW r, NEW m, Complete(ts, pl, r, m), NEW p \in 0 .. LOW - 1,
         NEW v, v \in {p, p + hhdmOffset}
  PROVE  TranslateIn(ts, r, v) = p
<1>1. PICK cs, n : cs = CallsOf(m) /\ n = Len(cs)
  OBVIOUS
<1>2. m \in MemoryMaps
  BY DEF Complete
<1>3. n \in Nat /\ DOMAIN cs = 1 .. n /\ \A i \in DOMAIN cs : cs[i] \in Calls /\ IsCall(cs[i], m)
  BY <1>1, <1>2, CallsAre
<1>4. p \in Nat /\ p < LOW
  BY Addresses
<1>5. /\ Chunk(p) \in Nat /\ Chunk(p) < Chunk(LOW) /\ (p + hhdmOffset) % W = p % W
      /\ Chunk(p + hhdmOffset) = Chunk(p) + Chunk(hhdmOffset)
  BY <1>4, Sides
<1>6. v \in VirtualPages /\ v \in Nat
  BY <1>4, Addresses
<1>7. Chunk(v) # Chunk(stackAddr)
  BY <1>5, StackAside, Bases
<1>8. BuiltAt(ts, r, cs, n, v)
  BY <1>1, <1>6, <1>7 DEF Complete, Built
<1>9. \A i \in LargeOnes(cs, n, v) : cs[i].physical = W * Chunk(p)
  <2> TAKE i \in LargeOnes(cs, n, v)
  <2>1. i \in DOMAIN cs /\ Chunk(cs[i].virtual) = Chunk(v)
    BY <1>3 DEF LargeOnes
  <2>2. cs[i] \in Calls /\ IsCall(cs[i], m)
    BY <1>3, <2>1
  <2> QED BY <1>2, <2>1, <2>2, AtLow
<1>10. LargeOnes(cs, n, v) # {}
  <2>1. PICK i, k \in DOMAIN cs :
          /\ cs[i].large /\ Covers(cs[i], p) /\ cs[i].virtual = cs[i].physical
          /\ cs[k].large /\ Covers(cs[k], p) /\ cs[k].virtual = cs[k].physical + hhdmOffset
    BY <1>1, <1>2, CallsAre
  <2>2. \A j \in DOMAIN cs :
           cs[j].large /\ Covers(cs[j], p)
             /\ cs[j].virtual \in {cs[j].physical, cs[j].physical + hhdmOffset} =>
           Chunk(cs[j].physical) = Chunk(p) /\ cs[j].physical \in Nat
    <3> TAKE j \in DOMAIN cs
    <3> HAVE /\ cs[j].large /\ Covers(cs[j], p)
             /\ cs[j].virtual \in {cs[j].physical, cs[j].physical + hhdmOffset}
    <3>1. PICK c : c = cs[j]
      OBVIOUS
    <3>2. c \in Calls /\ IsCall(c, m) /\ c.large
      BY <1>3, <3>1
    <3>3. c.physical \in Nat /\ c.physical <= p
      BY <3>1, <3>2, Sizes DEF Calls, Physical, Covers
    <3>4. Chunk(c.physical) <= Chunk(p) /\ Chunk(c.physical) \in Nat
      BY <1>4, <3>3, Monotone
    <3>5. Chunk(c.virtual) < Chunk(LOW) + Chunk(hhdmOffset)
      <4>1. Chunk(c.physical + hhdmOffset) = Chunk(c.physical) + Chunk(hhdmOffset)
        BY <3>3, Sides
      <4> QED BY <1>5, <3>1, <3>4, <4>1, Bases
    <3>6. IsLow(c)
      <4>1. ~ IsKernel(c)
        BY <3>2, KernelIs
      <4>2. ASSUME NEW k2 \in DOMAIN m, IsRegion(c, m[k2]) PROVE FALSE
        BY <1>2, <3>2, <3>5, <4>2, RegionIs, Bases
      <4> QED BY <3>2, <4>1, <4>2 DEF IsCall
    <3>7. c.physical = W * Chunk(c.physical)
      BY <3>2, <3>6, LowIs
    <3> QED BY <1>4, <3>1, <3>2, <3>3, <3>7, CoveredChunk
  <2>3. Chunk(cs[i].virtual) = Chunk(p)
    BY <2>1, <2>2
  <2>4. Chunk(cs[k].virtual) = Chunk(p + hhdmOffset)
    <3>1. Chunk(cs[k].physical) = Chunk(p) /\ cs[k].physical \in Nat
      BY <2>1, <2>2
    <3> QED BY <1>5, <2>1, <3>1, Sides
  <2>5. v = p => i \in LargeOnes(cs, n, v)
    BY <1>3, <2>1, <2>3 DEF LargeOnes
  <2>6. v = p + hhdmOffset => k \in LargeOnes(cs, n, v)
    BY <1>3, <2>1, <2>4 DEF LargeOnes
  <2> QED BY <2>5, <2>6
<1>11. Sees(Entry2(ts, r, v), Entry1(ts, r, v), v) = Large(W * Chunk(p), v)
  BY <1>3, <1>8, <1>9, <1>10, SeenLarge
<1>12. Large(W * Chunk(p), v) = p
  BY <1>4, <1>5, <1>6, LargeAt
<1> QED BY <1>6, <1>11, <1>12, TranslateIs DEF Complete

LEMMA RegionMapped ==
  ASSUME NEW ts, NEW pl, NEW r, NEW m, Complete(ts, pl, r, m), RegularMap(m),
         NEW j \in DOMAIN m, m[j].base >= LOW, NEW p \in Pages(m[j])
  PROVE  TranslateIn(ts, r, p + hhdmOffset) = p
<1>1. PICK cs, n, v : cs = CallsOf(m) /\ n = Len(cs) /\ v = p + hhdmOffset
  OBVIOUS
<1>2. m \in MemoryMaps
  BY DEF Complete
<1>3. n \in Nat /\ DOMAIN cs = 1 .. n /\ \A i \in DOMAIN cs : cs[i] \in Calls /\ IsCall(cs[i], m)
  BY <1>1, <1>2, CallsAre
<1>4. p \in Nat /\ v \in Nat /\ v < virtualBase
  <2>1. PICK b, l \in Nat : b = m[j].base /\ l = m[j].length
    BY <1>2, Regions
  <2>2. hhdmOffset + b + l <= virtualBase
    BY <1>2, <2>1, Regions
  <2>3. p \in b .. b + l - 1
    BY <2>1 DEF Pages
  <2> QED BY <1>1, <2>2, <2>3, Addresses
<1>5. /\ Chunk(p) \in Nat /\ v % W = p % W /\ Chunk(v) = Chunk(p) + Chunk(hhdmOffset)
  BY <1>1, <1>4, Sides
<1>6. v \in VirtualPages /\ Chunk(v) # Chunk(stackAddr)
  BY <1>4, <1>5, StackAside, Addresses, Bases
<1>7. BuiltAt(ts, r, cs, n, v)
  BY <1>1, <1>6 DEF Complete, Built
<1>8. PICK k \in DOMAIN cs : Covers(cs[k], p) /\ IsRegion(cs[k], m[j])
  BY <1>1, <1>2, CallsAre
<1>9. PICK d : d = cs[k]
  OBVIOUS
<1>10. d \in Calls /\ Covers(d, p) /\ IsRegion(d, m[j])
  BY <1>3, <1>8, <1>9
<1>11. ASSUME NEW i \in 1 .. n, Chunk(cs[i].virtual) = Chunk(v)
       PROVE  /\ cs[i].large <=> d.large
              /\ cs[i].large => cs[i].physical = W * Chunk(p)
              /\ cs[i].virtual = v /\ ~ cs[i].large => cs[i].physical = p
  <2>1. cs[i] \in Calls /\ IsCall(cs[i], m)
    BY <1>3, <1>11
  <2> QED BY <1>1, <1>2, <1>10, <1>11, <2>1, AtRegion
<1>12. Chunk(d.virtual) = Chunk(v) /\ (~ d.large => d.virtual = v)
  <2>1. Chunk(d.physical) = Chunk(p) /\ (~ d.large => d.physical = p)
    <3>1. d.large => d.physical = W * Chunk(d.physical)
      BY <1>2, <1>10, RegionIs DEF RegularMap
    <3> QED BY <1>4, <1>10, <3>1, CoveredChunk DEF Covers
  <2>2. /\ d.virtual = d.physical + hhdmOffset
        /\ Chunk(d.virtual) = Chunk(d.physical) + Chunk(hhdmOffset)
    BY <1>2, <1>10, RegionIs
  <2> QED BY <1>1, <1>5, <2>1, <2>2
<1>13. CASE d.large
  <2>1. k \in LargeOnes(cs, n, v)
    BY <1>3, <1>9, <1>12, <1>13 DEF LargeOnes
  <2>2. \A i \in LargeOnes(cs, n, v) : cs[i].physical = W * Chunk(p)
    BY <1>11 DEF LargeOnes
  <2>3. Sees(Entry2(ts, r, v), Entry1(ts, r, v), v) = Large(W * Chunk(p), v)
    BY <1>3, <1>7, <2>1, <2>2, SeenLarge
  <2>4. Large(W * Chunk(p), v) = p
    BY <1>4, <1>5, LargeAt
  <2> QED BY <1>1, <1>6, <2>3, <2>4, TranslateIs DEF Complete
<1>14. CASE ~ d.large
  <2>1. k \in OnesAt(cs, n, v)
    BY <1>3, <1>9, <1>12, <1>14 DEF OnesAt
  <2>2. LargeOnes(cs, n, v) = {}
    BY <1>11, <1>14 DEF LargeOnes
  <2>3. \A i \in OnesAt(cs, n, v) : cs[i].physical = p
    BY <1>11 DEF OnesAt
  <2>4. Sees(Entry2(ts, r, v), Entry1(ts, r, v), v) = p
    BY <1>3, <1>7, <2>1, <2>2, <2>3, SeenSmall
  <2> QED BY <1>1, <1>6, <2>4, TranslateIs DEF Complete
<1> QED BY <1>13, <1>14

LEMMA KernelMapped ==
  ASSUME NEW ts, NEW pl, NEW r, NEW m, Complete(ts, pl, r, m), RegularMap(m),
         NEW q \in 0 .. kernelSize - 1
  PROVE  TranslateIn(ts, r, virtualBase + q) = physicalBase + q
<1>1. PICK cs, n, v : cs = CallsOf(m) /\ n = Len(cs) /\ v = virtualBase + q
  OBVIOUS
<1>2. m \in MemoryMaps
  BY DEF Complete
<1>3. n \in Nat /\ DOMAIN cs = 1 .. n /\ \A i \in DOMAIN cs : cs[i] \in Calls /\ IsCall(cs[i], m)
  BY <1>1, <1>2, CallsAre
<1>4. v \in Nat /\ v >= virtualBase /\ ~ (v < virtualBase) /\ v \in VirtualPages
  BY <1>1, Addresses
<1>5. Chunk(v) \in Nat /\ ~ (Chunk(v) < Chunk(virtualBase))
  BY <1>4, Sides
<1>6. Chunk(v) # Chunk(stackAddr)
  BY <1>5, StackAside, Bases
<1>7. BuiltAt(ts, r, cs, n, v)
  BY <1>1, <1>4, <1>6 DEF Complete, Built
<1>8. PICK k \in DOMAIN cs : ~ cs[k].large /\ cs[k].virtual = v
  BY <1>1, <1>2, CallsAre
<1>9. ASSUME NEW i \in 1 .. n, Chunk(cs[i].virtual) = Chunk(v)
      PROVE  ~ cs[i].large /\ (cs[i].virtual = v => cs[i].physical = physicalBase + q)
  <2>1. cs[i] \in Calls /\ IsCall(cs[i], m) /\ cs[k] \in Calls /\ IsCall(cs[k], m)
    BY <1>3, <1>9
  <2> QED BY <1>1, <1>2, <1>8, <1>9, <2>1, AtKernel
<1>10. k \in OnesAt(cs, n, v)
  BY <1>3, <1>8 DEF OnesAt
<1>11. LargeOnes(cs, n, v) = {}
  BY <1>9 DEF LargeOnes
<1>12. \A i \in OnesAt(cs, n, v) : cs[i].physical = physicalBase + q
  BY <1>9 DEF OnesAt
<1>13. Sees(Entry2(ts, r, v), Entry1(ts, r, v), v) = physicalBase + q
  BY <1>3, <1>7, <1>10, <1>11, <1>12, SeenSmall
<1> QED BY <1>1, <1>4, <1>13, TranslateIs DEF Complete

-----------------------------------------------------------------------------
(* The inductive invariant.                                                *)

Types ==
  /\ memmap \in MemoryMaps
  /\ PML4 \in {0} \cup DOMAIN tables
  /\ cr3 \in [CPUs -> {0} \cup DOMAIN tables]
  /\ initialising \in CPUs \cup {None}
  /\ stacks \in Seq(Stacks) /\ processPML4 \in Seq(DOMAIN tables)
  /\ overwritten \subseteq Physical

(* The tables are built one after the other, and processes come last.      *)
InOrder ==
  /\ initialising # None =>
       /\ PML4 # 0 /\ cr3[initialising] = 0 /\ stacks = <<>>
       /\ \A c \in CPUs : cr3[c] # PML4
  /\ stacks # <<>> => \A c \in CPUs : cr3[c] # 0
  /\ Len(processPML4) <= Len(stacks)
  /\ PML4 = 0 => \A c \in CPUs : cr3[c] = 0

(* t holds the calls of cs after the first n.                              *)
Remaining(t, cs, n) ==
  /\ t \in Seq(Calls) /\ Len(t) = Len(cs) - n
  /\ \A i \in 1 .. Len(t) : t[i] = cs[n + i]

InitDone(cs) ==
  /\ initialising # None =>
       \E n \in 0 .. Len(cs) : Remaining(todo, cs, n) /\ Built(tables, PML4, cs, n)
  /\ initialising = None =>
       /\ PML4 # 0 => Built(tables, PML4, cs, Len(cs))
       /\ \/ todo = <<>>
          \/ stacks # <<>> /\ \E s \in Stacks : todo = <<Call(s, stackAddr, TRUE)>>

(* The trees of the processors, complete, and the tables of the processes, *)
(* copied from the last of them.                                           *)
Forest(pl, cs) ==
  /\ Placed(tables, pl)
  /\ PML4 # 0 => pl[PML4] = Top(PML4)
  /\ \A c \in CPUs : cr3[c] # 0 =>
       pl[cr3[c]] = Top(cr3[c]) /\ Built(tables, cr3[c], cs, Len(cs))
  /\ \A i \in DOMAIN processPML4 :
       /\ pl[processPML4[i]] = Process(processPML4[i])
       /\ \A j \in 0 .. TOP - 1 :
            tables[processPML4[i]][j] = IF j \in Copied THEN tables[PML4][j] ELSE Empty

IInv ==
  /\ Types
  /\ InOrder
  /\ InitDone(CallsOf(memmap))
  /\ \E pl : Forest(pl, CallsOf(memmap))
  /\ RegularMap(memmap) => overwritten = {}

LEMMA SeqOf ==
  ASSUME NEW S, NEW T, S \subseteq T, NEW s \in Seq(S)
  PROVE  s \in Seq(T)
<1>1. /\ Len(s) \in Nat /\ DOMAIN s = 1 .. Len(s) /\ s = [i \in 1 .. Len(s) |-> s[i]]
      /\ \A i \in 1 .. Len(s) : s[i] \in S
  OBVIOUS
<1>2. s \in [1 .. Len(s) -> T]
  BY <1>1
<1> QED BY <1>1, <1>2

LEMMA InitHolds == Init => IInv
<1> SUFFICES ASSUME Init PROVE IInv
  OBVIOUS
<1>1. DOMAIN tables = {} /\ tables = [f \in {} |-> EmptyTop]
  BY DEF Init
<1>2. Types
  BY <1>1 DEF Types, Init
<1>3. InOrder
  BY DEF InOrder, Init
<1>4. InitDone(CallsOf(memmap))
  BY DEF InitDone, Init
<1>5. Forest([t \in {} |-> 0], CallsOf(memmap))
  <2>1. 0 \in Nat /\ {} = TABLES .. TABLES + 0 - 1
    BY Sizes
  <2>2. Placed(tables, [t \in {} |-> 0])
    BY <1>1, <2>1 DEF Placed
  <2> QED BY <2>2 DEF Forest, Init
<1>6. overwritten = {}
  BY DEF Init
<1> QED BY <1>2, <1>3, <1>4, <1>5, <1>6 DEF IInv

(* Once a processor has a stack to map, all have their tables.             *)
LEMMA AllReady ==
  ASSUME IInv
  PROVE  /\ stacks # <<>> => PML4 # 0 /\ initialising = None
         /\ Len(processPML4) < Len(stacks) => stacks # <<>>
         /\ DOMAIN processPML4 # {} => stacks # <<>>
         /\ initialising # None => PML4 # 0 /\ DOMAIN processPML4 = {}
<1>1. BSP \in CPUs
  BY PageTableAssumption DEF PageTableAssumption
<1>2. stacks # <<>> => PML4 # 0 /\ initialising = None
  BY <1>1 DEF IInv, InOrder
<1>3. /\ Len(processPML4) \in Nat /\ Len(stacks) \in Nat /\ DOMAIN processPML4 = 1 .. Len(processPML4)
      /\ stacks = <<>> => Len(stacks) = 0
  BY DEF IInv, Types
<1>4. Len(processPML4) < Len(stacks) => stacks # <<>>
  BY <1>3
<1>5. DOMAIN processPML4 # {} => stacks # <<>>
  BY <1>3 DEF IInv, InOrder
<1>6. initialising # None => PML4 # 0 /\ stacks = <<>>
  BY DEF IInv, InOrder
<1> QED BY <1>2, <1>4, <1>5, <1>6

(* What adding a top-level table keeps.                                    *)
LEMMA AddingKeeps ==
  ASSUME IInv, NEW pl, Forest(pl, CallsOf(memmap)), NEW f, f = NewFrame(tables), NEW tab,
         NEW place, TableOK(tab, Adds(pl, f, place), f), NEW ts2, ts2 = With(tables, f, tab)
  PROVE  /\ Placed(ts2, Adds(pl, f, place)) /\ Adds(pl, f, place)[f] = place
         /\ DOMAIN ts2 = DOMAIN tables \cup {f} /\ f \notin DOMAIN tables /\ f # 0
         /\ \A t \in DOMAIN tables : ts2[t] = tables[t] /\ Adds(pl, f, place)[t] = pl[t]
         /\ ts2[f] = tab
         /\ \A q \in DOMAIN tables : pl[q] = Top(q) => \A w \in VirtualPages :
              Unchanged(tables, ts2, q, w)
         /\ \A n : \A q \in DOMAIN tables : pl[q] = Top(q) /\ Built(tables, q, CallsOf(memmap), n) =>
              Built(ts2, q, CallsOf(memmap), n)
<1>1. Placed(tables, pl) /\ DOMAIN pl = DOMAIN tables
  BY DEF Forest, Placed
<1>2. f \notin DOMAIN tables /\ f # 0 /\ f \notin Physical
  BY <1>1, NewFrameIs
<1>3. PICK pl2 : pl2 = Adds(pl, f, place)
  OBVIOUS
<1>4. /\ Placed(ts2, pl2) /\ Extends(pl, pl2) /\ DOMAIN ts2 = DOMAIN tables \cup {f}
      /\ \A t \in DOMAIN tables : ts2[t] = tables[t]
      /\ ts2[f] = tab
  <2>1. TableOK(tab, Adds(pl, NewFrame(tables), place), NewFrame(tables))
    OBVIOUS
  <2>2. ts2 = With(tables, NewFrame(tables), tab) /\ pl2 = Adds(pl, NewFrame(tables), place)
    BY <1>3
  <2>3. DOMAIN tables \cup {f} = DOMAIN tables \cup {NewFrame(tables)}
    OBVIOUS
  <2> QED BY ONLY <1>1, <2>1, <2>2, <2>3, f = NewFrame(tables), Added
<1>5. /\ pl2[f] = place /\ \A t \in DOMAIN tables : pl2[t] = pl[t]
  BY <1>1, <1>2, <1>3 DEF Adds
<1>6. ASSUME NEW q \in DOMAIN tables, pl[q] = Top(q), NEW w \in VirtualPages
      PROVE  Unchanged(tables, ts2, q, w)
  BY <1>1, <1>2, <1>4, <1>6, AddedUnseen DEF Unchanged
<1>7. ASSUME NEW q \in DOMAIN tables, NEW n, pl[q] = Top(q), Built(tables, q, CallsOf(memmap), n)
      PROVE  Built(ts2, q, CallsOf(memmap), n)
  BY <1>6, <1>7, BuiltKept
<1> QED BY <1>2, <1>3, <1>4, <1>5, <1>6, <1>7

LEMMA EmptyTopOK ==
  ASSUME NEW pl, NEW f
  PROVE  TableOK(EmptyTop, Adds(pl, f, Top(f)), f)
<1>1. Adds(pl, f, Top(f))[f] = Top(f)
  BY DEF Adds
<1>2. TopOK(EmptyTop, Adds(pl, f, Top(f)), f)
  BY <1>1 DEF TopOK, Leads, EmptyTop
<1> QED BY <1>2 DEF TableOK

LEMMA CopyOK ==
  ASSUME IInv, NEW pl, Forest(pl, CallsOf(memmap)), Len(processPML4) < Len(stacks), NEW f,
         NEW tab, tab = [i \in 0 .. TOP - 1 |-> IF i \in Copied THEN tables[PML4][i] ELSE Empty]
  PROVE  TableOK(tab, Adds(pl, f, Process(f)), f)
<1>1. PML4 # 0 /\ PML4 \in DOMAIN tables
  BY AllReady DEF IInv, Types
<1>2. Placed(tables, pl) /\ DOMAIN pl = DOMAIN tables /\ pl[PML4] = Top(PML4)
  BY <1>1 DEF Forest, Placed
<1>3. PICK pl2 : pl2 = Adds(pl, f, Process(f))
  OBVIOUS
<1>4. pl2[f] = Process(f) /\ DOMAIN pl \subseteq DOMAIN pl2
  BY <1>3 DEF Adds
<1>5. \A i \in 0 .. TOP - 1 : Leads(tables[PML4][i], pl, Third(PML4, i))
  BY <1>1, <1>2, AtTop DEF TopOK
<1>6. ASSUME NEW i \in 0 .. TOP - 1
      PROVE  tab[i] \in Entry /\ tab[i].address \in Physical \cup DOMAIN pl2
  <2>1. tables[PML4][i] \in Entry /\ tables[PML4][i].address \in Physical \cup DOMAIN pl2
    BY <1>4, <1>5, EmptyIs DEF Leads
  <2> QED BY <2>1, EmptyIs
<1>7. ProcessOK(tab, pl2, f)
  BY <1>4, <1>6 DEF ProcessOK
<1> QED BY <1>3, <1>7 DEF TableOK

LEMMA InitPagingKeeps ==
  ASSUME IInv, NEW c \in CPUs, InitPaging(c)
  PROVE  IInv'
<1>1. PICK cs : cs = CallsOf(memmap)
  OBVIOUS
<1>2. PICK f, ts2 : f = NewFrame(tables) /\ ts2 = With(tables, f, EmptyTop)
  OBVIOUS
<1>3. /\ initialising = None /\ cr3[c] = 0 /\ initialising' = c /\ PML4' = f
      /\ tables' = ts2 /\ todo' = cs
      /\ memmap' = memmap /\ cr3' = cr3 /\ stacks' = stacks /\ processPML4' = processPML4
      /\ overwritten' = overwritten
  BY <1>1, <1>2, InitCallsAre DEF InitPaging
<1>4. PICK pl : Forest(pl, cs)
  BY <1>1 DEF IInv
<1>5. PICK pl2 : pl2 = Adds(pl, f, Top(f))
  OBVIOUS
<1>6. TableOK(EmptyTop, pl2, f)
  BY <1>5, EmptyTopOK
<1>7. /\ Placed(ts2, pl2) /\ pl2[f] = Top(f)
      /\ DOMAIN ts2 = DOMAIN tables \cup {f} /\ f \notin DOMAIN tables /\ f # 0
      /\ \A t \in DOMAIN tables : ts2[t] = tables[t] /\ pl2[t] = pl[t]
      /\ ts2[f] = EmptyTop
      /\ \A n : \A q \in DOMAIN tables :
            pl[q] = Top(q) /\ Built(tables, q, cs, n) => Built(ts2, q, cs, n)
  BY <1>1, <1>2, <1>4, <1>5, <1>6, AddingKeeps
<1>8. stacks = <<>> /\ None \notin CPUs
  BY <1>3, PageTableAssumption DEF IInv, InOrder, PageTableAssumption
<1>9. Types'
  <2>1. processPML4 \in Seq(DOMAIN ts2)
    BY <1>7, SeqOf DEF IInv, Types
  <2>2. cr3 \in [CPUs -> {0} \cup DOMAIN ts2]
    BY <1>7 DEF IInv, Types
  <2> QED BY <1>3, <1>7, <2>1, <2>2 DEF IInv, Types
<1>10. InOrder'
  <2>1. \A d \in CPUs : cr3[d] # f
    BY <1>7 DEF IInv, Types
  <2> QED BY <1>3, <1>7, <1>8, <2>1 DEF IInv, InOrder
<1>11. InitDone(cs)'
  <2>1. Built(ts2, f, cs, 0)
    BY <1>7, BuiltStart
  <2>2. Remaining(cs, cs, 0) /\ 0 \in 0 .. Len(cs)
    BY <1>1, CallsAre DEF IInv, Types, Remaining
  <2>3. initialising' # None
    BY <1>3, <1>8
  <2> QED BY <1>3, <2>1, <2>2, <2>3 DEF InitDone
<1>12. Forest(pl2, cs)'
  <2>1. ASSUME NEW d \in CPUs, cr3[d] # 0
        PROVE  pl2[cr3[d]] = Top(cr3[d]) /\ Built(ts2, cr3[d], cs, Len(cs))
    <3>1. cr3[d] \in DOMAIN tables
      BY <2>1 DEF IInv, Types
    <3>2. pl[cr3[d]] = Top(cr3[d]) /\ Built(tables, cr3[d], cs, Len(cs))
      BY <1>4, <2>1 DEF Forest
    <3> QED BY <1>7, <3>1, <3>2
  <2>2. DOMAIN processPML4 = {}
    BY <1>8, AllReady
  <2> QED BY <1>3, <1>7, <2>1, <2>2 DEF Forest
<1> QED BY <1>1, <1>3, <1>9, <1>10, <1>11, <1>12 DEF IInv

LEMMA LoadCr3Keeps ==
  ASSUME IInv, NEW c \in CPUs, LoadCr3(c)
  PROVE  IInv'
<1>1. PICK cs : cs = CallsOf(memmap)
  OBVIOUS
<1>2. /\ initialising = c /\ todo = <<>> /\ cr3' = [cr3 EXCEPT ![c] = PML4]
      /\ initialising' = None
      /\ memmap' = memmap /\ tables' = tables /\ PML4' = PML4 /\ todo' = todo
      /\ stacks' = stacks /\ processPML4' = processPML4 /\ overwritten' = overwritten
  BY DEF LoadCr3
<1>3. None \notin CPUs
  BY PageTableAssumption DEF PageTableAssumption
<1>4. PML4 # 0 /\ stacks = <<>> /\ PML4 \in DOMAIN tables
  BY <1>2, <1>3 DEF IInv, InOrder, Types
<1>5. Built(tables, PML4, cs, Len(cs))
  <2>1. PICK n \in 0 .. Len(cs) : Remaining(todo, cs, n) /\ Built(tables, PML4, cs, n)
    BY <1>1, <1>2, <1>3 DEF IInv, InitDone
  <2>2. Len(cs) \in Nat
    BY <1>1, CallsAre DEF IInv, Types
  <2>3. n = Len(cs)
    BY <1>2, <2>1, <2>2 DEF Remaining
  <2> QED BY <2>1, <2>3
<1>6. cr3 \in [CPUs -> {0} \cup DOMAIN tables] /\ cr3'[c] = PML4 /\ \A d \in CPUs : d # c => cr3'[d] = cr3[d]
  BY <1>2 DEF IInv, Types
<1>7. Types'
  <2>1. cr3' \in [CPUs -> {0} \cup DOMAIN tables]
    BY <1>2, <1>4, <1>6
  <2> QED BY <1>2, <2>1 DEF IInv, Types
<1>8. InOrder'
  BY <1>2, <1>4 DEF IInv, InOrder
<1>9. InitDone(cs)'
  BY <1>2, <1>5 DEF InitDone
<1>10. PICK pl : Forest(pl, cs)
  BY <1>1 DEF IInv
<1>11. Forest(pl, cs)'
  BY <1>2, <1>4, <1>5, <1>6, <1>10 DEF Forest
<1> QED BY <1>1, <1>2, <1>7, <1>8, <1>9, <1>11 DEF IInv

LEMMA SetupThreadContextKeeps ==
  ASSUME IInv, NEW s \in Stacks, SetupThreadContext(s)
  PROVE  IInv'
<1>1. PICK cs : cs = CallsOf(memmap)
  OBVIOUS
<1>2. /\ \A c \in CPUs : cr3[c] # 0
      /\ stacks' = Append(stacks, s) /\ todo' = <<Call(s, stackAddr, TRUE)>>
      /\ memmap' = memmap /\ tables' = tables /\ PML4' = PML4 /\ cr3' = cr3
      /\ initialising' = initialising /\ processPML4' = processPML4 /\ overwritten' = overwritten
  BY DEF SetupThreadContext
<1>3. initialising = None
  BY <1>2 DEF IInv, InOrder, Types
<1>4. stacks' \in Seq(Stacks) /\ stacks' # <<>> /\ Len(stacks') = Len(stacks) + 1 /\ Len(stacks) \in Nat
  <2>1. stacks \in Seq(Stacks)
    BY DEF IInv, Types
  <2> QED BY <1>2, <2>1
<1>5. Types'
  BY <1>2, <1>4 DEF IInv, Types
<1>6. InOrder'
  <2>1. Len(processPML4) \in Nat
    BY DEF IInv, Types
  <2> QED BY <1>2, <1>3, <1>4, <2>1 DEF IInv, InOrder
<1>7. InitDone(cs)'
  BY <1>1, <1>2, <1>3, <1>4 DEF IInv, InitDone
<1>8. PICK pl : Forest(pl, cs)
  BY <1>1 DEF IInv
<1>9. Forest(pl, cs)'
  BY <1>2, <1>8 DEF Forest
<1> QED BY <1>1, <1>2, <1>5, <1>6, <1>7, <1>9 DEF IInv

LEMMA newPML4Keeps ==
  ASSUME IInv, newPML4
  PROVE  IInv'
<1>1. PICK cs : cs = CallsOf(memmap)
  OBVIOUS
<1>2. PICK tab : tab = [i \in 0 .. TOP - 1 |-> IF i \in Copied THEN tables[PML4][i] ELSE Empty]
  OBVIOUS
<1>3. PICK f, ts2 : f = NewFrame(tables) /\ ts2 = With(tables, f, tab)
  OBVIOUS
<1>4. /\ Len(processPML4) < Len(stacks) /\ tables' = ts2 /\ processPML4' = Append(processPML4, f)
      /\ todo = <<>>
      /\ memmap' = memmap /\ PML4' = PML4 /\ cr3' = cr3 /\ initialising' = initialising
      /\ todo' = todo /\ stacks' = stacks /\ overwritten' = overwritten
  BY <1>2, <1>3 DEF newPML4
<1>5. stacks # <<>> /\ PML4 # 0 /\ initialising = None /\ PML4 \in DOMAIN tables
  <2>1. stacks # <<>> /\ PML4 # 0 /\ initialising = None
    BY <1>4, AllReady
  <2> QED BY <2>1 DEF IInv, Types
<1>6. PICK pl : Forest(pl, cs)
  BY <1>1 DEF IInv
<1>7. PICK pl2 : pl2 = Adds(pl, f, Process(f))
  OBVIOUS
<1>8. Placed(tables, pl) /\ DOMAIN pl = DOMAIN tables /\ pl[PML4] = Top(PML4)
  BY <1>5, <1>6 DEF Forest, Placed
<1>9. TableOK(tab, pl2, f)
  BY <1>1, <1>2, <1>4, <1>6, <1>7, CopyOK
<1>10. /\ Placed(ts2, pl2) /\ pl2[f] = Process(f)
       /\ DOMAIN ts2 = DOMAIN tables \cup {f} /\ f \notin DOMAIN tables /\ f # 0
       /\ \A t \in DOMAIN tables : ts2[t] = tables[t] /\ pl2[t] = pl[t]
       /\ ts2[f] = tab
       /\ \A n : \A q \in DOMAIN tables :
            pl[q] = Top(q) /\ Built(tables, q, cs, n) => Built(ts2, q, cs, n)
  BY <1>1, <1>3, <1>6, <1>7, <1>9, AddingKeeps
<1>11. /\ processPML4' \in Seq(DOMAIN ts2) /\ Len(processPML4') = Len(processPML4) + 1
       /\ Len(processPML4) \in Nat /\ Len(stacks) \in Nat
       /\ DOMAIN processPML4 = 1 .. Len(processPML4)
       /\ DOMAIN processPML4' = 1 .. Len(processPML4) + 1
       /\ processPML4'[Len(processPML4) + 1] = f
       /\ \A i \in DOMAIN processPML4 : processPML4'[i] = processPML4[i] /\ processPML4[i] \in DOMAIN tables
  <2>1. processPML4 \in Seq(DOMAIN ts2) /\ f \in DOMAIN ts2 /\ processPML4 \in Seq(DOMAIN tables)
    BY <1>10, SeqOf DEF IInv, Types
  <2>2. stacks \in Seq(Stacks)
    BY DEF IInv, Types
  <2> QED BY <1>4, <2>1, <2>2
<1>12. Types'
  <2>1. cr3 \in [CPUs -> {0} \cup DOMAIN ts2]
    BY <1>10 DEF IInv, Types
  <2> QED BY <1>4, <1>10, <1>11, <2>1 DEF IInv, Types
<1>13. InOrder'
  BY <1>4, <1>11 DEF IInv, InOrder
<1>14. InitDone(cs)'
  <2>1. Built(ts2, PML4, cs, Len(cs))
    BY <1>1, <1>5, <1>8, <1>10 DEF IInv, InitDone
  <2> QED BY <1>4, <1>5, <2>1 DEF InitDone
<1>15. Forest(pl2, cs)'
  <2>1. ASSUME NEW d \in CPUs, cr3[d] # 0
        PROVE  pl2[cr3[d]] = Top(cr3[d]) /\ Built(ts2, cr3[d], cs, Len(cs))
    <3>1. cr3[d] \in DOMAIN tables
      BY <2>1 DEF IInv, Types
    <3>2. pl[cr3[d]] = Top(cr3[d]) /\ Built(tables, cr3[d], cs, Len(cs))
      BY <1>6, <2>1 DEF Forest
    <3> QED BY <1>10, <3>1, <3>2
  <2>2. ASSUME NEW i \in DOMAIN processPML4'
        PROVE  /\ pl2[processPML4'[i]] = Process(processPML4'[i])
               /\ \A j \in 0 .. TOP - 1 :
                    ts2[processPML4'[i]][j] = IF j \in Copied THEN ts2[PML4][j] ELSE Empty
    <3>1. CASE i \in DOMAIN processPML4
      <4>1. /\ pl[processPML4[i]] = Process(processPML4[i])
            /\ \A j \in 0 .. TOP - 1 :
                 tables[processPML4[i]][j] = IF j \in Copied THEN tables[PML4][j] ELSE Empty
        BY <1>6, <3>1 DEF Forest
      <4>2. processPML4'[i] = processPML4[i] /\ processPML4[i] \in DOMAIN tables
        BY <1>11, <3>1
      <4> QED BY <1>5, <1>10, <4>1, <4>2
    <3>2. CASE i = Len(processPML4) + 1
      <4>1. processPML4'[i] = f /\ ts2[f] = tab /\ pl2[f] = Process(f) /\ ts2[PML4] = tables[PML4]
        BY <1>5, <1>10, <1>11, <3>2
      <4> QED BY <1>2, <4>1
    <3> QED BY <1>11, <3>1, <3>2
  <2>3. pl2[PML4] = Top(PML4)
    BY <1>5, <1>8, <1>10
  <2> QED BY <1>4, <1>10, <2>1, <2>2, <2>3 DEF Forest
<1> QED BY <1>1, <1>4, <1>12, <1>13, <1>14, <1>15 DEF IInv

(* What a step of map does.                                                *)
LEMMA MapDoes ==
  ASSUME IInv, Map, NEW pl, Forest(pl, CallsOf(memmap))
  PROVE  /\ todo # <<>> /\ Head(todo) \in Calls
         /\ PML4 \in DOMAIN tables /\ PML4 # 0 /\ pl[PML4] = Top(PML4)
         /\ \E pl2 : Preserves(tables, pl, tables', pl2, pml4Entry(Head(todo).virtual))
         /\ Effect(tables, tables', PML4, Head(todo))
         /\ Others(tables, pl, tables', PML4, Head(todo))
         /\ \/ overwritten' = overwritten
            \/ \E x \in Physical :
                 /\ overwritten' = overwritten \cup {x}
                 /\ ~ Head(todo).large
                 /\ isValid(Entry2(tables, PML4, Head(todo).virtual))
                 /\ Entry2(tables, PML4, Head(todo).virtual).address \in Physical
<1>1. PICK m, pte :
        m = Head(todo) /\ pte = virtualAddrToPTE(tables, PML4, m.virtual, m.large)
  OBVIOUS
<1>2. todo # <<>>
  BY DEF Map
<1>3. PML4 # 0 /\ PML4 \in DOMAIN tables /\ pl[PML4] = Top(PML4) /\ Placed(tables, pl)
  <2>1. PML4 # 0
    BY <1>2, AllReady DEF IInv, InitDone
  <2> QED BY <2>1 DEF IInv, Types, Forest
<1>4. m \in Calls
  <2>1. CASE initialising # None
    <3>1. todo \in Seq(Calls)
      BY <2>1 DEF IInv, InitDone, Remaining
    <3> QED BY <1>1, <1>2, <3>1
  <2>2. CASE initialising = None
    <3>1. PICK s \in Stacks : todo = <<Call(s, stackAddr, TRUE)>>
      BY <1>2, <2>2 DEF IInv, InitDone
    <3>2. m = Call(s, stackAddr, TRUE)
      BY <1>1, <3>1
    <3>3. s \in Physical
      BY Sizes, Addresses, PageTableAssumption DEF PageTableAssumption, Physical
    <3> QED BY <3>2, <3>3, StackAside DEF Call, Calls
  <2> QED BY <2>1, <2>2
<1>5. IF pte.table \in DOMAIN pte.tables
      THEN /\ tables' = [pte.tables EXCEPT ![pte.table][pte.entry] =
                           [present |-> TRUE, large |-> @.large \/ m.large,
                            address |-> m.physical]]
           /\ overwritten' = overwritten
      ELSE /\ tables' = pte.tables
           /\ overwritten' = overwritten \cup {pte.table}
  BY <1>1 DEF Map
<1>6. Outcome(tables, PML4, m, tables')
  BY <1>1, <1>5 DEF Outcome, NewEntry
<1>7. /\ \E pl2 : Preserves(tables, pl, tables', pl2, pml4Entry(m.virtual))
      /\ Effect(tables, tables', PML4, m)
      /\ Others(tables, pl, tables', PML4, m)
      /\ pte.table \in DOMAIN pte.tables \/ pte.table \in Physical
      /\ pte.table \notin DOMAIN pte.tables =>
           /\ ~ m.large
           /\ isValid(Entry2(tables, PML4, m.virtual))
           /\ Entry2(tables, PML4, m.virtual).address \in Physical
  BY <1>1, <1>3, <1>4, <1>6, Mapped
<1> QED BY <1>1, <1>2, <1>3, <1>4, <1>5, <1>7

(* A small page is not on the way of the stacks.                           *)
LEMMA SmallAside ==
  ASSUME NEW m \in MemoryMaps, NEW c \in Calls, IsCall(c, m), ~ c.large
  PROVE  Chunk(c.virtual) # Chunk(stackAddr)
<1>1. ~ IsLow(c)
  BY LowIs
<1>2. ASSUME NEW j \in DOMAIN m, IsRegion(c, m[j]) PROVE Chunk(c.virtual) >= Chunk(hhdmOffset)
  BY <1>2, RegionIs, Bases
<1>3. IsKernel(c) => Chunk(c.virtual) >= Chunk(hhdmOffset)
  BY KernelIs, Bases
<1>4. Chunk(c.virtual) >= Chunk(hhdmOffset) /\ Chunk(c.virtual) \in Nat
  BY <1>1, <1>2, <1>3, Monotone, Entries DEF IsCall, Calls
<1> QED BY <1>4, StackAside, Bases

(* Of a regular memory map no small page is mapped where a large one is.   *)
LEMMA NotOverwritten ==
  ASSUME NEW m \in MemoryMaps, RegularMap(m), NEW cs, cs = CallsOf(m),
         NEW n \in Nat, n + 1 \in DOMAIN cs, ~ cs[n + 1].large,
         NEW ts, NEW r, Built(ts, r, cs, n)
  PROVE  ~ (/\ isValid(Entry2(ts, r, cs[n + 1].virtual))
            /\ Entry2(ts, r, cs[n + 1].virtual).address \in Physical)
<1>1. PICK c, v, e2 : c = cs[n + 1] /\ v = c.virtual /\ e2 = Entry2(ts, r, v)
  OBVIOUS
<1>2. c \in Calls /\ IsCall(c, m) /\ ~ c.large /\ DOMAIN cs = 1 .. Len(cs) /\ Len(cs) \in Nat
  BY <1>1, CallsAre
<1>3. v \in VirtualPages /\ Chunk(v) # Chunk(stackAddr)
  BY <1>1, <1>2, SmallAside DEF Calls
<1>4. LargeOnes(cs, n, v) = {}
  <2> SUFFICES ASSUME NEW i \in LargeOnes(cs, n, v) PROVE FALSE
    OBVIOUS
  <2>1. i \in DOMAIN cs /\ cs[i].large /\ Chunk(cs[i].virtual) = Chunk(v)
    BY <1>2 DEF LargeOnes
  <2>2. cs[i] \in Calls /\ IsCall(cs[i], m)
    BY <2>1, CallsAre
  <2> QED BY <1>1, <1>2, <2>1, <2>2, Apart
<1>5. BuiltAt(ts, r, cs, n, v)
  BY <1>3 DEF Built
<1>6. e2 = Empty \/ e2.address \notin Physical
  BY <1>1, <1>4, <1>5 DEF BuiltAt, BuiltAs
<1> QED BY <1>1, <1>6, EmptyIs

LEMMA TailIs ==
  ASSUME NEW cs, Len(cs) \in Nat, NEW n \in 0 .. Len(cs), NEW t, t # <<>>, Remaining(t, cs, n)
  PROVE  /\ n + 1 \in 1 .. Len(cs) /\ Head(t) = cs[n + 1]
         /\ n + 1 \in 0 .. Len(cs) /\ Remaining(Tail(t), cs, n + 1)
<1>1. t \in Seq(Calls) /\ Len(t) = Len(cs) - n /\ \A i \in 1 .. Len(t) : t[i] = cs[n + i]
  BY DEF Remaining
<1>2. Len(t) > 0 /\ Head(t) = t[1]
  BY <1>1
<1>3. n + 1 \in 1 .. Len(cs) /\ Head(t) = cs[n + 1] /\ n + 1 \in 0 .. Len(cs)
  BY <1>1, <1>2
<1>4. /\ Tail(t) \in Seq(Calls) /\ Len(Tail(t)) = Len(t) - 1
      /\ \A i \in 1 .. Len(Tail(t)) : Tail(t)[i] = t[i + 1]
  BY <1>1, <1>2
<1>5. \A i \in 1 .. Len(Tail(t)) : Tail(t)[i] = cs[(n + 1) + i]
  <2> TAKE i \in 1 .. Len(Tail(t))
  <2>1. i + 1 \in 1 .. Len(t) /\ n + (i + 1) = (n + 1) + i
    BY <1>1, <1>4
  <2> QED BY <1>1, <1>4, <2>1
<1> QED BY <1>1, <1>3, <1>4, <1>5 DEF Remaining

LEMMA MapKeeps ==
  ASSUME IInv, Map
  PROVE  IInv'
<1>1. PICK cs : cs = CallsOf(memmap)
  OBVIOUS
<1>2. PICK m, ts2 : m = Head(todo) /\ ts2 = tables'
  OBVIOUS
<1>3. /\ todo' = Tail(todo)
      /\ memmap' = memmap /\ PML4' = PML4 /\ cr3' = cr3 /\ initialising' = initialising
      /\ stacks' = stacks /\ processPML4' = processPML4
  BY DEF Map
<1>4. PICK pl : Forest(pl, cs)
  BY <1>1 DEF IInv
<1>5. /\ todo # <<>> /\ m \in Calls
      /\ PML4 \in DOMAIN tables /\ PML4 # 0 /\ pl[PML4] = Top(PML4)
      /\ \E pl2 : Preserves(tables, pl, ts2, pl2, pml4Entry(m.virtual))
      /\ Effect(tables, ts2, PML4, m)
      /\ Others(tables, pl, ts2, PML4, m)
      /\ \/ overwritten' = overwritten
         \/ \E x \in Physical :
              /\ overwritten' = overwritten \cup {x}
              /\ ~ m.large
              /\ isValid(Entry2(tables, PML4, m.virtual))
              /\ Entry2(tables, PML4, m.virtual).address \in Physical
  BY <1>1, <1>2, <1>4, MapDoes
<1>6. PICK pl2 : Preserves(tables, pl, ts2, pl2, pml4Entry(m.virtual))
  BY <1>5
<1>7. /\ Placed(tables, pl) /\ DOMAIN pl = DOMAIN tables /\ Placed(ts2, pl2) /\ DOMAIN pl2 = DOMAIN ts2
  BY <1>4, <1>6 DEF Forest, Preserves, Placed
<1>8. /\ \A t \in DOMAIN tables : t \in DOMAIN ts2 /\ pl2[t] = pl[t]
      /\ \A t \in DOMAIN tables : pl[t] = Process(t) => ts2[t] = tables[t]
      /\ \A t \in DOMAIN tables : pl[t] = Top(t) =>
           \A j \in 0 .. TOP - 1 : j # pml4Entry(m.virtual) => ts2[t][j] = tables[t][j]
  BY <1>6, <1>7 DEF Preserves, Extends
<1>9. Types'
  <2>1. DOMAIN tables \subseteq DOMAIN ts2
    BY <1>8
  <2>2. processPML4 \in Seq(DOMAIN ts2)
    BY <2>1, SeqOf DEF IInv, Types
  <2>3. cr3 \in [CPUs -> {0} \cup DOMAIN ts2]
    BY <2>1 DEF IInv, Types
  <2>4. overwritten' \subseteq Physical
    BY <1>5 DEF IInv, Types
  <2> QED BY <1>2, <1>3, <2>1, <2>2, <2>3, <2>4 DEF IInv, Types
<1>10. InOrder'
  BY <1>3 DEF IInv, InOrder
<1>11. Len(cs) \in Nat /\ DOMAIN cs = 1 .. Len(cs) /\ memmap \in MemoryMaps
  BY <1>1, CallsAre DEF IInv, Types
<1>12. CASE initialising # None
  <2>1. PICK n \in 0 .. Len(cs) : Remaining(todo, cs, n) /\ Built(tables, PML4, cs, n)
    BY <1>1, <1>12 DEF IInv, InitDone
  <2>2. /\ n \in Nat /\ n + 1 \in DOMAIN cs /\ m = cs[n + 1]
        /\ n + 1 \in 0 .. Len(cs) /\ Remaining(todo', cs, n + 1)
    BY <1>2, <1>3, <1>5, <1>11, <2>1, TailIs
  <2>3. Built(ts2, PML4, cs, n + 1)
    BY <1>1, <1>5, <1>7, <1>11, <2>1, <2>2, BuiltOn
  <2>4. InitDone(cs)'
    BY <1>2, <1>3, <1>12, <2>2, <2>3 DEF InitDone
  <2>5. ASSUME NEW d \in CPUs, cr3[d] # 0
        PROVE  pl2[cr3[d]] = Top(cr3[d]) /\ Built(ts2, cr3[d], cs, Len(cs))
    <3>1. cr3[d] \in DOMAIN tables /\ cr3[d] # PML4
      BY <1>12, <2>5 DEF IInv, Types, InOrder
    <3>2. pl[cr3[d]] = Top(cr3[d]) /\ Built(tables, cr3[d], cs, Len(cs))
      BY <1>4, <2>5 DEF Forest
    <3>3. \A w \in VirtualPages : Unchanged(tables, ts2, cr3[d], w)
      BY <1>5, <3>1, <3>2 DEF Others
    <3> QED BY <1>8, <3>1, <3>2, <3>3, BuiltKept
  <2>6. DOMAIN processPML4 = {}
    BY <1>12, AllReady
  <2>7. pl2[PML4] = Top(PML4)
    BY <1>5, <1>8
  <2>8. Forest(pl2, cs)'
    BY <1>2, <1>3, <1>7, <2>5, <2>6, <2>7 DEF Forest
  <2>9. RegularMap(memmap) => overwritten' = {}
    <3> HAVE RegularMap(memmap)
    <3>1. overwritten = {}
      BY DEF IInv
    <3>2. m.large \/ ~ (isValid(Entry2(tables, PML4, m.virtual)) /\ Entry2(tables, PML4, m.virtual).address \in Physical)
      BY <1>1, <1>11, <2>1, <2>2, NotOverwritten
    <3> QED BY <1>5, <3>1, <3>2
  <2> QED BY <1>1, <1>3, <1>9, <1>10, <2>4, <2>8, <2>9 DEF IInv
<1>13. CASE initialising = None
  <2>1. PICK s \in Stacks : todo = <<Call(s, stackAddr, TRUE)>>
    BY <1>5, <1>13 DEF IInv, InitDone
  <2>2. m.large = TRUE /\ m.virtual = stackAddr /\ todo' = <<>>
    <3>1. m = Call(s, stackAddr, TRUE) /\ Tail(todo) = <<>>
      BY <1>2, <2>1
    <3> QED BY <1>3, <3>1 DEF Call
  <2>3. ASSUME NEW q \in DOMAIN tables, pl[q] = Top(q), Built(tables, q, cs, Len(cs))
        PROVE  Built(ts2, q, cs, Len(cs))
    <3>1. \A v \in VirtualPages : Chunk(v) # Chunk(stackAddr) => Unchanged(tables, ts2, q, v)
      BY <1>5, <2>2, <2>3 DEF Others
    <3> QED BY <2>3, <3>1, BuiltKept
  <2>4. InitDone(cs)'
    <3>1. Built(ts2, PML4, cs, Len(cs))
      BY <1>1, <1>5, <1>13, <2>3 DEF IInv, InitDone
    <3> QED BY <1>2, <1>3, <1>13, <2>2, <3>1 DEF InitDone
  <2>5. ASSUME NEW d \in CPUs, cr3[d] # 0
        PROVE  pl2[cr3[d]] = Top(cr3[d]) /\ Built(ts2, cr3[d], cs, Len(cs))
    <3>1. cr3[d] \in DOMAIN tables
      BY <2>5 DEF IInv, Types
    <3>2. pl[cr3[d]] = Top(cr3[d]) /\ Built(tables, cr3[d], cs, Len(cs))
      BY <1>4, <2>5 DEF Forest
    <3> QED BY <1>8, <2>3, <3>1, <3>2
  <2>6. ASSUME NEW i \in DOMAIN processPML4
        PROVE  /\ pl2[processPML4[i]] = Process(processPML4[i])
               /\ \A j \in 0 .. TOP - 1 :
                    ts2[processPML4[i]][j] = IF j \in Copied THEN ts2[PML4][j] ELSE Empty
    <3>1. processPML4[i] \in DOMAIN tables
      BY DEF IInv, Types
    <3>2. /\ pl[processPML4[i]] = Process(processPML4[i])
          /\ \A j \in 0 .. TOP - 1 :
               tables[processPML4[i]][j] = IF j \in Copied THEN tables[PML4][j] ELSE Empty
      BY <1>4 DEF Forest
    <3>3. ts2[processPML4[i]] = tables[processPML4[i]] /\ pl2[processPML4[i]] = pl[processPML4[i]]
      BY <1>8, <3>1, <3>2
    <3>4. \A j \in 0 .. TOP - 1 : j \in Copied => ts2[PML4][j] = tables[PML4][j]
      <4>1. \A j \in Copied : j # pml4Entry(stackAddr)
        BY StackAside, Sizes DEF Copied
      <4> QED BY <1>5, <1>8, <2>2, <4>1
    <3> QED BY <3>2, <3>3, <3>4
  <2>7. pl2[PML4] = Top(PML4)
    BY <1>5, <1>8
  <2>8. Forest(pl2, cs)'
    BY <1>2, <1>3, <1>7, <2>5, <2>6, <2>7 DEF Forest
  <2>9. overwritten' = overwritten
    BY <1>5, <2>2
  <2> QED BY <1>1, <1>3, <1>9, <1>10, <2>4, <2>8, <2>9 DEF IInv
<1> QED BY <1>12, <1>13

LEMMA StepKeeps == IInv /\ [Next]_vars => IInv'
<1> SUFFICES ASSUME IInv, [Next]_vars PROVE IInv'
  OBVIOUS
<1>1. CASE Map
  BY <1>1, MapKeeps
<1>2. ASSUME NEW c \in CPUs, InitPaging(c) PROVE IInv'
  BY <1>2, InitPagingKeeps
<1>3. ASSUME NEW c \in CPUs, LoadCr3(c) PROVE IInv'
  BY <1>3, LoadCr3Keeps
<1>4. ASSUME NEW s \in Stacks, SetupThreadContext(s) PROVE IInv'
  BY <1>4, SetupThreadContextKeeps
<1>5. CASE newPML4
  BY <1>5, newPML4Keeps
<1>6. CASE UNCHANGED vars
  <2>1. /\ memmap' = memmap /\ tables' = tables /\ PML4' = PML4 /\ cr3' = cr3
        /\ initialising' = initialising /\ todo' = todo /\ stacks' = stacks
        /\ processPML4' = processPML4 /\ overwritten' = overwritten
    BY <1>6 DEF vars
  <2>2. PICK cs : cs = CallsOf(memmap)
    OBVIOUS
  <2>3. cs = CallsOf(memmap')
    BY <2>1, <2>2
  <2>4. PICK pl : Forest(pl, cs)
    BY <2>2 DEF IInv
  <2>5. Types'
    BY <2>1 DEF IInv, Types
  <2>6. InOrder'
    BY <2>1 DEF IInv, InOrder
  <2>7. InitDone(cs)'
    BY <2>1, <2>2 DEF IInv, InitDone
  <2>8. Forest(pl, cs)'
    BY <2>1, <2>4 DEF Forest
  <2>9. RegularMap(memmap') => overwritten' = {}
    BY <2>1 DEF IInv
  <2> QED BY <2>3, <2>5, <2>6, <2>7, <2>8, <2>9 DEF IInv
<1> QED BY <1>1, <1>2, <1>3, <1>4, <1>5, <1>6 DEF Next

LEMMA InvariantHolds == Spec => []IInv
BY InitHolds, StepKeeps, PTL DEF Spec

-----------------------------------------------------------------------------
(* What the processor sees of every table.                                 *)

LEMMA TranslateAt ==
  /\ \A r, v : Translate(r, v) = TranslateIn(tables, r, v)
  /\ \A r, v : Translate(r, v)' = TranslateIn(tables', r, v)
BY DEF Translate, TranslateIn

LEMMA EntriesTyped ==
  ASSUME NEW ts, NEW pl, Placed(ts, pl), NEW t \in DOMAIN ts, NEW i \in DOMAIN ts[t]
  PROVE  ts[t][i] \in Entry /\ ts[t][i].address \in Physical \cup DOMAIN ts
<1>1. TableOK(ts[t], pl, t) /\ DOMAIN pl = DOMAIN ts
  BY DEF Placed
<1>2. \A e, place : Leads(e, pl, place) => e \in Entry /\ e.address \in Physical \cup DOMAIN pl
  BY EmptyIs DEF Leads
<1>3. \A e, place : LeadsOrMaps(e, pl, place) => e \in Entry /\ e.address \in Physical \cup DOMAIN pl
  BY DEF LeadsOrMaps
<1>4. CASE ProcessOK(ts[t], pl, t)
  BY <1>1, <1>4 DEF ProcessOK
<1>5. CASE TopOK(ts[t], pl, t)
  BY <1>1, <1>2, <1>5 DEF TopOK
<1>6. CASE \E r, a : ThirdOK(ts[t], pl, t, r, a)
  BY <1>1, <1>2, <1>6 DEF ThirdOK
<1>7. CASE \E r, a, b : SecondOK(ts[t], pl, t, r, a, b)
  BY <1>1, <1>3, <1>7 DEF SecondOK
<1>8. CASE \E r, a, b, c : FirstOK(ts[t], pl, t, r, a, b, c)
  BY <1>1, <1>8 DEF FirstOK, Maps
<1> QED BY <1>1, <1>4, <1>5, <1>6, <1>7, <1>8 DEF TableOK

(* A process sees what it has copied of the global table.                  *)
LEMMA ProcessSees ==
  ASSUME NEW ts, NEW q, NEW p, NEW v \in VirtualPages,
         \A j \in 0 .. TOP - 1 : ts[q][j] = IF j \in Copied THEN ts[p][j] ELSE Empty
  PROVE  TranslateIn(ts, q, v) =
           IF pml4Entry(v) \in Copied THEN TranslateIn(ts, p, v) ELSE Unmapped
<1>1. pml4Entry(v) \in 0 .. TOP - 1
  BY Entries
<1>2. CASE pml4Entry(v) \in Copied
  <2>1. ts[q][pml4Entry(v)] = ts[p][pml4Entry(v)]
    BY <1>1, <1>2
  <2> QED BY <1>2, <2>1 DEF TranslateIn
<1>3. CASE pml4Entry(v) \notin Copied
  <2>1. ~ ts[q][pml4Entry(v)].present
    BY <1>1, <1>3, EmptyIs
  <2> QED BY <1>3, <2>1 DEF TranslateIn
<1> QED BY <1>2, <1>3

(* The kinds of top-level tables.                                          *)
LEMMA RootsAre ==
  ASSUME IInv, NEW pl, Forest(pl, CallsOf(memmap)), NEW r \in Roots
  PROVE  /\ r \in DOMAIN tables
         /\ \/ pl[r] = Top(r)
            \/ \E i \in DOMAIN processPML4 : r = processPML4[i] /\ pl[r] = Process(r)
         /\ DOMAIN tables[r] = 0 .. TOP - 1
<1>1. /\ r # 0
      /\ r = PML4 \/ (\E c \in CPUs : r = cr3[c]) \/ (\E i \in DOMAIN processPML4 : r = processPML4[i])
  BY DEF Roots
<1>2. r \in DOMAIN tables
  BY <1>1 DEF IInv, Types
<1>3. \/ pl[r] = Top(r)
      \/ \E i \in DOMAIN processPML4 : r = processPML4[i] /\ pl[r] = Process(r)
  BY <1>1 DEF Forest
<1>4. Placed(tables, pl)
  BY DEF Forest
<1>5. DOMAIN tables[r] = 0 .. TOP - 1
  <2>1. CASE pl[r] = Top(r)
    BY <1>2, <1>4, <2>1, AtTop DEF TopOK
  <2>2. CASE pl[r] = Process(r)
    BY <1>2, <1>4, <2>2, AtProcess DEF ProcessOK
  <2> QED BY <1>3, <2>1, <2>2
<1> QED BY <1>2, <1>3, <1>5

(* What copied pages are not: those of the stack.                          *)
LEMMA CopiedAside ==
  ASSUME NEW v \in VirtualPages, pml4Entry(v) \in Copied
  PROVE  Chunk(v) # Chunk(stackAddr)
<1>1. v \in Nat /\ stackAddr \in Nat
  BY Entries, StackAside
<1>2. pml4Entry(v) # pml4Entry(stackAddr)
  BY StackAside, Sizes DEF Copied
<1> QED BY <1>1, <1>2, SameChunk

(* Where the boot loader maps physical memory is among what is copied.     *)
LEMMA UpperHalf ==
  ASSUME NEW p \in Nat, p + hhdmOffset < virtualBase
  PROVE  p + hhdmOffset \in VirtualPages /\ pml4Entry(p + hhdmOffset) \in Copied
<1>1. PICK v : v = p + hhdmOffset
  OBVIOUS
<1>2. v \in VirtualPages
  BY <1>1, Addresses, PageTableAssumption, Sizes DEF PageTableAssumption, VirtualPages
<1>3. PICK q, r : q = v \div TopSize /\ r = v % TopSize
  OBVIOUS
<1>4. q \in Nat /\ r \in 0 .. TopSize - 1 /\ v = TopSize * q + r /\ v \in Nat
  BY <1>2, <1>3, Entries, Sizes, DivMod
<1>5. HALF * TopSize <= v /\ HALF * TopSize = TopSize * HALF
  <2>1. HALF * TopSize <= hhdmOffset /\ hhdmOffset \in Nat /\ p \in Nat
    BY PageTableAssumption, Addresses DEF PageTableAssumption
  <2>2. HALF \in Nat /\ TopSize \in Nat
    BY Sizes
  <2>3. HALF * TopSize \in Nat /\ HALF * TopSize = TopSize * HALF
    BY <2>2
  <2> QED BY <1>1, <2>1, <2>3
<1>6. ~ (q < HALF)
  <2> SUFFICES ASSUME q < HALF PROVE FALSE
    OBVIOUS
  <2>1. TopSize * q + TopSize <= TopSize * HALF /\ TopSize * q \in Nat /\ TopSize * HALF \in Nat
    BY <1>4, Sizes, Ordered
  <2> QED BY <1>4, <1>5, <2>1, Sizes
<1>7. pml4Entry(v) \in 0 .. TOP - 1 /\ pml4Entry(v) = q
  BY <1>2, <1>3, Entries DEF pml4Entry
<1> QED BY <1>1, <1>2, <1>4, <1>6, <1>7, Sizes DEF Copied

(* The tables of all processors are complete, and so is the global one     *)
(* when no processor builds it.                                            *)
LEMMA Completed ==
  ASSUME IInv, NEW pl, Forest(pl, CallsOf(memmap))
  PROVE  /\ \A c \in CPUs : cr3[c] # 0 => Complete(tables, pl, cr3[c], memmap)
         /\ stacks # <<>> => Complete(tables, pl, PML4, memmap)
<1>1. memmap \in MemoryMaps /\ Placed(tables, pl)
  BY DEF IInv, Types, Forest
<1>2. ASSUME NEW c \in CPUs, cr3[c] # 0 PROVE Complete(tables, pl, cr3[c], memmap)
  BY <1>1, <1>2 DEF IInv, Types, Forest, Complete
<1>3. ASSUME stacks # <<>> PROVE Complete(tables, pl, PML4, memmap)
  <2>1. PML4 # 0 /\ initialising = None
    BY <1>3, AllReady
  <2> QED BY <1>1, <2>1 DEF IInv, Types, InitDone, Forest, Complete
<1> QED BY <1>2, <1>3

-----------------------------------------------------------------------------
(* The theorems.                                                           *)

(* Every variable keeps its type, whatever the memory map: what the tables *)
(* of map, getNextLevelPointer and newPML4 hold are addresses of memory    *)
(* that is mapped or of page tables, and a root is a whole top-level table. *)
THEOREM TypeCorrect == Spec => []TypeOK
<1>1. ASSUME IInv PROVE TypeOK
  <2>1. PICK pl : Forest(pl, CallsOf(memmap))
    BY <1>1 DEF IInv
  <2>2. Placed(tables, pl)
    BY <2>1 DEF Forest
  <2>3. ASSUME NEW f \in DOMAIN tables, NEW i \in DOMAIN tables[f]
        PROVE  /\ tables[f][i].present \in BOOLEAN /\ tables[f][i].large \in BOOLEAN
               /\ tables[f][i].address \in 0 .. TABLES - 1 \cup DOMAIN tables
    <3>1. tables[f][i] \in Entry /\ tables[f][i].address \in Physical \cup DOMAIN tables
      BY <2>2, EntriesTyped
    <3> QED BY <3>1 DEF Entry, Physical
  <2>4. \A f \in DOMAIN tables : f >= TABLES
    BY <2>2, Frames
  <2>5. \A r \in Roots : DOMAIN tables[r] = 0 .. TOP - 1
    BY <1>1, <2>1, RootsAre
  <2>6. overwritten \subseteq 0 .. TABLES - 1
    BY <1>1 DEF IInv, Types, Physical
  <2> QED BY <1>1, <2>3, <2>4, <2>5, <2>6 DEF IInv, Types, TypeOK
<1> QED BY <1>1, InvariantHolds, PTL

(* map writes to page tables only: no memory map whose large regions begin *)
(* and end with large pages makes getNextLevelPointer take a large page    *)
(* that is mapped for a table.                                             *)
THEOREM TablesOnly == Spec => []WritesTablesOnly
<1>1. IInv => WritesTablesOnly
  BY RegularIs DEF IInv, WritesTablesOnly
<1> QED BY <1>1, InvariantHolds, PTL

(* When initPaging has loaded a processor's table, that processor reaches  *)
(* the first 4 GB at two places, every region above them and its own code, *)
(* each page at its address and whatever is mapped for other processors    *)
(* and for stacks.                                                         *)
THEOREM Direct == Spec => []DirectMap
<1>1. ASSUME IInv PROVE DirectMap
  <2>1. PICK pl : Forest(pl, CallsOf(memmap))
    BY <1>1 DEF IInv
  <2>2. ASSUME NEW c \in CPUs, cr3[c] # 0, Regular
        PROVE  /\ \A p \in 0 .. LOW - 1 : Translate(cr3[c], p) = p
               /\ \A p \in 0 .. LOW - 1 : Translate(cr3[c], p + hhdmOffset) = p
               /\ \A i \in DOMAIN memmap : memmap[i].base >= LOW =>
                    \A p \in Pages(memmap[i]) : Translate(cr3[c], p + hhdmOffset) = p
               /\ \A n \in 0 .. kernelSize - 1 :
                    Translate(cr3[c], virtualBase + n) = physicalBase + n
    <3>1. Complete(tables, pl, cr3[c], memmap) /\ RegularMap(memmap)
      BY <1>1, <2>1, <2>2, Completed, RegularIs
    <3>2. \A p \in 0 .. LOW - 1 : /\ TranslateIn(tables, cr3[c], p) = p
                                  /\ TranslateIn(tables, cr3[c], p + hhdmOffset) = p
      BY <3>1, LowMapped
    <3>3. \A i \in DOMAIN memmap : memmap[i].base >= LOW =>
            \A p \in Pages(memmap[i]) : TranslateIn(tables, cr3[c], p + hhdmOffset) = p
      BY <3>1, RegionMapped
    <3>4. \A n \in 0 .. kernelSize - 1 :
            TranslateIn(tables, cr3[c], virtualBase + n) = physicalBase + n
      BY <3>1, KernelMapped
    <3> QED BY <3>2, <3>3, <3>4, TranslateAt
  <2> QED BY <2>2 DEF DirectMap
<1> QED BY <1>1, InvariantHolds, PTL

(* Whatever the memory map, a process with the table that newPML4 made     *)
(* sees what every processor sees of the kernel, which initPaging mapped   *)
(* for each anew; and it reaches its own stack if that lies in the first   *)
(* 4 GB, or in a region that begins above them in a regular memory map.    *)
THEOREM ViewsAgree == Spec => []KernelViewsAgree
<1>1. ASSUME IInv, NEW i \in DOMAIN processPML4, NEW v \in VirtualPages,
             pml4Entry(v) = 0 \/ pml4Entry(v) >= HALF, NEW c \in CPUs
      PROVE  Translate(processPML4[i], v) = Translate(cr3[c], v)
  <2>1. PICK cs : cs = CallsOf(memmap)
    OBVIOUS
  <2>2. PICK pl : Forest(pl, cs)
    BY <1>1, <2>1 DEF IInv
  <2>3. stacks # <<>> /\ cr3[c] # 0
    BY <1>1, AllReady DEF IInv, InOrder
  <2>4. Complete(tables, pl, PML4, memmap) /\ Complete(tables, pl, cr3[c], memmap)
    BY <1>1, <2>1, <2>2, <2>3, Completed
  <2>5. pml4Entry(v) \in Copied
    BY <1>1, Entries, Sizes DEF Copied
  <2>6. TranslateIn(tables, processPML4[i], v) = TranslateIn(tables, PML4, v)
    <3>1. \A j \in 0 .. TOP - 1 :
            tables[processPML4[i]][j] = IF j \in Copied THEN tables[PML4][j] ELSE Empty
      BY <1>1, <2>2 DEF Forest
    <3> QED BY <2>5, <3>1, ProcessSees
  <2>7. Chunk(v) # Chunk(stackAddr)
    BY <2>5, CopiedAside
  <2>8. memmap \in MemoryMaps /\ Len(cs) \in Nat
    BY <2>1, <2>4, CallsAre DEF Complete
  <2>9. BuiltAt(tables, PML4, cs, Len(cs), v) /\ BuiltAt(tables, cr3[c], cs, Len(cs), v)
    BY <2>1, <2>4, <2>7 DEF Complete, Built
  <2>10. Sees(Entry2(tables, PML4, v), Entry1(tables, PML4, v), v) =
           Sees(Entry2(tables, cr3[c], v), Entry1(tables, cr3[c], v), v)
    BY <2>8, <2>9, SeenAlike
  <2>11. TranslateIn(tables, PML4, v) = TranslateIn(tables, cr3[c], v)
    BY <2>4, <2>10, TranslateIs DEF Complete
  <2> QED BY <2>6, <2>11, TranslateAt
<1>2. ASSUME IInv PROVE StacksReachable
  <2>1. PICK pl : Forest(pl, CallsOf(memmap))
    BY <1>2 DEF IInv
  <2> SUFFICES ASSUME NEW i \in DOMAIN processPML4, MappedAbove(stacks[i])
               PROVE  Translate(processPML4[i], stacks[i] + hhdmOffset) = stacks[i]
    BY DEF StacksReachable
  <2>2. stacks # <<>> /\ Complete(tables, pl, PML4, memmap)
    BY <1>2, <2>1, AllReady, Completed
  <2>3. PICK s : s = stacks[i] /\ s \in Nat
    <3>1. stacks[i] \in Stacks
      BY <1>2 DEF IInv, Types, InOrder
    <3>2. Stacks \subseteq Nat
      BY PageTableAssumption DEF PageTableAssumption
    <3> QED BY <3>1, <3>2
  <2>4. TranslateIn(tables, PML4, s + hhdmOffset) = s /\ s + hhdmOffset < virtualBase
    <3>1. CASE s < LOW
      <4>1. s \in 0 .. LOW - 1
        BY <2>3, <3>1, Addresses
      <4>2. TranslateIn(tables, PML4, s + hhdmOffset) = s
        BY <2>2, <4>1, LowMapped
      <4>3. s + hhdmOffset < virtualBase
        BY <4>1, Addresses
      <4> QED BY <4>2, <4>3
    <3>2. CASE ~ (s < LOW)
      <4>1. PICK j \in DOMAIN memmap : memmap[j].base >= LOW /\ s \in Pages(memmap[j])
        BY <2>3, <3>2 DEF MappedAbove
      <4>2. RegularMap(memmap) /\ memmap \in MemoryMaps
        BY <1>2, <2>3, <3>2, RegularIs DEF MappedAbove, IInv, Types
      <4>3. TranslateIn(tables, PML4, s + hhdmOffset) = s
        BY <2>2, <4>1, <4>2, RegionMapped
      <4>4. s + hhdmOffset < virtualBase
        BY <4>1, <4>2, Regions, Addresses DEF Pages
      <4> QED BY <4>3, <4>4
    <3> QED BY <3>1, <3>2
  <2>5. s + hhdmOffset \in VirtualPages /\ pml4Entry(s + hhdmOffset) \in Copied
    BY <2>3, <2>4, UpperHalf
  <2>6. TranslateIn(tables, processPML4[i], s + hhdmOffset) = TranslateIn(tables, PML4, s + hhdmOffset)
    <3>1. \A j \in 0 .. TOP - 1 :
            tables[processPML4[i]][j] = IF j \in Copied THEN tables[PML4][j] ELSE Empty
      BY <1>2, <2>1 DEF Forest
    <3> QED BY <2>5, <3>1, ProcessSees
  <2> QED BY <2>3, <2>4, <2>6, TranslateAt
<1>3. IInv => KernelViewsAgree
  BY <1>1, <1>2 DEF KernelViewsAgree
<1> QED BY <1>3, InvariantHolds, PTL

-----------------------------------------------------------------------------
(* Every step changes what map was called to change.                       *)

LEMMA OnesOf ==
  ASSUME NEW v \in Nat, NEW w \in Nat
  PROVE  v \div 1 = w \div 1 <=> v = w
OBVIOUS

(* What a root sees when its entries, or those it has copied, are kept.    *)
LEMMA SeesOn ==
  ASSUME IInv, NEW pl, Forest(pl, CallsOf(memmap)), NEW r \in Roots, NEW v \in VirtualPages,
         NEW ts2, NEW pl2, Placed(ts2, pl2),
         \A t \in DOMAIN tables : t \in DOMAIN ts2 /\ pl2[t] = pl[t],
         pl[r] = Top(r) => Unchanged(tables, ts2, r, v),
         pl[r] = Process(r) =>
           /\ ts2[r] = tables[r]
           /\ \A j \in Copied : ts2[PML4][j] = tables[PML4][j]
           /\ Chunk(v) # Chunk(stackAddr) => Unchanged(tables, ts2, PML4, v)
  PROVE  TranslateIn(ts2, r, v) = TranslateIn(tables, r, v)
<1>1. Placed(tables, pl)
  BY DEF Forest
<1>2. /\ r \in DOMAIN tables
      /\ \/ pl[r] = Top(r)
         \/ \E i \in DOMAIN processPML4 : r = processPML4[i] /\ pl[r] = Process(r)
  BY RootsAre
<1>3. CASE pl[r] = Top(r)
  BY <1>1, <1>2, <1>3, SameTranslation
<1>4. ASSUME NEW i \in DOMAIN processPML4, r = processPML4[i], pl[r] = Process(r)
      PROVE  TranslateIn(ts2, r, v) = TranslateIn(tables, r, v)
  <2>1. \A j \in 0 .. TOP - 1 : tables[r][j] = IF j \in Copied THEN tables[PML4][j] ELSE Empty
    BY <1>4 DEF Forest
  <2>2. \A j \in 0 .. TOP - 1 : ts2[r][j] = IF j \in Copied THEN ts2[PML4][j] ELSE Empty
    BY <1>4, <2>1
  <2>3. /\ TranslateIn(tables, r, v) =
             IF pml4Entry(v) \in Copied THEN TranslateIn(tables, PML4, v) ELSE Unmapped
        /\ TranslateIn(ts2, r, v) =
             IF pml4Entry(v) \in Copied THEN TranslateIn(ts2, PML4, v) ELSE Unmapped
    BY <2>1, <2>2, ProcessSees
  <2>4. ASSUME pml4Entry(v) \in Copied
        PROVE  TranslateIn(ts2, PML4, v) = TranslateIn(tables, PML4, v)
    <3>1. PML4 \in DOMAIN tables /\ pl[PML4] = Top(PML4)
      BY AllReady DEF IInv, Types, Forest
    <3>2. Unchanged(tables, ts2, PML4, v)
      BY <1>4, <2>4, CopiedAside
    <3> QED BY <1>1, <3>1, <3>2, SameTranslation
  <2> QED BY <2>3, <2>4
<1> QED BY <1>2, <1>3, <1>4

(* Of a regular memory map, what a small call of map meets.                *)
LEMMA SmallMeets ==
  ASSUME NEW m \in MemoryMaps, RegularMap(m), NEW cs, cs = CallsOf(m),
         NEW n \in Nat, n + 1 \in DOMAIN cs, ~ cs[n + 1].large,
         NEW ts, NEW r, Built(ts, r, cs, n)
  PROVE  ~ Entry2(ts, r, cs[n + 1].virtual).large
<1>1. PICK c : c = cs[n + 1]
  OBVIOUS
<1>2. /\ Len(cs) \in Nat /\ DOMAIN cs = 1 .. Len(cs)
      /\ \A i \in DOMAIN cs : cs[i] \in Calls /\ IsCall(cs[i], m)
  BY CallsAre
<1>3. c \in Calls /\ IsCall(c, m) /\ ~ c.large
  BY <1>1, <1>2
<1>4. LargeOnes(cs, n, c.virtual) = {}
  <2> SUFFICES ASSUME NEW i \in LargeOnes(cs, n, c.virtual) PROVE FALSE
    OBVIOUS
  <2>1. i \in DOMAIN cs /\ cs[i].large /\ Chunk(cs[i].virtual) = Chunk(c.virtual)
    BY <1>2 DEF LargeOnes
  <2>2. cs[i] \in Calls /\ IsCall(cs[i], m)
    BY <1>2, <2>1
  <2> QED BY <1>3, <2>1, <2>2, Apart
<1>5. BuiltAt(ts, r, cs, n, c.virtual)
  BY <1>3, SmallAside DEF Built, Calls
<1>6. Entry2(ts, r, c.virtual) = Empty \/ ~ Entry2(ts, r, c.virtual).large
  BY <1>4, <1>5 DEF BuiltAt, BuiltAs
<1> QED BY <1>1, <1>6, EmptyIs

(* What a small page mapped where there is no large one changes.           *)
LEMMA SmallSeen ==
  ASSUME NEW ts, NEW pl, Placed(ts, pl), NEW ts2, NEW pl2, Placed(ts2, pl2),
         NEW r \in DOMAIN ts, pl[r] = Top(r), r \in DOMAIN ts2, pl2[r] = Top(r),
         NEW v \in VirtualPages, NEW w \in VirtualPages, Chunk(w) = Chunk(v), NEW p,
         ~ Entry2(ts, r, v).large, MappedSmall(ts, ts2, r, v, p)
  PROVE  TranslateIn(ts2, r, w) = IF w = v THEN p ELSE TranslateIn(ts, r, w)
<1>1. PICK e0, e, f0, f : /\ e0 = Entry2(ts, r, w) /\ e = Entry2(ts2, r, w)
                          /\ f0 = Entry1(ts, r, w) /\ f = Entry1(ts2, r, w)
  OBVIOUS
<1>2. e0 = Entry2(ts, r, v)
  BY <1>1, SamePml2
<1>3. /\ e.present /\ ~ e.large /\ (isValid(e0) => e = e0)
      /\ w # v => f = IF isValid(e0) THEN f0 ELSE Empty
      /\ w = v => f.present /\ f.address = p
  BY <1>1, <1>2 DEF MappedSmall
<1>4. TranslateIn(ts2, r, w) = Sees(e, f, w) /\ TranslateIn(ts, r, w) = Sees(e0, f0, w)
  BY <1>1, TranslateIs
<1>5. CASE w = v
  BY <1>3, <1>4, <1>5 DEF Sees
<1>6. CASE w # v /\ isValid(e0)
  BY <1>3, <1>4, <1>6 DEF Sees
<1>7. CASE w # v /\ ~ isValid(e0)
  <2>1. Sees(e, f, w) = Unmapped
    BY <1>3, <1>7, EmptyIs DEF Sees
  <2>2. ~ e0.present
    <3>1. LeadsOrMaps(e0, pl, First(r, pml4Entry(w), pml3Entry(w), pml2Entry(w)))
      BY <1>1, Reached
    <3>2. ~ e0.large
      BY <1>2
    <3> QED BY <1>7, <3>1, <3>2, EmptyIs DEF LeadsOrMaps, isValid
  <2> QED BY <1>4, <1>7, <2>1, <2>2 DEF Sees
<1> QED BY <1>5, <1>6, <1>7

(* What a step of map does to what any root sees.                          *)
LEMMA MapIsExact ==
  ASSUME IInv, IInv', Map, Regular, NEW r \in Roots, NEW v \in VirtualPages,
         NEW m, m = Head(todo), NEW size, size = IF m.large THEN W ELSE 1
  PROVE  TranslateIn(tables', r, v) =
           IF r = PML4 /\ v \div size = m.virtual \div size
           THEN IF m.large THEN Large(m.physical, v) ELSE m.physical
           ELSE TranslateIn(tables, r, v)
<1>1. PICK cs : cs = CallsOf(memmap)
  OBVIOUS
<1>2. PICK pl : Forest(pl, cs)
  BY <1>1 DEF IInv
<1>3. PICK ts2 : ts2 = tables'
  OBVIOUS
<1>4. /\ todo # <<>> /\ m \in Calls
      /\ PML4 \in DOMAIN tables /\ PML4 # 0 /\ pl[PML4] = Top(PML4)
      /\ \E pl2 : Preserves(tables, pl, ts2, pl2, pml4Entry(m.virtual))
      /\ Effect(tables, ts2, PML4, m) /\ Others(tables, pl, ts2, PML4, m)
  BY <1>1, <1>2, <1>3, MapDoes
<1>5. PICK pl2 : Preserves(tables, pl, ts2, pl2, pml4Entry(m.virtual))
  BY <1>4
<1>6. Placed(tables, pl) /\ DOMAIN pl = DOMAIN tables
  BY <1>2 DEF Forest, Placed
<1>7. /\ Placed(ts2, pl2)
      /\ \A t \in DOMAIN tables : t \in DOMAIN ts2 /\ pl2[t] = pl[t]
      /\ \A t \in DOMAIN tables : pl[t] = Process(t) => ts2[t] = tables[t]
      /\ \A t \in DOMAIN tables : pl[t] = Top(t) =>
           \A j \in 0 .. TOP - 1 : j # pml4Entry(m.virtual) => ts2[t][j] = tables[t][j]
  <2>1. PICK a : a = pml4Entry(m.virtual)
    OBVIOUS
  <2>2. Preserves(tables, pl, ts2, pl2, a)
    BY <1>5, <2>1
  <2>3. Placed(ts2, pl2) /\ \A t \in DOMAIN tables : t \in DOMAIN ts2 /\ pl2[t] = pl[t]
    <3>1. Placed(ts2, pl2) /\ Extends(pl, pl2)
      BY <2>2 DEF Preserves
    <3> QED BY <1>6, <3>1 DEF Placed, Extends
  <2>4. /\ \A t \in DOMAIN tables : pl[t] = Process(t) => ts2[t] = tables[t]
        /\ \A t \in DOMAIN tables : pl[t] = Top(t) =>
             \A j \in 0 .. TOP - 1 : j # a => ts2[t][j] = tables[t][j]
    BY <2>2 DEF Preserves
  <2> QED BY <2>1, <2>3, <2>4
<1>8. v \in Nat /\ m.virtual \in VirtualPages /\ m.virtual \in Nat
  BY <1>4, Entries DEF Calls
<1>9. r = PML4 /\ v \div size = m.virtual \div size => Chunk(v) = Chunk(m.virtual)
  BY <1>8, OnesOf DEF Chunk
<1>10. ASSUME ~ (r = PML4 /\ Chunk(v) = Chunk(m.virtual))
       PROVE  TranslateIn(ts2, r, v) = TranslateIn(tables, r, v)
  <2>1. r \in DOMAIN tables
    BY <1>1, <1>2, RootsAre
  <2>2. pl[r] = Top(r) => Unchanged(tables, ts2, r, v)
    BY <1>4, <1>10, <2>1 DEF Others
  <2>3. ASSUME pl[r] = Process(r)
        PROVE  /\ ts2[r] = tables[r]
               /\ \A j \in Copied : ts2[PML4][j] = tables[PML4][j]
               /\ Chunk(v) # Chunk(stackAddr) => Unchanged(tables, ts2, PML4, v)
    <3>1. DOMAIN processPML4 # {}
      <4>1. pl[r] # Top(r)
        BY <2>3, Placements DEF Top, Process
      <4> QED BY <1>1, <1>2, <4>1, RootsAre
    <3>2. initialising = None
      BY <3>1, AllReady
    <3>3. m.virtual = stackAddr
      <4>1. PICK s \in Stacks : todo = <<Call(s, stackAddr, TRUE)>>
        BY <1>4, <3>2 DEF IInv, InitDone
      <4>2. m = Call(s, stackAddr, TRUE)
        BY <4>1
      <4> QED BY <4>2 DEF Call
    <3>4. \A j \in Copied : j \in 0 .. TOP - 1 /\ j # pml4Entry(stackAddr)
      BY StackAside, Sizes DEF Copied
    <3>5. \A j \in Copied : ts2[PML4][j] = tables[PML4][j]
      BY <1>4, <1>7, <3>3, <3>4
    <3>6. Chunk(v) # Chunk(stackAddr) => Unchanged(tables, ts2, PML4, v)
      BY <1>4, <3>3 DEF Others
    <3> QED BY <1>7, <2>1, <2>3, <3>5, <3>6
  <2> QED BY <1>1, <1>2, <1>7, <2>2, <2>3, SeesOn
<1>11. ASSUME r = PML4, Chunk(v) = Chunk(m.virtual), m.large
       PROVE  TranslateIn(ts2, r, v) = Large(m.physical, v)
  <2>1. /\ Entry2(ts2, r, v).present /\ Entry2(ts2, r, v).large
        /\ Entry2(ts2, r, v).address = m.physical
    BY <1>4, <1>11 DEF Effect
  <2>2. r \in DOMAIN ts2 /\ pl2[r] = Top(r)
    BY <1>4, <1>7, <1>11
  <2>3. TranslateIn(ts2, r, v) = Sees(Entry2(ts2, r, v), Entry1(ts2, r, v), v)
    BY <1>7, <2>2, TranslateIs
  <2> QED BY <2>1, <2>3 DEF Sees
<1>12. ASSUME r = PML4, Chunk(v) = Chunk(m.virtual), ~ m.large
       PROVE  TranslateIn(ts2, r, v) =
                IF v = m.virtual THEN m.physical ELSE TranslateIn(tables, r, v)
  <2>1. initialising # None
    <3> SUFFICES ASSUME initialising = None PROVE FALSE
      OBVIOUS
    <3>1. PICK s \in Stacks : todo = <<Call(s, stackAddr, TRUE)>>
      BY <1>4 DEF IInv, InitDone
    <3>2. m = Call(s, stackAddr, TRUE)
      BY <3>1
    <3> QED BY <1>12, <3>2 DEF Call
  <2>2. PICK n \in 0 .. Len(cs) : Remaining(todo, cs, n) /\ Built(tables, PML4, cs, n)
    BY <1>1, <2>1 DEF IInv, InitDone
  <2>3. Len(cs) \in Nat /\ DOMAIN cs = 1 .. Len(cs) /\ memmap \in MemoryMaps /\ RegularMap(memmap)
    BY <1>1, CallsAre, RegularIs DEF IInv, Types
  <2>4. n \in Nat /\ n + 1 \in DOMAIN cs /\ m = cs[n + 1]
    BY <1>4, <2>2, <2>3, TailIs
  <2>5. ~ Entry2(tables, PML4, m.virtual).large
    BY <1>1, <1>12, <2>2, <2>3, <2>4, SmallMeets
  <2>6. ~ (/\ isValid(Entry2(tables, PML4, m.virtual))
           /\ Entry2(tables, PML4, m.virtual).address \in Physical)
    BY <1>1, <1>12, <2>2, <2>3, <2>4, NotOverwritten
  <2>7. MappedSmall(tables, ts2, PML4, m.virtual, m.physical)
    BY <1>4, <1>12, <2>6 DEF Effect
  <2>8. PML4 \in DOMAIN ts2 /\ pl2[PML4] = Top(PML4)
    BY <1>4, <1>7
  <2> QED BY <1>4, <1>6, <1>7, <1>8, <1>12, <2>5, <2>7, <2>8, SmallSeen
<1>13. v \div size = m.virtual \div size <=>
         IF m.large THEN Chunk(v) = Chunk(m.virtual) ELSE v = m.virtual
  BY <1>8, OnesOf DEF Chunk
<1>14. v = m.virtual => Chunk(v) = Chunk(m.virtual)
  OBVIOUS
<1> QED BY <1>3, <1>10, <1>11, <1>12, <1>13, <1>14

(* What any other step does: nothing.                                      *)
LEMMA OthersChangeNothing ==
  ASSUME IInv, NEW r \in Roots, NEW v \in VirtualPages,
         \/ tables' = tables
         \/ \E c \in CPUs : InitPaging(c)
         \/ newPML4
  PROVE  TranslateIn(tables', r, v) = TranslateIn(tables, r, v)
<1>1. PICK cs : cs = CallsOf(memmap)
  OBVIOUS
<1>2. PICK pl : Forest(pl, cs)
  BY <1>1 DEF IInv
<1>3. PICK f, ts2 : f = NewFrame(tables) /\ ts2 = tables'
  OBVIOUS
<1>4. ASSUME NEW tab, NEW place, TableOK(tab, Adds(pl, f, place), f), ts2 = With(tables, f, tab)
      PROVE  TranslateIn(ts2, r, v) = TranslateIn(tables, r, v)
  <2>1. PICK pl2 : pl2 = Adds(pl, f, place)
    OBVIOUS
  <2>2. /\ Placed(ts2, pl2) /\ DOMAIN ts2 = DOMAIN tables \cup {f}
        /\ \A t \in DOMAIN tables : ts2[t] = tables[t] /\ pl2[t] = pl[t]
        /\ \A q \in DOMAIN tables : pl[q] = Top(q) => \A w \in VirtualPages :
             Unchanged(tables, ts2, q, w)
    BY <1>1, <1>2, <1>3, <1>4, <2>1, AddingKeeps
  <2>3. r \in DOMAIN tables
    BY <1>1, <1>2, RootsAre
  <2>4. ASSUME pl[r] = Process(r)
        PROVE  PML4 \in DOMAIN tables /\ pl[PML4] = Top(PML4)
    <3>1. pl[r] # Top(r)
      BY <2>4, Placements DEF Top, Process
    <3>2. DOMAIN processPML4 # {}
      BY <1>1, <1>2, <3>1, RootsAre
    <3> QED BY <1>2, <3>2, AllReady DEF IInv, Types, Forest
  <2> QED BY <1>1, <1>2, <2>2, <2>3, <2>4, SeesOn
<1>5. CASE tables' = tables
  BY <1>5
<1>6. ASSUME NEW c \in CPUs, InitPaging(c)
      PROVE  TranslateIn(ts2, r, v) = TranslateIn(tables, r, v)
  <2>1. TableOK(EmptyTop, Adds(pl, f, Top(f)), f)
    BY EmptyTopOK
  <2>2. ts2 = With(tables, f, EmptyTop)
    BY <1>3, <1>6 DEF InitPaging
  <2> QED BY <1>4, <2>1, <2>2
<1>7. CASE newPML4
  <2>1. PICK tab : tab = [i \in 0 .. TOP - 1 |-> IF i \in Copied THEN tables[PML4][i] ELSE Empty]
    OBVIOUS
  <2>2. TableOK(tab, Adds(pl, f, Process(f)), f)
    BY <1>1, <1>2, <1>7, <2>1, CopyOK DEF newPML4
  <2>3. ts2 = With(tables, f, tab)
    BY <1>3, <1>7, <2>1 DEF newPML4
  <2> QED BY <1>3, <1>4, <2>2, <2>3
<1> QED BY <1>3, <1>5, <1>6, <1>7

(* A call of map gives the page it names, and no other, the address it     *)
(* names; initPaging and newPML4 change nothing that any table, of a       *)
(* processor or of a process, already translates.                          *)
THEOREM Exact == Spec => MapsExactly
<1>1. ASSUME IInv, IInv', [Next]_vars, NEW r \in Roots, NEW v \in VirtualPages, Regular
      PROVE  LET m == Head(todo)
                 size == IF m.large THEN W ELSE 1
             IN  Translate(r, v)' =
                   IF Len(todo') < Len(todo) /\ r = PML4 /\ v \div size = m.virtual \div size
                   THEN IF m.large THEN Large(m.physical, v) ELSE m.physical
                   ELSE Translate(r, v)
  <2>1. CASE Map
    <3>1. Len(todo') < Len(todo)
      <4>1. todo # <<>> /\ todo' = Tail(todo)
        BY <2>1 DEF Map
      <4>2. CASE initialising # None
        <5>1. todo \in Seq(Calls)
          BY <1>1, <4>2 DEF IInv, InitDone, Remaining
        <5> QED BY <4>1, <5>1
      <4>3. CASE initialising = None
        <5>1. PICK s \in Stacks : todo = <<Call(s, stackAddr, TRUE)>>
          BY <1>1, <4>1, <4>3 DEF IInv, InitDone
        <5> QED BY <4>1, <5>1
      <4> QED BY <4>2, <4>3
    <3> QED BY <1>1, <2>1, <3>1, MapIsExact, TranslateAt
  <2>2. ASSUME NEW c \in CPUs, InitPaging(c)
        PROVE  Translate(r, v)' = Translate(r, v) /\ ~ (Len(todo') < Len(todo))
    <3>1. todo = <<>>
      BY <1>1, <2>2 DEF IInv, InOrder, InitDone, InitPaging
    <3>2. Len(todo') \in Nat
      BY <1>1, <2>2, InitCallsAre, CallsAre DEF IInv, Types, InitPaging
    <3> QED BY <1>1, <2>2, <3>1, <3>2, OthersChangeNothing, TranslateAt
  <2>3. ASSUME NEW c \in CPUs, LoadCr3(c)
        PROVE  Translate(r, v)' = Translate(r, v) /\ ~ (Len(todo') < Len(todo))
    BY <1>1, <2>3, OthersChangeNothing, TranslateAt DEF LoadCr3
  <2>4. ASSUME NEW s \in Stacks, SetupThreadContext(s)
        PROVE  Translate(r, v)' = Translate(r, v) /\ ~ (Len(todo') < Len(todo))
    BY <1>1, <2>4, OthersChangeNothing, TranslateAt DEF SetupThreadContext
  <2>5. CASE newPML4
    <3>1. todo' = todo /\ todo = <<>>
      BY <2>5 DEF newPML4
    <3> QED BY <1>1, <2>5, <3>1, OthersChangeNothing, TranslateAt
  <2>6. CASE UNCHANGED vars
    <3>1. todo' = todo /\ tables' = tables
      BY <2>6 DEF vars
    <3> QED BY <1>1, <3>1, OthersChangeNothing, TranslateAt
  <2> QED BY <1>1, <2>1, <2>2, <2>3, <2>4, <2>5, <2>6 DEF Next
<1>2. IInv /\ IInv' /\ [Next]_vars =>
        [\A r \in Roots : \A v \in VirtualPages : Regular =>
           LET m == Head(todo)
               size == IF m.large THEN W ELSE 1
           IN  Translate(r, v)' =
                 IF Len(todo') < Len(todo) /\ r = PML4 /\ v \div size = m.virtual \div size
                 THEN IF m.large THEN Large(m.physical, v) ELSE m.physical
                 ELSE Translate(r, v)]_vars
  BY <1>1
<1> QED BY <1>2, InvariantHolds, PTL DEF Spec, MapsExactly
=============================================================================
