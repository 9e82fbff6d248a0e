----------------------------- MODULE HeapProofs -----------------------------
(***************************************************************************)
(* The safety properties of Heap, for every size of the pool and of its    *)
(* pages and every set of requests.                                        *)
(***************************************************************************)
EXTENDS Heap, WellFoundedInduction, NaturalsInduction, TLAPS

(* The types of all but the flags, which no other part rests on.           *)
Typed ==
  /\ pc \in {"idle", "search", "grow", "wild", "buddy"} /\ mutex \in {0, 1}
  /\ freeList \in {NULL, 0} /\ currentNode \in Nodes /\ size \in Nat
  /\ node \in [Nodes -> [next : Nodes \cup {NULL}, left : Nodes \cup {NULL, WILD},
                         right : Nodes \cup {NULL, WILD},
                         status : {"unused", "allocated"},
                         size : Nat, childSize : {0, Half, WILD}]]
  /\ blocks \in Seq([at : Nodes \cup {NULL}, size : Nat, held : BOOLEAN])
  /\ frees \in 0 .. FREES /\ intact \in BOOLEAN

(* The header at the start of a page.  Its link, if it has one, leads to   *)
(* the end of the page, or of the block that it begins.                    *)
PageOK(n) ==
  LET h == node[n]
  IN  /\ h.status = "unused" => h.size <= PAGE_SIZE
      /\ h.size <= PAGE_SIZE => h.next \in {NULL, n + PAGE_SIZE}
      /\ h.size > PAGE_SIZE =>
           /\ \E k \in 2 .. MAXIMUM_COALESCE_BLOCKS : h.size = PAGE_SIZE * k
           /\ h.next \in {NULL, n + h.size}
      /\ h.left \in {NULL, WILD, n}
      /\ h.left = n => h.right = n + Half
      /\ h.childSize \in {0, Half}
      /\ h.childSize = 0 => h.size = 0 /\ h.next = NULL

(* The header in the middle of a page.                                     *)
HalfOK(n) ==
  LET h == node[n]
  IN  /\ h.size <= Half
      /\ h.next \in {NULL, n + Half}
      /\ h.left \in {NULL, WILD, n}
      /\ h.left = n => h.right = n
      /\ h.childSize \in {0, WILD}

(* Each block given back may have linked as many pages as a block has.     *)
Limit == LastPage + (frees * MAXIMUM_COALESCE_BLOCKS) * PAGE_SIZE

InPool(n) == node[n].next # NULL \/ node[n].size # 0 => n + PAGE_SIZE <= Limit

(* A search for pages stands at a page, or has come to the end.            *)
AtPage ==
  pc = "search" /\ size > PAGE_SIZE /\ currentNode \notin Pages =>
    node[currentNode].next = NULL

Shape ==
  pc # "buddy" =>
    /\ \A n \in Pages : PageOK(n) /\ InPool(n)
    /\ \A n \in Nodes \ Pages : HalfOK(n)
    /\ AtPage

Sizes ==
  /\ pc = "search" => size \in Powers
  /\ \A b \in Held : b.at \in Nodes /\ b.size \in Nat \ {0}

Locked == pc = "grow" => mutex = 1

(* The search comes past the start of the page p: no block covers it, and  *)
(* all pages before it are linked.                                         *)
InList(p) ==
  \A m \in Pages : m < p => node[m].next # NULL /\ m + node[m].size <= p

PageOf(n) == IF n \in Pages THEN n ELSE n - Half

AllocatedListed ==
  \A p \in Pages : node[p].status = "allocated" =>
    /\ InList(p)
    /\ \E b \in Held : b.at = p /\ b.size = node[p].size

CoveredLinked ==
  \A m, n \in Pages :
    m < n /\ n < m + node[m].size /\ node[m].next # NULL => node[n].next # NULL

SplitSmall ==
  \A p \in Pages : node[p].left = p =>
    node[p].size <= Half /\ node[p + Half].next = node[p].next

HeldHalf ==
  \A b \in Held : b.at \notin Pages => node[b.at - Half].left = b.at - Half

SearchListed ==
  pc = "search" =>
    /\ InList(PageOf(currentNode))
    /\ currentNode \notin Pages =>
         /\ node[currentNode].status = "unused"
         /\ node[currentNode - Half].status = "allocated"
         /\ node[currentNode - Half].left = currentNode - Half

Listed ==
  intact =>
    /\ Marked
    /\ AllocatedListed
    /\ CoveredLinked
    /\ SplitSmall
    /\ HeldHalf
    /\ SearchListed

SInv ==
  /\ Typed
  /\ Shape
  /\ Sizes
  /\ Locked

(* Marked is not looked at any more once a buddy has been used.            *)
Grown == pc = "buddy" => ~ intact

IInv == SInv /\ Listed /\ Grown

(* While every call asks for the same size.                                *)
Common == IF blocks = <<>> THEN size ELSE blocks[1].size

Uniform ==
  /\ \A i \in DOMAIN blocks : blocks[i].held /\ blocks[i].size = Common
  /\ Common < PAGE_SIZE
  /\ pc = "search" => size = Common

(* A page that no call has returned, and one that a call has.              *)
Fresh(n) ==
  /\ node[n].status = "unused"
  /\ \/ node[n].size = 0 /\ node[n].next = NULL
     \/ /\ node[n].size \in Powers /\ Common <= node[n].size
        /\ node[n].next = n + PAGE_SIZE
        /\ node[n + Half].status = "unused"
        /\ node[n].size # PAGE_SIZE =>
             node[n].left = n /\ node[n + Half].size = node[n].size

Taken(n) ==
  /\ node[n].status = "allocated"
  /\ node[n].size = Common
  /\ node[n].left = n
  /\ node[n].next = n + PAGE_SIZE

Stage ==
  /\ Len(blocks) = 0 => Fresh(0)
  /\ Len(blocks) >= 1 => Taken(0)
  /\ Len(blocks) = 1 => node[Half].status = "unused" /\ node[Half].size = Common
  /\ Len(blocks) >= 2 => node[Half].status = "allocated"
  /\ Len(blocks) <= 2 /\ PAGE_SIZE \in Pages => Fresh(PAGE_SIZE)
  /\ Len(blocks) >= 3 => Taken(PAGE_SIZE)
  /\ pc = "search" /\ currentNode # 0 => Len(blocks) = 2 /\ currentNode = PAGE_SIZE

Sequence ==
  /\ pc = "idle" /\ blocks = <<>> => freeList = NULL
  /\ freeList = NULL => blocks = <<>>
  /\ pc = "search" => freeList # NULL
  /\ pc \in {"idle", "search"} /\ freeList # NULL /\ Uniform => Stage

-----------------------------------------------------------------------------
(* Powers of two.                                                          *)

Pow2 == {1, 2, 4, 8, 16, 32, 64, 128, 256, 512, 1024, 2048, 4096, 8192, 16384,
         32768, 65536, 131072, 262144, 524288, 1048576}

LEMMA PowersAre == Powers = Pow2
<1>1. 0 .. 20 = {0, 1, 2, 3, 4, 5, 6, 7, 8, 9, 10, 11, 12, 13, 14, 15, 16, 17,
                 18, 19, 20}
  OBVIOUS
<1>2. Powers = {2 ^ 0, 2 ^ 1, 2 ^ 2, 2 ^ 3, 2 ^ 4, 2 ^ 5, 2 ^ 6, 2 ^ 7, 2 ^ 8,
                2 ^ 9, 2 ^ 10, 2 ^ 11, 2 ^ 12, 2 ^ 13, 2 ^ 14, 2 ^ 15, 2 ^ 16,
                2 ^ 17, 2 ^ 18, 2 ^ 19, 2 ^ 20}
  BY <1>1 DEF Powers
<1> QED BY <1>2 DEF Pow2

LEMMA PowersPositive == Powers \subseteq Nat \ {0}
BY PowersAre DEF Pow2

(* A power is at most half of a larger one, and divides it.                *)
LEMMA LargerPower ==
  ASSUME NEW s \in Powers, NEW x \in Powers, s < x
  PROVE  /\ x \div 2 \in Powers
         /\ s <= x \div 2
         /\ x = 2 * (x \div 2)
         /\ x = s * (x \div s)
         /\ x \div s \in Nat /\ x \div s >= 2
<1>1. s \in Pow2 /\ x \in Pow2
  BY PowersAre
<1>2. x \div 2 \in Pow2 /\ s <= x \div 2 /\ x = 2 * (x \div 2)
  BY <1>1 DEF Pow2
<1>3. x = s * (x \div s) /\ x \div s \in Nat /\ x \div s >= 2
  BY <1>1 DEF Pow2
<1> QED BY <1>2, <1>3, PowersAre

LEMMA RoundedUp ==
  ASSUME NEW s \in Nat, s <= 2 ^ 20
  PROVE  roundUpToNextPower2(s) \in Powers /\ roundUpToNextPower2(s) >= s
<1>1. \E q \in Pow2 : q >= s /\ \A r \in Pow2 : r >= s => q <= r
  BY DEF Pow2
<1> QED BY <1>1, PowersAre DEF roundUpToNextPower2

-----------------------------------------------------------------------------
(* Where the headers lie.                                                  *)

LEMMA Constants ==
  /\ PAGE_SIZE \in Nat /\ PAGE_SIZE \in Powers /\ PAGE_SIZE >= 2
  /\ Half \in Nat /\ Half > 0 /\ Half < PAGE_SIZE /\ PAGE_SIZE = 2 * Half
  /\ NULL \in Int /\ NULL < 0 /\ WILD \in Int /\ WILD < 0 /\ NULL # WILD
<1>1. PAGE_SIZE \in Powers /\ PAGE_SIZE \in Nat /\ PAGE_SIZE >= 2
  BY HeapAssumption, PowersPositive DEF HeapAssumption
<1>2. 1 \in Powers
  BY PowersAre DEF Pow2
<1>3. PAGE_SIZE = 2 * (PAGE_SIZE \div 2) /\ 1 <= PAGE_SIZE \div 2
  BY <1>1, <1>2, LargerPower
<1> QED BY <1>1, <1>3 DEF Half, NULL, WILD

LEMMA Multiples ==
  ASSUME NEW a \in Int, NEW b \in Int
  PROVE  /\ a * PAGE_SIZE \in Int
         /\ (a + 1) * PAGE_SIZE = a * PAGE_SIZE + PAGE_SIZE
         /\ (a + b) * PAGE_SIZE = a * PAGE_SIZE + b * PAGE_SIZE
         /\ a <= b => a * PAGE_SIZE <= b * PAGE_SIZE
         /\ a * PAGE_SIZE < b * PAGE_SIZE => a + 1 <= b
<1>0. PAGE_SIZE \in Nat /\ PAGE_SIZE >= 2
  BY Constants
<1>1. /\ a * PAGE_SIZE \in Int
      /\ (a + 1) * PAGE_SIZE = a * PAGE_SIZE + PAGE_SIZE
      /\ (a + b) * PAGE_SIZE = a * PAGE_SIZE + b * PAGE_SIZE
  BY <1>0
<1>2. ASSUME NEW c \in Int, NEW d \in Int, c <= d
      PROVE  c * PAGE_SIZE <= d * PAGE_SIZE
  BY <1>0, <1>2
<1>3. ASSUME a * PAGE_SIZE < b * PAGE_SIZE PROVE a + 1 <= b
  <2>1. ~ (b <= a)
    BY <1>0, <1>2, <1>3
  <2> QED BY <2>1
<1> QED BY <1>1, <1>2, <1>3

MaxPage == (POOL_ARRAY_SIZE + SPARE - 1) * PAGE_SIZE

LEMMA PageAt ==
  ASSUME NEW n \in Pages
  PROVE  \E a \in 0 .. POOL_ARRAY_SIZE + SPARE - 1 : n = a * PAGE_SIZE
BY DEF Pages

LEMMA PageFacts ==
  ASSUME NEW n \in Pages
  PROVE  /\ n \in Nat /\ n \in Nodes /\ n + Half \in Nodes /\ n + Half \notin Pages
         /\ n <= MaxPage /\ MaxPage \in Nat
         /\ n + PAGE_SIZE <= MaxPage => n + PAGE_SIZE \in Pages
         /\ \A m \in Pages : n < m => n + PAGE_SIZE <= m /\ n + PAGE_SIZE \in Pages
         /\ \A m \in Pages, k \in Nat :
              m < n + PAGE_SIZE * k => m + PAGE_SIZE <= n + PAGE_SIZE * k
         /\ \A k \in Nat : n + PAGE_SIZE * k \in Nodes => n + PAGE_SIZE * k \in Pages
         /\ n + PAGE_SIZE \in Nodes => n + PAGE_SIZE \in Pages
<1> DEFINE T == POOL_ARRAY_SIZE + SPARE - 1
<1>0. T \in Nat /\ PAGE_SIZE \in Nat /\ Half \in Nat /\ 0 < Half /\ Half < PAGE_SIZE
  BY HeapAssumption, Constants DEF HeapAssumption
<1>1. PICK a \in 0 .. T : n = a * PAGE_SIZE
  BY PageAt
<1>2. ASSUME NEW b \in 0 .. T PROVE b * PAGE_SIZE \in Pages
  BY <1>2 DEF Pages
<1> HIDE DEF T
<1>3. n \in Nat
  <2>1. 0 * PAGE_SIZE <= a * PAGE_SIZE /\ 0 * PAGE_SIZE = 0 /\ a * PAGE_SIZE \in Int
    BY <1>0, Multiples
  <2> QED BY <1>1, <2>1
<1>4. n + PAGE_SIZE = (a + 1) * PAGE_SIZE
  BY <1>0, <1>1, Multiples
<1>5. MaxPage = T * PAGE_SIZE
  BY DEF MaxPage, T
<1>6. n <= MaxPage /\ MaxPage \in Nat
  BY <1>0, <1>1, <1>3, <1>5, Multiples
<1>7. ASSUME NEW m \in Pages, n < m PROVE n + PAGE_SIZE <= m /\ n + PAGE_SIZE \in Pages
  <2>1. PICK b \in 0 .. T : m = b * PAGE_SIZE
    BY PageAt DEF T
  <2>2. a + 1 <= b
    BY <1>0, <1>1, <1>7, <2>1, Multiples
  <2>3. a + 1 \in 0 .. T
    BY <1>0, <1>1, <2>1, <2>2
  <2> QED BY <1>2, <1>4, <2>1, <2>2, <2>3, Multiples
<1>8. ASSUME n + PAGE_SIZE <= MaxPage PROVE n + PAGE_SIZE \in Pages
  <2>1. a * PAGE_SIZE < T * PAGE_SIZE
    BY <1>0, <1>1, <1>3, <1>5, <1>6, <1>8
  <2>2. a + 1 <= T
    BY <1>0, <2>1, Multiples
  <2>3. a + 1 \in 0 .. T
    BY <1>0, <2>2
  <2> QED BY <1>2, <1>4, <2>3
<1>9. n + Half \notin Pages
  <2> SUFFICES ASSUME n + Half \in Pages PROVE FALSE
    OBVIOUS
  <2>1. n + PAGE_SIZE <= n + Half
    BY <1>0, <1>3, <1>7
  <2> QED BY <1>0, <1>3, <2>1
<1>10. ASSUME NEW m \in Pages, NEW k \in Nat, m < n + PAGE_SIZE * k
       PROVE  m + PAGE_SIZE <= n + PAGE_SIZE * k
  <2>1. PICK b \in 0 .. T : m = b * PAGE_SIZE
    BY PageAt DEF T
  <2>2. n + PAGE_SIZE * k = (a + k) * PAGE_SIZE /\ a + k \in Int
    <3>1. PAGE_SIZE * k = k * PAGE_SIZE
      BY <1>0
    <3> QED BY <1>0, <1>1, <3>1, Multiples
  <2>3. b + 1 <= a + k
    BY <1>10, <2>1, <2>2, Multiples
  <2>4. (b + 1) * PAGE_SIZE <= (a + k) * PAGE_SIZE
    BY <2>2, <2>3, Multiples
  <2>5. m + PAGE_SIZE = (b + 1) * PAGE_SIZE
    BY <2>1, Multiples
  <2> QED BY <2>2, <2>4, <2>5
<1>11. n \in Nodes /\ n + Half \in Nodes
  BY DEF Nodes
<1>12. ASSUME NEW k \in Nat, n + PAGE_SIZE * k \in Nodes
       PROVE  n + PAGE_SIZE * k \in Pages
  <2> SUFFICES ASSUME n + PAGE_SIZE * k \notin Pages PROVE FALSE
    OBVIOUS
  <2>1. PICK m \in Pages : n + PAGE_SIZE * k = m + Half
    BY <1>12 DEF Nodes
  <2>2. m \in Int
    BY <2>1, PageAt, Multiples, HeapAssumption DEF HeapAssumption
  <2>3. m + PAGE_SIZE <= n + PAGE_SIZE * k
    BY <1>0, <1>10, <2>1, <2>2
  <2> QED BY <1>0, <2>1, <2>2, <2>3
<1>13. n + PAGE_SIZE \in Nodes => n + PAGE_SIZE \in Pages
  <2>1. PAGE_SIZE * 1 = PAGE_SIZE
    BY <1>0
  <2> QED BY <1>12, <2>1
<1> QED BY <1>3, <1>6, <1>7, <1>8, <1>9, <1>10, <1>11, <1>12, <1>13

LEMMA NodeFacts ==
  /\ 0 \in Pages
  /\ Nodes \subseteq Nat
  /\ Pages \subseteq Nodes
  /\ \A n \in Nodes \ Pages : n - Half \in Pages
  /\ \A n \in Nodes : PageOf(n) \in Pages /\ PageOf(n) <= n /\ n <= PageOf(n) + Half
<1>1. 0 \in Pages
  <2>1. 0 \in 0 .. POOL_ARRAY_SIZE + SPARE - 1
    BY HeapAssumption DEF HeapAssumption
  <2>2. 0 * PAGE_SIZE = 0
    BY Constants
  <2> QED BY <2>1, <2>2 DEF Pages
<1>2. \A n \in Pages : n \in Nat
  BY PageFacts
<1>3. Nodes \subseteq Nat /\ Pages \subseteq Nodes
  BY <1>2, Constants DEF Nodes
<1>4. ASSUME NEW n \in Nodes \ Pages PROVE n - Half \in Pages
  <2>1. PICK p \in Pages : n = p + Half
    BY <1>4 DEF Nodes
  <2>2. n - Half = p
    BY <1>2, <2>1, Constants
  <2> QED BY <2>2
<1> QED BY <1>1, <1>2, <1>3, <1>4, Constants DEF PageOf

(* The page of a block, as Marked computes it.                             *)
LEMMA PageByRemainder ==
  ASSUME NEW n \in Nodes
  PROVE  n - (n % PAGE_SIZE) = PageOf(n)
<1>0. PAGE_SIZE \in Nat \ {0} /\ Half \in 0 .. PAGE_SIZE - 1
  BY Constants
<1>1. PICK a \in Nat, r \in {0, Half} : n = a * PAGE_SIZE + r /\ PageOf(n) = a * PAGE_SIZE
  <2>1. PICK a \in 0 .. POOL_ARRAY_SIZE + SPARE - 1 : PageOf(n) = a * PAGE_SIZE
    BY NodeFacts, PageAt
  <2>2. a \in Nat
    BY HeapAssumption DEF HeapAssumption
  <2>3. n = PageOf(n) \/ n = PageOf(n) + Half
    BY NodeFacts, Constants DEF PageOf
  <2>4. a * PAGE_SIZE = a * PAGE_SIZE + 0
    BY <2>2, Multiples
  <2> QED BY <2>1, <2>2, <2>3, <2>4
<1> DEFINE q == n \div PAGE_SIZE
           s == n % PAGE_SIZE
<1>2. n \in Nat
  BY NodeFacts
<1>3. q \in Nat /\ s \in 0 .. PAGE_SIZE - 1 /\ n = PAGE_SIZE * q + s
  BY <1>0, <1>2
<1> HIDE DEF q, s
<1>4. PAGE_SIZE * q = q * PAGE_SIZE
  BY <1>0, <1>3
<1>5. ~ (q < a)
  <2> SUFFICES ASSUME q < a PROVE FALSE
    OBVIOUS
  <2>1. (q + 1) * PAGE_SIZE <= a * PAGE_SIZE
    BY <1>3, Multiples
  <2> QED BY <1>0, <1>1, <1>3, <1>4, <2>1, Multiples
<1>6. ~ (a < q)
  <2> SUFFICES ASSUME a < q PROVE FALSE
    OBVIOUS
  <2>1. (a + 1) * PAGE_SIZE <= q * PAGE_SIZE
    BY <1>3, Multiples
  <2> QED BY <1>0, <1>1, <1>3, <1>4, <2>1, Multiples
<1>7. a = q
  BY <1>3, <1>5, <1>6
<1>8. a * PAGE_SIZE \in Int
  BY Multiples
<1> QED BY <1>0, <1>1, <1>3, <1>4, <1>7, <1>8 DEF s

-----------------------------------------------------------------------------
(* Following the links.  Follow is recursive in the number of links;       *)
(* induction over it, from the well-foundedness of <, shows that the       *)
(* function exists and is what its definition says.                        *)

LEMMA UpTo ==
  ASSUME NEW N \in Nat, NEW S, 0 \in S,
         \A n \in 0 .. N - 1 : n \in S => n + 1 \in S
  PROVE  \A n \in 0 .. N : n \in S
<1> SUFFICES ASSUME NEW m \in 0 .. N, m \notin S PROVE FALSE
  OBVIOUS
<1> DEFINE Bad == {n \in Nat : n <= N /\ n \notin S}
           R == OpToRel(<, Nat)
<1>1. Bad # {} /\ Bad \subseteq Nat
  OBVIOUS
<1>2. \A x, y \in Nat : x < y => <<x, y>> \in R
  BY DEF OpToRel
<1>3. PICK k \in Bad : \A j \in Bad : ~ (<<j, k>> \in R)
  <2>1. IsWellFoundedOn(R, Nat)
    BY NatLessThanWellFounded
  <2> HIDE DEF Bad, R
  <2> QED BY <1>1, <2>1, WFMin
<1>4. k # 0 /\ k - 1 \in Nat /\ k - 1 < k
  OBVIOUS
<1>5. k - 1 \notin Bad
  BY <1>2, <1>3, <1>4
<1> QED BY <1>4, <1>5

After(n) == IF n = NULL THEN NULL ELSE node[n].next

(* f is the path along k links from n.                                     *)
IsPath(f, n, k) == f = [i \in 0 .. k |-> IF i = 0 THEN n ELSE After(f[i - 1])]

LEMMA PathExists ==
  ASSUME NEW n, NEW K \in Nat
  PROVE  \E f : IsPath(f, n, K)
<1> DEFINE S == {k \in Nat : \E f : IsPath(f, n, k)}
<1>1. 0 \in S
  <2> DEFINE f == [i \in 0 .. 0 |-> n]
  <2>1. IsPath(f, n, 0)
    BY DEF IsPath
  <2> QED BY <2>1
<1>2. ASSUME NEW k \in 0 .. K - 1, k \in S PROVE k + 1 \in S
  <2>1. PICK f : IsPath(f, n, k)
    BY <1>2
  <2> DEFINE g == [i \in 0 .. k + 1 |-> IF i <= k THEN f[i] ELSE After(f[k])]
  <2>2. IsPath(g, n, k + 1)
    BY <2>1 DEF IsPath
  <2> QED BY <2>2
<1>3. \A k \in 0 .. K : k \in S
  <2> HIDE DEF S
  <2> QED BY <1>1, <1>2, UpTo
<1> QED BY <1>3

LEMMA FollowIsPath ==
  ASSUME NEW n, NEW k \in Nat
  PROVE  \E f : IsPath(f, n, k) /\ Follow(n, k) = f[k]
<1> DEFINE f[i \in 0 .. k] ==
             IF i = 0 THEN n ELSE IF f[i - 1] = NULL THEN NULL ELSE node[f[i - 1]].next
<1>1. \E g : g = [i \in 0 .. k |-> IF i = 0 THEN n
                     ELSE IF g[i - 1] = NULL THEN NULL ELSE node[g[i - 1]].next]
  <2>1. \E g : IsPath(g, n, k)
    BY PathExists
  <2> QED BY <2>1, Zenon DEF IsPath, After
<1>2. f = [i \in 0 .. k |-> IF i = 0 THEN n
             ELSE IF f[i - 1] = NULL THEN NULL ELSE node[f[i - 1]].next]
  BY <1>1, Zenon
<1>3. Follow(n, k) = f[k]
  BY DEF Follow
<1> HIDE DEF f
<1>4. IsPath(f, n, k)
  BY <1>2, Zenon DEF IsPath, After
<1> QED BY <1>3, <1>4

(* One link more.                                                          *)
LEMMA FollowStep ==
  ASSUME NEW n, NEW k \in Nat
  PROVE  /\ Follow(n, 0) = n
         /\ Follow(n, k + 1) = After(Follow(n, k))
<1>1. Follow(n, 0) = n
  <2>1. PICK f : IsPath(f, n, 0) /\ Follow(n, 0) = f[0]
    BY FollowIsPath
  <2> QED BY <2>1 DEF IsPath
<1>2. PICK f : IsPath(f, n, k) /\ Follow(n, k) = f[k]
  BY FollowIsPath
<1>3. PICK h : IsPath(h, n, k + 1) /\ Follow(n, k + 1) = h[k + 1]
  BY FollowIsPath
<1> DEFINE Agree == {i \in Nat : h[i] = f[i]}
<1>4. f[0] = n /\ \A i \in 1 .. k : f[i] = After(f[i - 1])
  <2>1. f = [i \in 0 .. k |-> IF i = 0 THEN n ELSE After(f[i - 1])]
    BY <1>2 DEF IsPath
  <2> QED BY ONLY <2>1, k \in Nat
<1>5. h[0] = n /\ \A i \in 1 .. k + 1 : h[i] = After(h[i - 1])
  <2>1. h = [i \in 0 .. k + 1 |-> IF i = 0 THEN n ELSE After(h[i - 1])]
    BY <1>3 DEF IsPath
  <2> QED BY ONLY <2>1, k \in Nat
<1>6. 0 \in Agree
  BY <1>4, <1>5
<1>7. ASSUME NEW i \in 0 .. k - 1, i \in Agree PROVE i + 1 \in Agree
  <2>1. i + 1 \in 1 .. k /\ i + 1 \in 1 .. k + 1 /\ (i + 1) - 1 = i
    OBVIOUS
  <2>2. f[i + 1] = After(f[i]) /\ h[i + 1] = After(h[i])
    BY <1>4, <1>5, <2>1
  <2> QED BY <1>7, <2>2
<1>8. \A i \in 0 .. k : i \in Agree
  <2> HIDE DEF Agree
  <2> QED BY <1>6, <1>7, UpTo
<1>9. h[k] = f[k]
  BY <1>8
<1>10. k + 1 \in 1 .. k + 1 /\ (k + 1) - 1 = k
  OBVIOUS
<1>11. h[k + 1] = After(h[k])
  BY <1>5, <1>10
<1> QED BY <1>1, <1>2, <1>3, <1>9, <1>11

Header == [next : Nodes \cup {NULL}, left : Nodes \cup {NULL, WILD},
           right : Nodes \cup {NULL, WILD}, status : {"unused", "allocated"},
           size : Nat, childSize : {0, Half, WILD}]

LEMMA HeaderAt ==
  ASSUME Typed, NEW n \in Nodes
  PROVE  /\ node \in [Nodes -> Header] /\ node[n] \in Header
         /\ node[n].next \in Nodes \cup {NULL}
         /\ node[n].left \in Nodes \cup {NULL, WILD}
         /\ node[n].right \in Nodes \cup {NULL, WILD}
         /\ node[n].status \in {"unused", "allocated"}
         /\ node[n].size \in Nat
         /\ node[n].childSize \in {0, Half, WILD}
<1>1. node \in [Nodes -> Header]
  BY DEF Typed, Header
<1>2. node[n] \in Header
  BY <1>1
<1> QED BY <1>1, <1>2 DEF Header

(* Every link leads to a page further on.                                  *)
LEMMA LinksForward ==
  ASSUME Typed, Shape, pc # "buddy", NEW n \in Nodes, node[n].next # NULL
  PROVE  /\ node[n].next \in Pages
         /\ n \in Pages => node[n].next >= n + PAGE_SIZE /\ node[n].next >= n + node[n].size
         /\ n \notin Pages => node[n].next = (n - Half) + PAGE_SIZE
<1>1. node[n].next \in Nodes /\ node[n].size \in Nat
  BY HeaderAt
<1>2. CASE n \in Pages
  <2>1. PageOK(n) /\ n \in Nat
    BY <1>2, PageFacts DEF Shape
  <2>2. CASE node[n].size <= PAGE_SIZE
    <3>1. node[n].next = n + PAGE_SIZE
      BY <2>1, <2>2 DEF PageOK
    <3> QED BY <1>1, <1>2, <2>1, <2>2, <3>1, PageFacts, Constants
  <2>3. CASE ~ (node[n].size <= PAGE_SIZE)
    <3>0. node[n].size > PAGE_SIZE
      BY <1>1, <2>3, Constants
    <3>1. PICK k \in 2 .. MAXIMUM_COALESCE_BLOCKS :
             node[n].size = PAGE_SIZE * k /\ node[n].next = n + PAGE_SIZE * k
      BY <2>1, <3>0 DEF PageOK
    <3>2. k \in Nat
      OBVIOUS
    <3> QED BY <1>1, <1>2, <2>1, <3>0, <3>1, <3>2, PageFacts, Constants
  <2> QED BY <2>2, <2>3
<1>3. CASE n \notin Pages
  <2>1. node[n].next = n + Half
    BY <1>3 DEF Shape, HalfOK
  <2>2. n - Half \in Pages /\ n \in Nat
    BY <1>3, NodeFacts
  <2>3. n + Half = (n - Half) + PAGE_SIZE
    BY <2>2, Constants
  <2> QED BY <1>1, <1>3, <2>1, <2>2, <2>3, PageFacts
<1> QED BY <1>2, <1>3

(* The pages to join follow each other.                                    *)
LEMMA JoinedPages ==
  ASSUME Typed, Shape, pc # "buddy", NEW n \in Pages, NEW K \in Nat,
         node[n].status # "allocated",
         \A i \in 1 .. K - 1 : Follow(n, i) # NULL => node[Follow(n, i)].status # "allocated"
  PROVE  \A i \in 0 .. K :
           Follow(n, i) # NULL => Follow(n, i) = n + PAGE_SIZE * i /\ Follow(n, i) \in Pages
<1> DEFINE Good == {i \in Nat : Follow(n, i) # NULL =>
                      Follow(n, i) = n + PAGE_SIZE * i /\ Follow(n, i) \in Pages}
<1>0. n \in Nat /\ n + PAGE_SIZE * 0 = n /\ PAGE_SIZE \in Nat
  BY PageFacts, Constants
<1>1. 0 \in Good
  BY <1>0, FollowStep
<1>2. ASSUME NEW i \in 0 .. K - 1, i \in Good PROVE i + 1 \in Good
  <2> SUFFICES ASSUME Follow(n, i + 1) # NULL
               PROVE  /\ Follow(n, i + 1) = n + PAGE_SIZE * (i + 1)
                      /\ Follow(n, i + 1) \in Pages
    OBVIOUS
  <2> DEFINE p == Follow(n, i)
  <2>1. p # NULL /\ Follow(n, i + 1) = node[p].next
    BY FollowStep DEF After
  <2>2. p = n + PAGE_SIZE * i /\ p \in Pages /\ p \in Nodes
    BY <1>2, <2>1, NodeFacts
  <2>3. node[p].status # "allocated"
    <3>1. CASE i = 0
      BY <3>1, FollowStep
    <3>2. CASE i # 0
      BY <2>1, <3>2
    <3> QED BY <3>1, <3>2
  <2> HIDE DEF p
  <2>4. node[p].size <= PAGE_SIZE
    BY <2>2, <2>3, HeaderAt DEF Shape, PageOK
  <2>5. node[p].next = p + PAGE_SIZE
    BY <2>1, <2>2, <2>4 DEF Shape, PageOK
  <2>6. PAGE_SIZE * (i + 1) = PAGE_SIZE * i + PAGE_SIZE /\ PAGE_SIZE * i \in Nat
    BY <1>0
  <2>7. node[p].next \in Pages
    BY <2>1, <2>2, LinksForward
  <2> QED BY <1>0, <2>1, <2>2, <2>5, <2>6, <2>7
<1> HIDE DEF Good
<1>3. \A i \in 0 .. K : i \in Good
  BY <1>1, <1>2, UpTo
<1> QED BY <1>3 DEF Good

-----------------------------------------------------------------------------
(* The first part of the invariant: types and the shape of the headers.    *)

LEMMA HeldAt ==
  ASSUME SInv, NEW b \in Held
  PROVE  b.at \in Nodes /\ b.size \in Nat /\ b.size > 0
BY DEF SInv, Sizes

LEMMA AppendHeld ==
  ASSUME NEW S, blocks \in Seq(S), NEW b \in S, blocks' = Append(blocks, b)
  PROVE  /\ \A c \in Held' : c \in Held \/ (c = b /\ b.held)
         /\ b.held => b \in Held'
         /\ \A c \in Held : c \in Held'
         /\ Len(blocks') = Len(blocks) + 1 /\ blocks'[Len(blocks')] = b
<1>1. /\ DOMAIN blocks' = 1 .. Len(blocks) + 1 /\ Len(blocks) \in Nat
      /\ DOMAIN blocks = 1 .. Len(blocks) /\ Len(blocks') = Len(blocks) + 1
      /\ \A i \in DOMAIN blocks : blocks'[i] = blocks[i]
      /\ blocks'[Len(blocks) + 1] = b
  OBVIOUS
<1>2. \A i \in DOMAIN blocks' : i \in DOMAIN blocks \/ i = Len(blocks) + 1
  BY <1>1
<1>3. Len(blocks) + 1 \in DOMAIN blocks' /\ \A i \in DOMAIN blocks : i \in DOMAIN blocks'
  BY <1>1
<1>4. \A c \in Held' : c \in Held \/ (c = b /\ b.held)
  BY <1>1, <1>2 DEF Held
<1>5. b.held => b \in Held'
  BY <1>1, <1>3 DEF Held
<1>6. \A c \in Held : c \in Held'
  BY <1>1, <1>3 DEF Held
<1> QED BY <1>1, <1>4, <1>5, <1>6

(* What a call returns is held unless it is NULL.                          *)
LEMMA ReturnStep ==
  ASSUME SInv, pc = "search", NEW n \in Nodes \cup {NULL}, Return(n)
  PROVE  /\ pc' = "idle" /\ mutex' = 0
         /\ blocks' \in Seq([at : Nodes \cup {NULL}, size : Nat, held : BOOLEAN])
         /\ Sizes' /\ Locked'
         /\ AtPage'
         /\ \A c \in Held : c \in Held'
         /\ \A c \in Held' : c \in Held \/ (c.at = n /\ c.size = size /\ n # NULL)
         /\ n # NULL => \E c \in Held' : c.at = n /\ c.size = size
         /\ Len(blocks') = Len(blocks) + 1
         /\ blocks'[Len(blocks')] = [at |-> n, size |-> size, held |-> n # NULL]
<1> DEFINE b == [at |-> n, size |-> size, held |-> n # NULL]
           S == [at : Nodes \cup {NULL}, size : Nat, held : BOOLEAN]
<1>1. pc' = "idle" /\ mutex' = 0 /\ blocks' = Append(blocks, b)
  BY DEF Return
<1>2. blocks \in Seq(S) /\ b \in S /\ size \in Nat /\ size > 0
  BY PowersPositive DEF SInv, Typed, Sizes
<1>3. b.at = n /\ b.size = size /\ b.held = (n # NULL)
  OBVIOUS
<1> HIDE DEF b, S
<1>4. blocks' \in Seq(S)
  BY <1>1, <1>2
<1>5. /\ \A c \in Held' : c \in Held \/ (c = b /\ b.held)
      /\ b.held => b \in Held'
      /\ \A c \in Held : c \in Held'
      /\ Len(blocks') = Len(blocks) + 1 /\ blocks'[Len(blocks')] = b
  BY <1>1, <1>2, AppendHeld
<1>6. \A c \in Held' : c \in Held \/ (c.at = n /\ c.size = size /\ n # NULL)
  BY <1>3, <1>5
<1>7. Sizes'
  BY <1>1, <1>2, <1>6 DEF SInv, Sizes
<1>8. Locked' /\ AtPage'
  BY <1>1 DEF Locked, AtPage
<1> QED BY <1>1, <1>3, <1>4, <1>5, <1>6, <1>7, <1>8 DEF S, b

LEMMA LimitType ==
  ASSUME Typed
  PROVE  /\ LastPage \in Pages /\ LastPage \in Nat
         /\ Limit \in Nat /\ LastPage <= Limit /\ Limit <= MaxPage
         /\ frees < FREES =>
              Limit + MAXIMUM_COALESCE_BLOCKS * PAGE_SIZE <= MaxPage
<1> DEFINE m == MAXIMUM_COALESCE_BLOCKS
<1>0. /\ m \in Nat /\ SPARE \in Nat /\ FREES \in Nat /\ POOL_ARRAY_SIZE \in Nat \ {0}
      /\ frees \in 0 .. FREES /\ FREES * m <= SPARE
  BY HeapAssumption DEF HeapAssumption, Typed
<1>1. LastPage \in Pages /\ LastPage \in Nat
  <2>1. POOL_ARRAY_SIZE - 1 \in 0 .. POOL_ARRAY_SIZE + SPARE - 1
    BY <1>0
  <2>2. LastPage \in Pages
    BY <2>1 DEF Pages, LastPage
  <2> QED BY <2>2, PageFacts
<1>2. /\ frees * m \in Nat /\ frees * m <= FREES * m
      /\ frees < FREES => frees * m + m <= FREES * m
  <2>1. \A a, b \in Nat : a <= b => a * m <= b * m
    BY <1>0
  <2>2. frees * m \in Nat /\ frees * m <= FREES * m
    BY <1>0, <2>1
  <2>3. frees < FREES => (frees + 1) * m <= FREES * m
    BY <1>0, <2>1
  <2>4. (frees + 1) * m = frees * m + m
    BY <1>0
  <2> QED BY <2>2, <2>3, <2>4
<1> DEFINE f == frees * m
           t == POOL_ARRAY_SIZE - 1
<1>3. t \in Nat /\ f \in Nat /\ t + SPARE = POOL_ARRAY_SIZE + SPARE - 1
  BY <1>0, <1>2
<1>4. /\ Limit = t * PAGE_SIZE + f * PAGE_SIZE
      /\ LastPage = t * PAGE_SIZE /\ MaxPage = (t + SPARE) * PAGE_SIZE
  BY <1>3 DEF Limit, LastPage, MaxPage
<1>5. f <= SPARE /\ (frees < FREES => f + m <= SPARE)
  BY <1>0, <1>2
<1> HIDE DEF f, t
<1>6. Limit = (t + f) * PAGE_SIZE
  BY <1>3, <1>4, Multiples
<1>7. (t + f) * PAGE_SIZE <= (t + SPARE) * PAGE_SIZE /\ t * PAGE_SIZE <= (t + f) * PAGE_SIZE
  <2>1. t + f <= t + SPARE /\ t <= t + f /\ t + f \in Int /\ t + SPARE \in Int /\ t \in Int
    BY <1>0, <1>3, <1>5
  <2> QED BY <2>1, Multiples
<1>8. Limit \in Nat /\ LastPage <= Limit /\ Limit <= MaxPage
  <2>1. (t + f) * PAGE_SIZE \in Int
    BY <1>3, Multiples
  <2> QED BY <1>1, <1>4, <1>6, <1>7, <2>1
<1>9. ASSUME frees < FREES PROVE Limit + m * PAGE_SIZE <= MaxPage
  <2>1. (t + f) * PAGE_SIZE + m * PAGE_SIZE = ((t + f) + m) * PAGE_SIZE
    BY <1>0, <1>3, Multiples
  <2>2. (t + f) + m <= t + SPARE /\ (t + f) + m \in Int /\ t + SPARE \in Int
    BY <1>0, <1>3, <1>5, <1>9
  <2> QED BY <1>4, <1>6, <2>1, <2>2, Multiples
<1> QED BY <1>1, <1>8, <1>9

LEMMA SInitStep == Init => SInv
<1> SUFFICES ASSUME Init PROVE SInv
  OBVIOUS
<1> USE DEF Init
<1>1. ZeroNode \in Header
  BY DEF ZeroNode, Header
<1>2. node \in [Nodes -> Header] /\ \A n \in Nodes : node[n] = ZeroNode
  BY <1>1
<1>3. 0 \in Nodes
  BY NodeFacts
<1>4. Held = {}
  BY DEF Held
<1>5. Typed
  BY <1>2, <1>3, HeapAssumption DEF Typed, Header, HeapAssumption
<1>6. Shape
  <2>1. \A n \in Nodes : /\ node[n].next = NULL /\ node[n].left = NULL
                         /\ node[n].size = 0 /\ node[n].childSize = 0
    BY <1>2 DEF ZeroNode
  <2>2. \A n \in Pages : PageOK(n) /\ InPool(n)
    BY <2>1, NodeFacts, Constants DEF PageOK, InPool
  <2>3. \A n \in Nodes \ Pages : HalfOK(n)
    BY <2>1, NodeFacts, Constants DEF HalfOK
  <2> QED BY <2>2, <2>3 DEF Shape, AtPage
<1>7. Sizes /\ Locked
  BY <1>4 DEF Sizes, Locked
<1> QED BY <1>5, <1>6, <1>7 DEF SInv

(* The pages that initNodes links.                                         *)
LEMMA InitNodesShape ==
  ASSUME NEW n \in Nodes
  PROVE  /\ initNodes \in [Nodes -> Header]
         /\ initNodes[n] = IF n \in Pages /\ n < LastPage
                             THEN [ZeroNode EXCEPT !.next = n + PAGE_SIZE, !.size = PAGE_SIZE,
                                                   !.childSize = Half]
                             ELSE ZeroNode
<1>1. ZeroNode \in Header
  BY DEF ZeroNode, Header
<1>2. LastPage \in Pages
  <2>1. POOL_ARRAY_SIZE - 1 \in 0 .. POOL_ARRAY_SIZE + SPARE - 1
    BY HeapAssumption DEF HeapAssumption
  <2> QED BY <2>1 DEF Pages, LastPage
<1>3. ASSUME NEW q \in Pages, q < LastPage
      PROVE  [ZeroNode EXCEPT !.next = q + PAGE_SIZE, !.size = PAGE_SIZE,
                              !.childSize = Half] \in Header
  <2>1. q + PAGE_SIZE \in Nodes
    BY <1>2, <1>3, PageFacts, NodeFacts
  <2> QED BY <2>1, Constants DEF ZeroNode, Header
<1> QED BY <1>1, <1>3 DEF initNodes

LEMMA Watched ==
  ASSUME Typed, Watch
  PROVE  intact' \in BOOLEAN /\ (intact' => intact /\ Marked' /\ pc' # "buddy")
<1>1. intact \in BOOLEAN
  BY DEF Typed
<1> QED BY <1>1, Zenon DEF Watch

(* The candidate is the current node, or the second half of a page whose   *)
(* first half is in use, or the page after one in use.                     *)
LEMMA CandidateCases ==
  ASSUME SInv, Steers
  PROVE  /\ pc = "search" /\ currentNode \in Nodes /\ Candidate(currentNode) \in Nodes
         /\ \/ /\ Candidate(currentNode) = currentNode
               /\ node[currentNode].status = "unused" \/ node[currentNode].next = NULL
            \/ /\ currentNode \in Pages
               /\ node[currentNode].left = currentNode
               /\ node[currentNode].status = "allocated"
               /\ Candidate(currentNode) = currentNode + Half
               /\ node[currentNode + Half].status = "unused"
            \/ /\ node[currentNode].status = "allocated"
               /\ node[currentNode].next # NULL
               /\ Candidate(currentNode) = node[currentNode].next
               /\ Candidate(currentNode) \in Pages
<1> DEFINE c == currentNode
           n == Candidate(currentNode)
<1>0. /\ pc = "search" /\ c \in Nodes /\ n # NULL /\ node[c].left # WILD
      /\ Typed /\ Shape /\ pc # "buddy"
  BY DEF SInv, Typed, Steers, GoesOn
<1>1. /\ node[c].left \in Nodes \cup {NULL} /\ node[c].status \in {"unused", "allocated"}
      /\ node[c].next \in Nodes \cup {NULL}
  BY <1>0, HeaderAt
<1>2. CASE node[c].left # NULL /\ node[node[c].left].status = "allocated"
  <2>1. node[c].left = c
    <3>1. CASE c \in Pages
      BY <1>0, <1>2, <3>1 DEF Shape, PageOK
    <3>2. CASE c \notin Pages
      BY <1>0, <1>2, <3>2 DEF Shape, HalfOK
    <3> QED BY <3>1, <3>2
  <2>2. node[c].status = "allocated"
    BY <1>2, <2>1
  <2>3. CASE node[node[c].right].status = "unused"
    <3>1. n = node[c].right
      BY <1>2, <2>3 DEF Candidate
    <3>2. c \in Pages
      <4>1. ASSUME c \notin Pages PROVE FALSE
        <5>1. node[c].right = c
          BY <1>0, <2>1, <4>1 DEF Shape, HalfOK
        <5> QED BY <2>2, <2>3, <5>1
      <4> QED BY <4>1
    <3>3. n = c + Half
      BY <1>0, <2>1, <3>1, <3>2 DEF Shape, PageOK
    <3>4. n \in Nodes
      BY <3>2, <3>3, PageFacts
    <3> QED BY <1>0, <2>1, <2>2, <2>3, <3>1, <3>2, <3>3, <3>4
  <2>4. CASE node[node[c].right].status # "unused"
    <3>1. n = node[c].next
      BY <1>2, <2>4 DEF Candidate
    <3>2. n \in Pages
      BY <1>0, <3>1, LinksForward
    <3> QED BY <1>0, <2>2, <3>1, <3>2, NodeFacts
  <2> QED BY <2>3, <2>4
<1>3. CASE ~ (node[c].left # NULL /\ node[node[c].left].status = "allocated")
  <2>1. CASE node[c].status = "allocated" /\ node[c].next # NULL
    <3>1. n = node[c].next
      BY <1>3, <2>1 DEF Candidate
    <3>2. n \in Pages
      BY <1>0, <2>1, <3>1, LinksForward
    <3> QED BY <1>0, <2>1, <3>1, <3>2, NodeFacts
  <2>2. CASE ~ (node[c].status = "allocated" /\ node[c].next # NULL)
    <3>1. n = c
      BY <1>3, <2>2 DEF Candidate
    <3> QED BY <1>0, <1>1, <2>2, <3>1
  <2> QED BY <2>1, <2>2
<1> QED BY <1>2, <1>3

LEMMA EnterShape ==
  ASSUME SInv, NEW request \in Requests, Enter(request), Watch
  PROVE  SInv'
<1> DEFINE s == request + HEAD
<1>1. /\ mutex' = 1 /\ pc' = "search" /\ freeList' = 0 /\ currentNode' = 0
      /\ size' = roundUpToNextPower2(s)
      /\ blocks' = blocks /\ frees' = frees
      /\ node' = IF freeList = NULL THEN initNodes ELSE node
      /\ pc \in {"idle", "grow"} /\ mutex = 0
  BY DEF Enter
<1>2. s \in Nat /\ s <= 2 ^ 20
  BY HeapAssumption, Constants DEF HeapAssumption
<1>3. size' \in Powers /\ size' \in Nat
  BY <1>1, <1>2, RoundedUp, PowersPositive
<1> HIDE DEF s
<1>4. node' \in [Nodes -> Header]
  BY <1>1, HeaderAt, InitNodesShape, NodeFacts DEF SInv
<1>5. Typed'
  BY <1>1, <1>3, <1>4, NodeFacts, Watched DEF SInv, Typed, Header
<1>6. Limit' = Limit /\ Limit \in Nat /\ LastPage <= Limit /\ LastPage \in Pages
  BY <1>1, LimitType DEF SInv, Limit
<1>7. Shape'
  <2>1. CASE freeList = NULL
    <3>0. node' = initNodes
      BY <1>1, <2>1
    <3>1. ASSUME NEW n \in Pages PROVE PageOK(n)' /\ InPool(n)'
      <4>0. n \in Nodes /\ n \in Nat
        BY PageFacts
      <4>1. CASE n < LastPage
        <5>1. node'[n] = [ZeroNode EXCEPT !.next = n + PAGE_SIZE, !.size = PAGE_SIZE,
                                          !.childSize = Half]
          BY <3>0, <4>0, <4>1, InitNodesShape
        <5>2. /\ node'[n].next = n + PAGE_SIZE /\ node'[n].size = PAGE_SIZE
              /\ node'[n].childSize = Half /\ node'[n].left = NULL
          BY <5>1 DEF ZeroNode
        <5>3. n + PAGE_SIZE <= Limit'
          BY <1>6, <4>0, <4>1, PageFacts, Constants
        <5> QED BY <4>0, <5>2, <5>3, Constants DEF PageOK, InPool
      <4>2. CASE ~ (n < LastPage)
        <5>1. node'[n] = ZeroNode
          BY <3>0, <4>0, <4>2, InitNodesShape
        <5>2. /\ node'[n].next = NULL /\ node'[n].size = 0
              /\ node'[n].childSize = 0 /\ node'[n].left = NULL
          BY <5>1 DEF ZeroNode
        <5> QED BY <4>0, <5>2, Constants DEF PageOK, InPool
      <4> QED BY <4>1, <4>2
    <3>2. ASSUME NEW n \in Nodes \ Pages PROVE HalfOK(n)'
      <4>1. node'[n] = ZeroNode
        BY <3>0, InitNodesShape
      <4>2. /\ node'[n].next = NULL /\ node'[n].size = 0
            /\ node'[n].childSize = 0 /\ node'[n].left = NULL
        BY <4>1 DEF ZeroNode
      <4> QED BY <4>2, NodeFacts, Constants DEF HalfOK
    <3>3. AtPage'
      BY <1>1, NodeFacts DEF AtPage
    <3> QED BY <3>1, <3>2, <3>3 DEF Shape
  <2>2. CASE freeList # NULL
    <3>0. node' = node
      BY <1>1, <2>2
    <3>1. AtPage'
      BY <1>1, NodeFacts DEF AtPage
    <3>2. \A n \in Pages : PageOK(n) /\ InPool(n)
      BY <1>1 DEF SInv, Shape
    <3>3. \A n \in Nodes \ Pages : HalfOK(n)
      BY <1>1 DEF SInv, Shape
    <3> QED BY <1>6, <3>0, <3>1, <3>2, <3>3 DEF Shape, PageOK, InPool, HalfOK
  <2> QED BY <2>1, <2>2
<1>8. Sizes' /\ Locked'
  BY <1>1, <1>3 DEF SInv, Sizes, Locked, Held
<1> QED BY <1>5, <1>7, <1>8 DEF SInv

(* The headers stay as they are.                                           *)
LEMMA SameHeaders ==
  ASSUME SInv, pc # "buddy", node' = node, frees' = frees, AtPage'
  PROVE  Shape'
<1>1. \A n \in Pages : PageOK(n) /\ InPool(n)
  BY DEF SInv, Shape
<1>2. \A n \in Nodes \ Pages : HalfOK(n)
  BY DEF SInv, Shape
<1> QED BY <1>1, <1>2 DEF Shape, PageOK, InPool, HalfOK, Limit

(* Only one header changes, and remains as it should be.                   *)
LEMMA OneHeader ==
  ASSUME SInv, pc # "buddy", NEW n \in Nodes, NEW h,
         node' = [node EXCEPT ![n] = h], h \in Header, frees' = frees, AtPage',
         n \in Pages => PageOK(n)' /\ InPool(n)',
         n \notin Pages => HalfOK(n)'
  PROVE  Shape' /\ node' \in [Nodes -> Header]
<1>1. \A q \in Pages : PageOK(q) /\ InPool(q)
  BY DEF SInv, Shape
<1>2. \A q \in Nodes \ Pages : HalfOK(q)
  BY DEF SInv, Shape
<1>3. node \in [Nodes -> Header]
  BY HeaderAt DEF SInv
<1>4. \A q \in Nodes : q # n => node'[q] = node[q]
  BY <1>3
<1>5. ASSUME NEW q \in Pages PROVE PageOK(q)' /\ InPool(q)'
  <2>1. CASE q = n
    BY <2>1
  <2>2. CASE q # n
    <3>1. node'[q] = node[q]
      BY <1>4, <2>2, NodeFacts
    <3> QED BY <1>1, <3>1 DEF PageOK, InPool, Limit
  <2> QED BY <2>1, <2>2
<1>6. ASSUME NEW q \in Nodes \ Pages PROVE HalfOK(q)'
  <2>1. CASE q = n
    BY <2>1
  <2>2. CASE q # n
    <3>1. node'[q] = node[q]
      BY <1>4, <2>2
    <3> QED BY <1>2, <3>1 DEF HalfOK
  <2> QED BY <2>1, <2>2
<1> QED BY <1>3, <1>5, <1>6 DEF Shape

LEMMA RefuseShape ==
  ASSUME SInv, Refuse, Watch
  PROVE  SInv'
<1>1. Return(NULL) /\ node' = node /\ pc = "search"
  BY DEF Refuse, MayCoalesce
<1>2. /\ blocks' \in Seq([at : Nodes \cup {NULL}, size : Nat, held : BOOLEAN])
      /\ Sizes' /\ Locked' /\ AtPage' /\ pc' = "idle" /\ mutex' = 0
  BY <1>1, ReturnStep
<1>3. UNCHANGED <<freeList, size, currentNode, frees>>
  BY <1>1 DEF Return
<1>4. Typed'
  BY <1>1, <1>2, <1>3, Watched DEF SInv, Typed
<1>5. Shape'
  BY <1>1, <1>2, <1>3, SameHeaders
<1> QED BY <1>2, <1>4, <1>5 DEF SInv

LEMMA MatchShape ==
  ASSUME SInv, Match, Watch
  PROVE  SInv'
<1>0. PICK n \in Nodes : n = Candidate(currentNode)
  BY CandidateCases DEF Match
<1>1. /\ pc = "search" /\ Return(n) /\ node[n].size = size
      /\ node' = [node EXCEPT ![n].status = "allocated"]
  BY <1>0, CandidateCases DEF Match
<1>2. /\ blocks' \in Seq([at : Nodes \cup {NULL}, size : Nat, held : BOOLEAN])
      /\ Sizes' /\ Locked' /\ AtPage' /\ pc' = "idle" /\ mutex' = 0
  BY <1>1, ReturnStep
<1>3. UNCHANGED <<freeList, size, currentNode, frees>>
  BY <1>1 DEF Return
<1>4. /\ node \in [Nodes -> Header] /\ node[n] \in Header
  BY HeaderAt DEF SInv
<1>5. PICK h : h = [node[n] EXCEPT !.status = "allocated"]
  OBVIOUS
<1>6. /\ h \in Header /\ h.status = "allocated" /\ h.next = node[n].next
      /\ h.left = node[n].left /\ h.right = node[n].right /\ h.size = node[n].size
      /\ h.childSize = node[n].childSize
  BY <1>4, <1>5 DEF Header
<1>7. node' = [node EXCEPT ![n] = h] /\ node'[n] = h
  BY <1>1, <1>4, <1>5
<1>8. n \in Pages => PageOK(n)' /\ InPool(n)'
  <2> SUFFICES ASSUME n \in Pages PROVE PageOK(n)' /\ InPool(n)'
    OBVIOUS
  <2>1. PageOK(n) /\ InPool(n)
    BY <1>1 DEF SInv, Shape
  <2>2. InPool(n)'
    BY <1>3, <1>6, <1>7, <2>1 DEF InPool, Limit
  <2>3. PageOK(n)'
    BY <1>6, <1>7, <2>1 DEF PageOK
  <2> QED BY <2>2, <2>3
<1>9. n \notin Pages => HalfOK(n)'
  <2> SUFFICES ASSUME n \notin Pages PROVE HalfOK(n)'
    OBVIOUS
  <2>1. HalfOK(n)
    BY <1>1 DEF SInv, Shape
  <2> QED BY <1>6, <1>7, <2>1 DEF HalfOK
<1>10. pc # "buddy"
  BY <1>1
<1>11. Shape' /\ node' \in [Nodes -> Header]
  BY <1>2, <1>3, <1>6, <1>7, <1>8, <1>9, <1>10, OneHeader
<1>12. Typed'
  BY <1>2, <1>3, <1>11, Watched DEF SInv, Typed, Header
<1> QED BY <1>2, <1>11, <1>12 DEF SInv

(* The node that the search goes on to.                                    *)
LEMMA AdvanceShape ==
  ASSUME SInv, Advance, Watch
  PROVE  SInv'
<1> DEFINE n == Candidate(currentNode)
<1>1. /\ n \in Nodes /\ pc = "search"
      /\ currentNode' = IF node[n].next # NULL THEN node[n].next ELSE n
      /\ UNCHANGED <<pc, freeList, node, size, mutex, blocks, frees>>
  BY CandidateCases DEF Advance
<1> HIDE DEF n
<1>2. node[n].next # NULL => node[n].next \in Pages
  BY <1>1, LinksForward DEF SInv
<1>3. currentNode' \in Nodes
  BY <1>1, <1>2, NodeFacts
<1>4. Typed'
  BY <1>1, <1>3, Watched DEF SInv, Typed
<1>5. AtPage'
  BY <1>1, <1>2 DEF AtPage
<1>6. Shape'
  BY <1>1, <1>5, SameHeaders
<1>7. Sizes' /\ Locked'
  BY <1>1 DEF SInv, Sizes, Locked, Held
<1> QED BY <1>4, <1>6, <1>7 DEF SInv

LEMMA AstrayShape ==
  ASSUME SInv, Astray, Watch
  PROVE  SInv'
<1>1. /\ pc = "search" /\ pc' = "wild"
      /\ UNCHANGED <<freeList, node, currentNode, size, mutex, blocks, frees>>
  BY DEF Astray, GoesOn, MayCoalesce
<1>2. Typed'
  BY <1>1, Watched DEF SInv, Typed
<1>3. AtPage' /\ Locked' /\ Sizes'
  BY <1>1 DEF SInv, AtPage, Locked, Sizes, Held
<1>4. Shape'
  BY <1>1, <1>3, SameHeaders
<1> QED BY <1>2, <1>3, <1>4 DEF SInv

(* The block that coalesceBlocks makes begins at a page and is made of     *)
(* whole pages; what follows it is the page after them, or nothing.        *)
LEMMA CoalescedBlock ==
  ASSUME SInv, coalesceBlocks
  PROVE  /\ pc = "search" /\ currentNode \in Pages /\ Return(currentNode)
         /\ size = PAGE_SIZE * blocksToCoalesce /\ size > PAGE_SIZE
         /\ blocksToCoalesce \in 2 .. MAXIMUM_COALESCE_BLOCKS
         /\ node[currentNode].status = "unused" /\ node[currentNode].next # NULL
         /\ node[currentNode].size <= PAGE_SIZE
         /\ Follow(currentNode, blocksToCoalesce) # NULL =>
              /\ Follow(currentNode, blocksToCoalesce) = currentNode + size
              /\ Follow(currentNode, blocksToCoalesce) \in Pages
         /\ \A i \in 0 .. blocksToCoalesce - 1 : Follow(currentNode, i) # NULL =>
              /\ Follow(currentNode, i) = currentNode + PAGE_SIZE * i
              /\ Follow(currentNode, i) \in Pages
              /\ node[Follow(currentNode, i)].status # "allocated"
<1>1. /\ pc = "search" /\ size > PAGE_SIZE /\ Return(currentNode)
      /\ node[currentNode].status # "allocated" /\ node[currentNode].next # NULL
      /\ blocksToCoalesce <= MAXIMUM_COALESCE_BLOCKS /\ canCoalesce
  BY DEF coalesceBlocks, MayCoalesce
<1>2. Typed /\ Shape /\ pc # "buddy" /\ currentNode \in Nodes
  BY <1>1 DEF SInv, Typed
<1>3. currentNode \in Pages
  BY <1>1, <1>2 DEF Shape, AtPage
<1>4. /\ size = PAGE_SIZE * blocksToCoalesce
      /\ blocksToCoalesce \in Nat /\ blocksToCoalesce >= 2
  BY <1>1, Constants, LargerPower DEF SInv, Sizes, blocksToCoalesce
<1>5. blocksToCoalesce \in 2 .. MAXIMUM_COALESCE_BLOCKS
  BY <1>1, <1>4, HeapAssumption DEF HeapAssumption
<1>6. node[currentNode].status = "unused" /\ node[currentNode].size <= PAGE_SIZE
  BY <1>1, <1>2, <1>3, HeaderAt DEF Shape, PageOK
<1>7. PICK c \in Pages, K \in Nat : c = currentNode /\ K = blocksToCoalesce
  BY <1>3, <1>4
<1>8. ASSUME NEW i \in 1 .. K - 1, Follow(c, i) # NULL
      PROVE  node[Follow(c, i)].status # "allocated"
  <2>1. Follow(currentNode, i) \in NextNodes(blocksToCoalesce)
    BY <1>7 DEF NextNodes
  <2> QED BY <1>1, <1>7, <1>8, <2>1 DEF canCoalesce
<1>9. \A i \in 0 .. K : Follow(c, i) # NULL =>
          Follow(c, i) = c + PAGE_SIZE * i /\ Follow(c, i) \in Pages
  BY <1>1, <1>2, <1>7, <1>8, JoinedPages
<1>10. ASSUME NEW i \in 0 .. K - 1, Follow(c, i) # NULL
       PROVE  node[Follow(c, i)].status # "allocated"
  <2>1. CASE i = 0
    BY <1>1, <1>7, <2>1, FollowStep
  <2>2. CASE i # 0
    BY <1>8, <1>10, <2>2
  <2> QED BY <2>1, <2>2
<1>11. /\ K \in 0 .. K /\ \A i \in 0 .. K - 1 : i \in 0 .. K
  OBVIOUS
<1>12. Follow(c, K) # NULL => Follow(c, K) = c + PAGE_SIZE * K /\ Follow(c, K) \in Pages
  BY <1>9, <1>11
<1>13. \A i \in 0 .. K - 1 : Follow(c, i) # NULL =>
          /\ Follow(c, i) = c + PAGE_SIZE * i
          /\ Follow(c, i) \in Pages
          /\ node[Follow(c, i)].status # "allocated"
  BY <1>9, <1>10, <1>11
<1> QED BY <1>1, <1>3, <1>4, <1>5, <1>6, <1>7, <1>12, <1>13

LEMMA CoalesceShape ==
  ASSUME SInv, coalesceBlocks, Watch
  PROVE  SInv'
<1>1. PICK c \in Pages, K \in 2 .. MAXIMUM_COALESCE_BLOCKS,
           f \in {Follow(currentNode, blocksToCoalesce)} :
        c = currentNode /\ K = blocksToCoalesce /\ f = Follow(c, K)
  BY CoalescedBlock
<1>2. /\ pc = "search" /\ Return(c) /\ node[c].next # NULL
      /\ size = PAGE_SIZE * K /\ size > PAGE_SIZE
      /\ f # NULL => f = c + size /\ f \in Pages
      /\ node[c].size <= PAGE_SIZE
  BY <1>1, CoalescedBlock
<1>3. node' = [node EXCEPT ![c].next = f, ![c].size = PAGE_SIZE * K,
                           ![c].status = "allocated"]
  BY <1>1 DEF coalesceBlocks
<1>4. /\ blocks' \in Seq([at : Nodes \cup {NULL}, size : Nat, held : BOOLEAN])
      /\ Sizes' /\ Locked' /\ AtPage' /\ pc' = "idle" /\ mutex' = 0
  BY <1>2, NodeFacts, ReturnStep
<1>5. UNCHANGED <<freeList, size, currentNode, frees>>
  BY <1>2 DEF Return
<1>6. /\ node \in [Nodes -> Header] /\ c \in Nodes /\ node[c] \in Header /\ size \in Nat
  BY HeaderAt, NodeFacts DEF SInv, Typed
<1>7. PICK h : h = [node[c] EXCEPT !.next = f, !.size = PAGE_SIZE * K,
                                   !.status = "allocated"]
  OBVIOUS
<1>8. /\ h \in Header /\ h.status = "allocated" /\ h.next = f
      /\ h.left = node[c].left /\ h.right = node[c].right /\ h.size = size
      /\ h.childSize = node[c].childSize
  <2>1. f \in Nodes \cup {NULL}
    BY <1>2, NodeFacts
  <2> QED BY <1>2, <1>6, <1>7, <2>1 DEF Header
<1>9. node' = [node EXCEPT ![c] = h] /\ node'[c] = h
  BY <1>3, <1>6, <1>7
<1>10. PageOK(c) /\ InPool(c)
  BY <1>2 DEF SInv, Shape
<1>11. PageOK(c)'
  <2>1. ~ (size <= PAGE_SIZE) /\ h.status # "unused"
    BY <1>2, <1>6, <1>8, Constants
  <2>2. h.next \in {NULL, c + h.size}
    BY <1>2, <1>8
  <2>3. \E k \in 2 .. MAXIMUM_COALESCE_BLOCKS : h.size = PAGE_SIZE * k
    BY <1>2, <1>8
  <2>4. h.childSize # 0 /\ h.childSize \in {0, Half}
    BY <1>2, <1>8, <1>10 DEF PageOK
  <2>5. h.left \in {NULL, WILD, c} /\ (h.left = c => h.right = c + Half)
    BY <1>8, <1>10 DEF PageOK
  <2> QED BY <1>8, <1>9, <2>1, <2>2, <2>3, <2>4, <2>5 DEF PageOK
<1>12. InPool(c)'
  BY <1>2, <1>5, <1>10 DEF InPool, Limit
<1>13. Shape' /\ node' \in [Nodes -> Header]
  <2>1. pc # "buddy"
    BY <1>2
  <2> QED BY <1>4, <1>5, <1>6, <1>8, <1>9, <1>11, <1>12, <2>1, OneHeader
<1>14. Typed'
  BY <1>4, <1>5, <1>13, Watched DEF SInv, Typed, Header
<1> QED BY <1>4, <1>13, <1>14 DEF SInv

(* The headers that Split writes: that of the block and that in the middle *)
(* of its page, which is the block itself if it is a second half.          *)
LEMMA SplitHeaders ==
  ASSUME SInv, Split
  PROVE  \E n, r \in Nodes :
           /\ n = Candidate(currentNode) /\ currentNode' = n
           /\ pc = "search" /\ size \in Powers
           /\ node[n].status = "unused" /\ size < node[n].size
           /\ IF n \in Pages THEN r = n + Half /\ r \notin Pages ELSE r = n
           /\ node' \in [Nodes -> Header]
           /\ \A q \in Nodes : q # n /\ q # r => node'[q] = node[q]
           /\ node'[n].left = n /\ node'[n].right = r /\ node'[n].next = node[n].next
           /\ node'[n].size = node[n].size \div 2 /\ node'[n].size \in Nat
           /\ node'[n].status = "unused" /\ node'[n].childSize = node[n].childSize
           /\ node'[r].size = node[n].size \div 2 /\ node'[r].next = node[n].next
           /\ node'[r].status = node[r].status /\ node'[r].childSize = node[r].childSize
           /\ r # n => node'[r].left = node[r].left /\ node'[r].right = node[r].right
<1>0. PICK n \in Nodes : n = Candidate(currentNode)
  BY CandidateCases DEF Split
<1>1. PICK r : r = n + node[n].childSize
  OBVIOUS
<1>2. /\ pc = "search" /\ pc # "buddy" /\ Typed /\ Shape /\ size \in Powers /\ size > 0
  BY CandidateCases, PowersPositive DEF Split, SInv, Sizes
<1>3. /\ node[n].status # "allocated" /\ size < node[n].size /\ node[n].childSize # WILD
      /\ node' = [node EXCEPT ![n].left = n, ![n].right = r,
                              ![n].size = @ \div 2,
                              ![r].size = node[n].size \div 2,
                              ![r].next = node[n].next]
      /\ currentNode' = n
  BY <1>0, <1>1 DEF Split
<1>4. /\ node \in [Nodes -> Header] /\ node[n] \in Header /\ node[n].size \in Nat
      /\ node[n].status \in {"unused", "allocated"} /\ size \in Nat
  BY <1>2, HeaderAt DEF Typed
<1>5. r \in Nodes /\ IF n \in Pages THEN r = n + Half /\ r \notin Pages ELSE r = n
  <2>1. CASE n \in Pages
    <3>1. node[n].childSize \in {0, Half} /\ (node[n].childSize = 0 => node[n].size = 0)
      BY <1>2, <2>1 DEF Shape, PageOK
    <3>2. node[n].childSize = Half
      <4>1. node[n].size # 0
        BY <1>2, <1>3, <1>4
      <4> QED BY <3>1, <4>1
    <3> QED BY <1>1, <2>1, <3>2, PageFacts
  <2>2. CASE n \notin Pages
    <3>1. node[n].childSize = 0
      BY <1>2, <1>3, <2>2 DEF Shape, HalfOK
    <3> QED BY <1>1, <2>2, <3>1, NodeFacts
  <2> QED BY <2>1, <2>2
<1>6. node[n].size \div 2 \in Nat
  BY <1>4
<1>7. PICK s, x \in Nat : s = node[n].size \div 2 /\ x = node[n].size
  BY <1>4, <1>6
<1>8. PICK hn : hn = [node[n] EXCEPT !.left = n, !.right = r, !.size = s]
  OBVIOUS
<1>9. /\ hn \in Header /\ hn.left = n /\ hn.right = r /\ hn.size = s
      /\ hn.next = node[n].next /\ hn.status = node[n].status
      /\ hn.childSize = node[n].childSize
  BY <1>4, <1>5, <1>8 DEF Header
<1>10. PICK m : m = [node EXCEPT ![n] = hn]
  OBVIOUS
<1>11. m \in [Nodes -> Header] /\ m[n] = hn /\ \A q \in Nodes : q # n => m[q] = node[q]
  BY <1>4, <1>9, <1>10
<1>12. node' = [m EXCEPT ![r].size = s, ![r].next = node[n].next]
  BY <1>3, <1>4, <1>7, <1>8, <1>10
<1>13. PICK hr : hr = [m[r] EXCEPT !.size = s, !.next = node[n].next]
  OBVIOUS
<1>14. /\ hr \in Header /\ hr.size = s /\ hr.next = node[n].next
       /\ hr.left = m[r].left /\ hr.right = m[r].right /\ hr.status = m[r].status
       /\ hr.childSize = m[r].childSize
  <2>1. m[r] \in Header /\ node[n].next \in Nodes \cup {NULL}
    BY <1>2, <1>5, <1>11, HeaderAt
  <2> QED BY <1>13, <2>1 DEF Header
<1>15. node' = [m EXCEPT ![r] = hr]
  BY <1>5, <1>11, <1>12, <1>13
<1>16. /\ node' \in [Nodes -> Header] /\ node'[r] = hr
       /\ \A q \in Nodes : q # r => node'[q] = m[q]
  BY <1>5, <1>11, <1>14, <1>15
<1>17. \A q \in Nodes : q # n /\ q # r => node'[q] = node[q]
  BY <1>11, <1>16
<1>18. node[n].status = "unused"
  BY <1>3, <1>4
<1>19. /\ node'[n].left = n /\ node'[n].right = r /\ node'[n].next = node[n].next
       /\ node'[n].size = node[n].size \div 2 /\ node'[n].size \in Nat
       /\ node'[n].status = "unused" /\ node'[n].childSize = node[n].childSize
  <2>1. CASE r = n
    <3>1. node'[n] = hr /\ m[r] = hn
      BY <1>11, <1>16, <2>1
    <3> QED BY <1>7, <1>9, <1>14, <1>18, <3>1
  <2>2. CASE r # n
    <3>1. node'[n] = hn
      BY <1>11, <1>16, <2>2
    <3> QED BY <1>7, <1>9, <1>18, <3>1
  <2> QED BY <2>1, <2>2
<1>20. /\ node'[r].size = node[n].size \div 2 /\ node'[r].next = node[n].next
       /\ node'[r].status = node[r].status /\ node'[r].childSize = node[r].childSize
       /\ r # n => node'[r].left = node[r].left /\ node'[r].right = node[r].right
  <2>1. CASE r = n
    <3>1. m[r] = hn
      BY <1>11, <2>1
    <3> QED BY <1>7, <1>9, <1>14, <1>16, <2>1, <3>1
  <2>2. CASE r # n
    <3>1. m[r] = node[r]
      BY <1>5, <1>11, <2>2
    <3> QED BY <1>7, <1>14, <1>16, <3>1
  <2> QED BY <2>1, <2>2
<1>21. node' \in [Nodes -> Header]
  BY <1>16
<1>22. pc = "search" /\ size \in Powers /\ size < node[n].size /\ currentNode' = n
  BY <1>2, <1>3
<1>23. r \in Nodes
  BY <1>5
<1> USE <1>23
<1> WITNESS n \in Nodes, r \in Nodes
<1> QED BY <1>0, <1>5, <1>17, <1>18, <1>19, <1>20, <1>21, <1>22

LEMMA SplitShape ==
  ASSUME SInv, Split, Watch
  PROVE  SInv'
<1>1. PICK n, r \in Nodes :
           /\ n = Candidate(currentNode) /\ currentNode' = n
           /\ pc = "search" /\ size \in Powers
           /\ node[n].status = "unused" /\ size < node[n].size
           /\ IF n \in Pages THEN r = n + Half /\ r \notin Pages ELSE r = n
           /\ node' \in [Nodes -> Header]
           /\ \A q \in Nodes : q # n /\ q # r => node'[q] = node[q]
           /\ node'[n].left = n /\ node'[n].right = r /\ node'[n].next = node[n].next
           /\ node'[n].size = node[n].size \div 2 /\ node'[n].size \in Nat
           /\ node'[n].status = "unused" /\ node'[n].childSize = node[n].childSize
           /\ node'[r].size = node[n].size \div 2 /\ node'[r].next = node[n].next
           /\ node'[r].status = node[r].status /\ node'[r].childSize = node[r].childSize
           /\ r # n => node'[r].left = node[r].left /\ node'[r].right = node[r].right
  BY SplitHeaders
<1>2. UNCHANGED <<pc, freeList, size, mutex, blocks, frees>>
  BY DEF Split
<1>3. /\ pc # "buddy" /\ Typed /\ node[n].size \in Nat /\ size \in Nat /\ size > 0
      /\ node[n].next \in Nodes \cup {NULL} /\ n \in Nat
      /\ Half \in Nat /\ PAGE_SIZE \in Nat /\ PAGE_SIZE = 2 * Half
  BY <1>1, HeaderAt, PowersPositive, NodeFacts, Constants DEF SInv
<1>4. Typed'
  BY <1>1, <1>2, Watched DEF SInv, Typed, Header
<1>5. \A q \in Pages : PageOK(q) /\ InPool(q)
  BY <1>1 DEF SInv, Shape
<1>6. \A q \in Nodes \ Pages : HalfOK(q)
  BY <1>1 DEF SInv, Shape
<1>7. n \in Pages => node[n].size <= PAGE_SIZE
  BY <1>1, <1>5 DEF PageOK
<1>8. ASSUME NEW q \in Pages PROVE PageOK(q)' /\ InPool(q)'
  <2>1. CASE q = n
    <3>1. node'[n].size <= Half /\ Half <= PAGE_SIZE
      BY <1>1, <1>3, <1>7, <2>1
    <3>2. PageOK(n) /\ InPool(n) /\ r = n + Half
      BY <1>1, <1>5, <2>1
    <3>3. node[n].size # 0
      BY <1>1, <1>3
    <3>4. InPool(n)'
      BY <1>1, <1>2, <3>2, <3>3 DEF InPool, Limit
    <3>5. node'[n].size <= PAGE_SIZE /\ ~ (node'[n].size > PAGE_SIZE)
      BY <1>1, <1>3, <3>1
    <3>6. node'[n].next \in {NULL, n + PAGE_SIZE}
      BY <1>1, <1>7, <2>1, <3>2 DEF PageOK
    <3>7. node'[n].childSize \in {0, Half} /\ node'[n].childSize # 0
      BY <1>1, <3>2, <3>3 DEF PageOK
    <3>8. PageOK(n)'
      BY <1>1, <3>2, <3>5, <3>6, <3>7 DEF PageOK
    <3> QED BY <2>1, <3>4, <3>8
  <2>2. CASE q # n
    <3>1. q # r
      BY <1>1, <2>2
    <3>2. node'[q] = node[q]
      BY <1>1, <2>2, <3>1, NodeFacts
    <3> QED BY <1>2, <1>5, <3>2 DEF PageOK, InPool, Limit
  <2> QED BY <2>1, <2>2
<1>9. ASSUME NEW q \in Nodes \ Pages PROVE HalfOK(q)'
  <2>1. CASE q = r /\ n \in Pages
    <3>1. node'[r].size <= Half
      BY <1>1, <1>3, <1>7, <2>1
    <3>2. node[n].next \in {NULL, n + PAGE_SIZE} /\ r # n /\ r = n + Half
      BY <1>1, <1>5, <1>7, <2>1 DEF PageOK
    <3>3. n + PAGE_SIZE = r + Half
      BY <1>3, <3>2
    <3> QED BY <1>1, <1>6, <2>1, <3>1, <3>2, <3>3 DEF HalfOK
  <2>2. CASE q = n
    <3>1. r = n /\ HalfOK(n)
      BY <1>1, <1>6, <2>2
    <3>2. node'[n].size <= Half
      BY <1>1, <1>3, <3>1 DEF HalfOK
    <3> QED BY <1>1, <2>2, <3>1, <3>2 DEF HalfOK
  <2>3. CASE q # n /\ ~ (q = r /\ n \in Pages)
    <3>1. q # r
      BY <1>1, <2>3
    <3>2. node'[q] = node[q]
      BY <1>1, <2>3, <3>1
    <3> QED BY <1>6, <3>2 DEF HalfOK
  <2> QED BY <2>1, <2>2, <2>3
<1>10. AtPage'
  <2> SUFFICES ASSUME n \notin Pages, size > PAGE_SIZE PROVE FALSE
    BY <1>1, <1>2 DEF AtPage
  <2>1. node[n].size <= Half
    BY <1>6 DEF HalfOK
  <2> QED BY <1>1, <1>3, <2>1
<1>11. Shape'
  BY <1>8, <1>9, <1>10 DEF Shape
<1>12. Sizes' /\ Locked'
  BY <1>1, <1>2 DEF SInv, Sizes, Locked, Held
<1> QED BY <1>4, <1>11, <1>12 DEF SInv

LEMMA GrowShape ==
  ASSUME SInv, NEW i \in DOMAIN blocks, NEW request \in Requests, Grow(i, request), Watch
  PROVE  SInv'
<1>1. /\ pc = "idle" /\ pc' = "grow" /\ mutex' = 1
      /\ UNCHANGED <<freeList, node, currentNode, size, blocks, frees>>
  BY DEF Grow, Resizes
<1>2. Typed'
  BY <1>1, Watched DEF SInv, Typed
<1>3. AtPage' /\ Locked' /\ Sizes'
  BY <1>1 DEF SInv, AtPage, Locked, Sizes, Held
<1>4. Shape'
  BY <1>1, <1>3, SameHeaders
<1> QED BY <1>2, <1>3, <1>4 DEF SInv

(* What remains held when a block is given back.                           *)
LEMMA HeldLess ==
  ASSUME Typed, NEW i \in DOMAIN blocks, blocks[i].held,
         blocks' = [blocks EXCEPT ![i].held = FALSE]
  PROVE  /\ \A c \in Held' : c \in Held
         /\ blocks[i] \in Held
         /\ blocks' \in Seq([at : Nodes \cup {NULL}, size : Nat, held : BOOLEAN])
         /\ Len(blocks') = Len(blocks) /\ DOMAIN blocks' = DOMAIN blocks
         /\ ~ blocks'[i].held
         /\ \A j \in DOMAIN blocks : j # i => blocks'[j] = blocks[j]
<1> DEFINE S == [at : Nodes \cup {NULL}, size : Nat, held : BOOLEAN]
<1>1. blocks \in Seq(S) /\ blocks[i] \in S
  <2>1. blocks \in Seq(S)
    BY DEF Typed
  <2> HIDE DEF S
  <2> QED BY <2>1
<1>2. [blocks[i] EXCEPT !.held = FALSE] \in S /\ ~ [blocks[i] EXCEPT !.held = FALSE].held
  BY <1>1
<1> HIDE DEF S
<1>3. blocks' = [blocks EXCEPT ![i] = [blocks[i] EXCEPT !.held = FALSE]]
  BY <1>1
<1>4. /\ blocks' \in Seq(S) /\ Len(blocks') = Len(blocks)
      /\ DOMAIN blocks' = DOMAIN blocks
      /\ blocks'[i] = [blocks[i] EXCEPT !.held = FALSE]
      /\ \A j \in DOMAIN blocks : j # i => blocks'[j] = blocks[j]
  BY <1>1, <1>2, <1>3
<1>5. \A c \in Held' : c \in Held
  BY <1>2, <1>4 DEF Held
<1>6. blocks[i] \in Held
  BY DEF Held
<1> QED BY <1>2, <1>4, <1>5, <1>6 DEF S

(* The sizes that GrowInPlace leaves are of their type, no more.           *)
LEMMA GrowInPlaceShape ==
  ASSUME SInv, NEW i \in DOMAIN blocks, NEW request \in Requests,
         GrowInPlace(i, request), Watch
  PROVE  SInv' /\ pc' = "buddy"
<1>0. PICK n : n = blocks[i].at
  OBVIOUS
<1>1. /\ pc = "idle" /\ pc' = "buddy" /\ blocks[i].held
      /\ UNCHANGED <<freeList, currentNode, size, mutex, blocks, frees>>
  BY DEF GrowInPlace, Resizes
<1>2. PICK m : m = [node EXCEPT ![n].size = 2 * @]
  OBVIOUS
<1>3. PICK b : b = buddyNode(n)
  OBVIOUS
<1>4. node' = IF b \in Nodes THEN [m EXCEPT ![b].status = "allocated"] ELSE m
  BY <1>0, <1>2, <1>3 DEF GrowInPlace
<1>5. n \in Nodes
  BY <1>0, <1>1 DEF SInv, Sizes, Held
<1>6. node \in [Nodes -> Header] /\ node[n] \in Header /\ node[n].size \in Nat
  BY <1>5, HeaderAt DEF SInv
<1>7. [node[n] EXCEPT !.size = 2 * @] \in Header
  BY <1>6 DEF Header
<1>8. m = [node EXCEPT ![n] = [node[n] EXCEPT !.size = 2 * @]]
  BY <1>2, <1>5, <1>6
<1>9. m \in [Nodes -> Header]
  BY <1>6, <1>7, <1>8
<1>10. ASSUME b \in Nodes PROVE [m EXCEPT ![b].status = "allocated"] \in [Nodes -> Header]
  <2>1. m[b] \in Header
    BY <1>9, <1>10
  <2>2. [m[b] EXCEPT !.status = "allocated"] \in Header
    BY <2>1 DEF Header
  <2> QED BY <1>9, <1>10, <2>2
<1>11. node' \in [Nodes -> Header]
  BY <1>4, <1>9, <1>10
<1>12. Typed'
  BY <1>1, <1>11, Watched DEF SInv, Typed, Header
<1>13. Shape' /\ Sizes' /\ Locked'
  BY <1>1 DEF SInv, Shape, Locked, Sizes, Held
<1> QED BY <1>1, <1>12, <1>13 DEF SInv

(* No more do those that freex leaves where it uses a buddy.               *)
LEMMA FreexBuddyShape ==
  ASSUME SInv, NEW i \in DOMAIN blocks, freexBuddy(i), Watch
  PROVE  SInv' /\ pc' = "buddy"
<1>0. PICK n, b : n = blocks[i].at /\ b = buddyNode(n)
  OBVIOUS
<1>1. /\ pc = "idle" /\ pc' = "buddy" /\ blocks[i].held /\ frees < FREES
      /\ frees' = frees + 1 /\ blocks' = [blocks EXCEPT ![i].held = FALSE]
      /\ UNCHANGED <<freeList, currentNode, size, mutex>>
  BY DEF freexBuddy, Frees
<1>2. PICK s : s = IF IsHeader(b) THEN node[b].size ELSE 0
  OBVIOUS
<1>3. node' = [q \in Nodes |->
                 IF q = n THEN [node[n] EXCEPT !.status = "unused", !.size = s]
                 ELSE IF q = b THEN [node[b] EXCEPT !.status = "unused",
                                       !.next = node[n].next]
                 ELSE node[q]]
  BY <1>0, <1>2 DEF freexBuddy
<1>4. n \in Nodes
  BY <1>0, <1>1 DEF SInv, Sizes, Held
<1>5. node[n] \in Header /\ \A q \in Nodes : node[q] \in Header
  BY <1>4, HeaderAt DEF SInv
<1>6. s \in Nat
  <2>1. CASE IsHeader(b)
    BY <1>2, <1>5, <2>1 DEF IsHeader, Header
  <2> QED BY <1>2, <2>1
<1>7. [node[n] EXCEPT !.status = "unused", !.size = s] \in Header
  BY <1>5, <1>6 DEF Header
<1>8. ASSUME b \in Nodes
      PROVE  [node[b] EXCEPT !.status = "unused", !.next = node[n].next] \in Header
  <2>1. node[b] \in Header /\ node[n].next \in Nodes \cup {NULL}
    BY <1>5, <1>8 DEF Header
  <2> QED BY <2>1 DEF Header
<1>9. node' \in [Nodes -> Header]
  BY <1>3, <1>5, <1>7, <1>8
<1>10. /\ \A c \in Held' : c \in Held
       /\ blocks' \in Seq([at : Nodes \cup {NULL}, size : Nat, held : BOOLEAN])
  BY <1>1, HeldLess DEF SInv
<1>11. frees' \in 0 .. FREES
  BY <1>1, HeapAssumption DEF SInv, Typed, HeapAssumption
<1>12. Typed'
  BY <1>1, <1>9, <1>10, <1>11, Watched DEF SInv, Typed, Header
<1>13. Shape' /\ Sizes' /\ Locked'
  BY <1>1, <1>10 DEF SInv, Shape, Locked, Sizes
<1> QED BY <1>1, <1>12, <1>13 DEF SInv

(* The headers that freex writes: that of the block given back and, if the *)
(* block is a page or more, those that lie in it.                          *)
LEMMA RelinkedHeaders ==
  ASSUME SInv, pc # "buddy", NEW n \in Nodes, NEW data \in Remains,
         node' = Relinked(n, data), NEW q \in Nodes
  PROVE  /\ q < n \/ q >= n + node[n].size => node'[q] = node[q]
         /\ q = n /\ node[n].size > 0 =>
              /\ node'[q].status = "unused"
              /\ node'[q].left = node[q].left /\ node'[q].right = node[q].right
              /\ node'[q].childSize = node[q].childSize
              /\ IF node[n].size > PAGE_SIZE
                   THEN node'[q].size = PAGE_SIZE /\ node'[q].next = q + PAGE_SIZE
                   ELSE node'[q].size = node[q].size /\ node'[q].next = node[q].next
         /\ n < q /\ q < n + node[n].size /\ q \in Pages =>
              /\ n \in Pages /\ node[n].size > PAGE_SIZE
              /\ node'[q].status = "unused" /\ node'[q].childSize = Half
              /\ node'[q].size = PAGE_SIZE /\ node'[q].next = q + PAGE_SIZE
              /\ node'[q].left \in {NULL, WILD} /\ node'[q].right \in {NULL, WILD}
         /\ n < q /\ q < n + node[n].size /\ q \notin Pages =>
              /\ n \in Pages
              /\ node'[q].status \in {"unused", "allocated"}
              /\ node'[q].size = node[q].size /\ node'[q].next = node[q].next
              /\ node'[q].left \in {NULL, WILD} /\ node'[q].right \in {NULL, WILD}
              /\ node'[q].childSize \in {0, WILD}
<1>0. /\ node \in [Nodes -> Header] /\ node[n] \in Header /\ node[q] \in Header
      /\ n \in Nat /\ q \in Nat /\ node[n].size \in Nat
      /\ PAGE_SIZE \in Nat /\ Half \in Nat /\ PAGE_SIZE = 2 * Half /\ Half > 0
  BY HeaderAt, NodeFacts, Constants DEF SInv
<1>1. PICK s \in Nat : s = node[n].size
  BY <1>0
<1>2. /\ data.status \in {"unused", "allocated"} /\ data.left \in {NULL, WILD}
      /\ data.right \in {NULL, WILD} /\ data.childSize \in {0, WILD}
  BY DEF Remains
<1>3. n \notin Pages /\ n < q => q >= n + s
  <2> SUFFICES ASSUME n \notin Pages, n < q PROVE q >= n + s
    OBVIOUS
  <2>1. s <= Half
    BY <1>0, <1>1 DEF SInv, Shape, HalfOK
  <2>2. PICK p \in Pages : p = n - Half
    BY NodeFacts
  <2>3. PageOf(q) \in Pages /\ p \in Nat /\ PageOf(q) \in Nat
    BY NodeFacts, PageFacts
  <2>4. p < PageOf(q)
    <3>1. q <= PageOf(q) + Half
      BY NodeFacts
    <3>2. n = p + Half
      BY <1>0, <2>2, <2>3
    <3> QED BY <1>0, <2>3, <3>1, <3>2
  <2>5. p + PAGE_SIZE <= PageOf(q) /\ PageOf(q) <= q
    BY <2>3, <2>4, PageFacts, NodeFacts
  <2> QED BY <1>0, <2>1, <2>2, <2>3, <2>5
<1>4. n \in Pages /\ n < q /\ q < n + s /\ q \in Pages => s > PAGE_SIZE
  <2> SUFFICES ASSUME n \in Pages, n < q, q < n + s, q \in Pages PROVE s > PAGE_SIZE
    OBVIOUS
  <2>1. n + PAGE_SIZE <= q
    BY PageFacts
  <2> QED BY <1>0, <2>1
<1>5. q < n \/ q >= n + s => node'[q] = node[q]
  BY <1>1 DEF Relinked
<1>6. ASSUME q = n, s > 0
      PROVE  /\ node'[q].status = "unused"
             /\ node'[q].left = node[q].left /\ node'[q].right = node[q].right
             /\ node'[q].childSize = node[q].childSize
             /\ IF s > PAGE_SIZE
                  THEN node'[q].size = PAGE_SIZE /\ node'[q].next = q + PAGE_SIZE
                  ELSE node'[q].size = node[q].size /\ node'[q].next = node[q].next
  <2>1. ~ (q < n \/ q >= n + s)
    BY <1>0, <1>6
  <2>2. CASE s > PAGE_SIZE
    <3>1. PICK h : h = [node[q] EXCEPT !.next = q + PAGE_SIZE]
      OBVIOUS
    <3>2. node'[q] = [h EXCEPT !.status = "unused", !.size = PAGE_SIZE]
      BY <1>1, <1>6, <2>1, <2>2, <3>1 DEF Relinked
    <3>3. h = [node[q] EXCEPT !.next = q + PAGE_SIZE]
      BY <3>1
    <3> QED BY <1>0, <2>2, <3>2, <3>3 DEF Header
  <2>3. CASE ~ (s > PAGE_SIZE)
    <3>1. node'[q] = [node[q] EXCEPT !.status = "unused", !.size = node[q].size]
      BY <1>0, <1>1, <1>6, <2>1, <2>3 DEF Relinked
    <3> QED BY <1>0, <2>3, <3>1 DEF Header
  <2> QED BY <2>2, <2>3
<1>7. PICK u : u = [node[q] EXCEPT !.status = data.status, !.left = data.left,
                                   !.right = data.right, !.childSize = data.childSize]
  OBVIOUS
<1>8. /\ u.status = data.status /\ u.left = data.left /\ u.right = data.right
      /\ u.childSize = data.childSize /\ u.size = node[q].size /\ u.next = node[q].next
      /\ DOMAIN u = DOMAIN node[q]
  BY <1>0, <1>7 DEF Header
<1>9. ASSUME n < q, q < n + s, q \in Pages
      PROVE  /\ n \in Pages /\ s > PAGE_SIZE
             /\ node'[q].status = "unused" /\ node'[q].childSize = Half
             /\ node'[q].size = PAGE_SIZE /\ node'[q].next = q + PAGE_SIZE
             /\ node'[q].left \in {NULL, WILD} /\ node'[q].right \in {NULL, WILD}
  <2>1. n \in Pages /\ s > PAGE_SIZE /\ ~ (q < n \/ q >= n + s) /\ q # n
    BY <1>0, <1>3, <1>4, <1>9
  <2>2. PICK v : v = [u EXCEPT !.status = "unused", !.size = PAGE_SIZE]
    OBVIOUS
  <2>3. PICK w : w = [v EXCEPT !.next = q + PAGE_SIZE]
    OBVIOUS
  <2>4. node'[q] = [w EXCEPT !.childSize = Half]
    BY <1>1, <1>7, <1>9, <2>1, <2>2, <2>3 DEF Relinked
  <2>5. DOMAIN u = {"next", "left", "right", "status", "size", "childSize"}
    BY <1>0, <1>8 DEF Header
  <2>6. /\ v.status = "unused" /\ v.size = PAGE_SIZE /\ v.left = u.left /\ v.right = u.right
        /\ DOMAIN v = DOMAIN u
    BY <2>2, <2>5
  <2>7. /\ w.status = "unused" /\ w.size = PAGE_SIZE /\ w.left = u.left /\ w.right = u.right
        /\ w.next = q + PAGE_SIZE /\ DOMAIN w = DOMAIN u
    BY <2>3, <2>5, <2>6
  <2>8. /\ node'[q].status = "unused" /\ node'[q].childSize = Half
        /\ node'[q].size = PAGE_SIZE /\ node'[q].next = q + PAGE_SIZE
        /\ node'[q].left = u.left /\ node'[q].right = u.right
    BY <2>4, <2>5, <2>7
  <2> QED BY <1>2, <1>8, <2>1, <2>8
<1>10. ASSUME n < q, q < n + s, q \notin Pages
       PROVE  n \in Pages /\ node'[q] = u
  <2>1. n \in Pages /\ ~ (q < n \/ q >= n + s) /\ q # n
    BY <1>0, <1>3, <1>10
  <2>2. node'[q] = u
    BY <1>1, <1>7, <1>10, <2>1 DEF Relinked
  <2> QED BY <2>1, <2>2
<1> QED BY <1>1, <1>2, <1>5, <1>6, <1>8, <1>9, <1>10

(* A call of freex leaves room for the pages it links.                     *)
LEMMA LimitGrows ==
  ASSUME SInv, pc # "buddy", frees < FREES, frees' = frees + 1,
         NEW n \in Pages, node[n].size > PAGE_SIZE
  PROVE  /\ Limit <= Limit'
         /\ n + node[n].size <= Limit' /\ n + node[n].size <= MaxPage
         /\ Limit' \in Nat
<1> DEFINE m == MAXIMUM_COALESCE_BLOCKS
<1>0. m \in Nat /\ frees \in Nat /\ Typed
  BY HeapAssumption DEF HeapAssumption, SInv, Typed
<1>1. Limit' = Limit + m * PAGE_SIZE
  <2>1. (frees + 1) * m = frees * m + m /\ frees * m \in Int
    BY <1>0
  <2>2. (frees * m + m) * PAGE_SIZE = (frees * m) * PAGE_SIZE + m * PAGE_SIZE
    BY <1>0, <2>1, Multiples
  <2>3. (frees * m) * PAGE_SIZE \in Int /\ m * PAGE_SIZE \in Int /\ LastPage \in Nat
    BY <1>0, <2>1, Multiples, LimitType
  <2>4. Limit' = LastPage + ((frees + 1) * m) * PAGE_SIZE
    BY DEF Limit
  <2>5. Limit' = LastPage + ((frees * m) * PAGE_SIZE + m * PAGE_SIZE)
    BY <2>1, <2>2, <2>4
  <2> QED BY <2>3, <2>5 DEF Limit
<1>2. /\ Limit \in Nat /\ Limit + m * PAGE_SIZE <= MaxPage
      /\ n \in Nat /\ MaxPage \in Nat
  BY <1>0, LimitType, PageFacts
<1>3. PICK k \in 2 .. m : node[n].size = PAGE_SIZE * k
  BY DEF SInv, Shape, PageOK
<1>4. k * PAGE_SIZE <= m * PAGE_SIZE /\ m * PAGE_SIZE \in Int /\ k * PAGE_SIZE \in Int
  <2>1. k \in Int /\ m \in Int /\ k <= m
    BY <1>0
  <2> HIDE DEF m
  <2> QED BY ONLY <2>1, Multiples
<1>5. 0 * PAGE_SIZE <= m * PAGE_SIZE /\ 0 * PAGE_SIZE = 0
  BY <1>0, Multiples, Constants
<1>6. PAGE_SIZE * k = k * PAGE_SIZE
  BY Constants
<1>7. n + PAGE_SIZE <= Limit
  <2>1. node[n].size # 0
    BY HeaderAt, PageFacts, Constants DEF SInv
  <2> QED BY <2>1 DEF SInv, Shape, InPool
<1> HIDE DEF m
<1>8. n <= Limit
  BY <1>2, <1>7, Constants
<1> QED BY <1>1, <1>2, <1>3, <1>4, <1>5, <1>6, <1>8

LEMMA LimitKept ==
  ASSUME SInv, frees < FREES, frees' = frees + 1
  PROVE  Limit \in Nat /\ Limit' \in Nat /\ Limit <= Limit'
<1>1. MAXIMUM_COALESCE_BLOCKS \in Nat /\ frees \in Nat
  BY HeapAssumption DEF HeapAssumption, SInv, Typed
<1>2. PICK a, b \in Nat : a = frees * MAXIMUM_COALESCE_BLOCKS
                       /\ b = (frees + 1) * MAXIMUM_COALESCE_BLOCKS /\ a <= b
  <2>1. (frees + 1) * MAXIMUM_COALESCE_BLOCKS
          = frees * MAXIMUM_COALESCE_BLOCKS + MAXIMUM_COALESCE_BLOCKS
    BY <1>1
  <2>2. frees * MAXIMUM_COALESCE_BLOCKS \in Nat
    BY <1>1
  <2> QED BY <1>1, <2>1, <2>2
<1>3. Limit = LastPage + a * PAGE_SIZE /\ Limit' = LastPage + b * PAGE_SIZE
  BY <1>2 DEF Limit
<1>4. a * PAGE_SIZE <= b * PAGE_SIZE /\ b * PAGE_SIZE \in Int /\ a * PAGE_SIZE \in Int
  <2>1. a \in Int /\ b \in Int /\ a <= b
    BY <1>2
  <2> QED BY ONLY <2>1, Multiples
<1>5. LastPage \in Nat /\ Limit \in Nat
  BY LimitType DEF SInv
<1> QED BY <1>3, <1>4, <1>5

Record == [next : Int, left : Int, right : Int, status : {"unused", "allocated"},
           size : Int, childSize : Int]

LEMMA HeaderIsRecord == Header \subseteq Record
<1>1. Nodes \subseteq Int /\ NULL \in Int /\ WILD \in Int /\ Half \in Int /\ Nat \subseteq Int
  BY NodeFacts, Constants
<1>2. /\ Nodes \cup {NULL} \subseteq Int /\ Nodes \cup {NULL, WILD} \subseteq Int
      /\ {0, Half, WILD} \subseteq Int
  BY <1>1
<1> QED BY ONLY <1>1, <1>2 DEF Header, Record

LEMMA RecordExcept ==
  ASSUME NEW h \in Record, NEW s \in Int
  PROVE  /\ [h EXCEPT !.status = "unused", !.size = s] \in Record
         /\ [h EXCEPT !.childSize = s] \in Record
         /\ [h EXCEPT !.next = s] \in Record
BY DEF Record

LEMMA RecordOverwritten ==
  ASSUME NEW h \in Record, NEW x \in Record
  PROVE  [h EXCEPT !.status = x.status, !.left = x.left, !.right = x.right,
                   !.childSize = x.childSize] \in Record
BY DEF Record

LEMMA RelinkedRecord ==
  ASSUME SInv, pc # "buddy", NEW n \in Nodes, NEW data \in Remains,
         node' = Relinked(n, data)
  PROVE  node' \in [Nodes -> Record]
<1>0. /\ node \in [Nodes -> Header] /\ node[n].size \in Nat
      /\ n \in Nat /\ PAGE_SIZE \in Nat /\ Half \in Nat /\ Nodes \subseteq Nat
  BY HeaderAt, NodeFacts, Constants DEF SInv
<1>1. /\ data.status \in {"unused", "allocated"} /\ data.left \in {NULL, WILD}
      /\ data.right \in {NULL, WILD} /\ data.childSize \in {0, WILD}
      /\ NULL \in Int /\ WILD \in Int
  BY DEF Remains, NULL, WILD
<1>i. PAGE_SIZE \in Int /\ Half \in Int
  BY <1>0
<1>2. ASSUME NEW q \in Nodes PROVE node'[q] \in Record
  <2>0. node[q] \in Header /\ q \in Nat
    BY <1>0
  <2>1. node[q] \in Record
    BY <2>0, HeaderIsRecord
  <2>2. CASE q < n \/ q >= n + node[n].size
    BY <2>1, <2>2 DEF Relinked
  <2>3. CASE ~ (q < n \/ q >= n + node[n].size) /\ q = n
    <3>1. CASE node[n].size > PAGE_SIZE
      <4>1. PICK h : h = [node[q] EXCEPT !.next = q + PAGE_SIZE]
        OBVIOUS
      <4>2. node'[q] = [h EXCEPT !.status = "unused", !.size = PAGE_SIZE]
        BY <2>3, <3>1, <4>1 DEF Relinked
      <4>3. h \in Record
        <5>1. q + PAGE_SIZE \in Int
          BY <1>0, <2>0
        <5> QED BY <2>1, <4>1, <5>1, RecordExcept
      <4> QED BY <1>i, <4>2, <4>3, RecordExcept
    <3>2. CASE ~ (node[n].size > PAGE_SIZE)
      <4>1. node'[q] = [node[q] EXCEPT !.status = "unused", !.size = @]
        BY <2>3, <3>2 DEF Relinked
      <4> QED BY <1>0, <2>1, <4>1 DEF Record
    <3> QED BY <3>1, <3>2
  <2>4. CASE ~ (q < n \/ q >= n + node[n].size) /\ q # n
    <3>1. PICK u : u = [node[q] EXCEPT !.status = data.status, !.left = data.left,
                                  !.right = data.right, !.childSize = data.childSize]
      OBVIOUS
    <3>2. u \in Record
      <4>1. PICK x : x = [next |-> 0, left |-> data.left, right |-> data.right,
                          status |-> data.status, size |-> 0, childSize |-> data.childSize]
        OBVIOUS
      <4>2. /\ x \in Record /\ x.left = data.left /\ x.right = data.right
            /\ x.status = data.status /\ x.childSize = data.childSize
        BY <1>1, <4>1 DEF Record
      <4> QED BY <2>1, <3>1, <4>2, RecordOverwritten
    <3>3. CASE q \notin Pages
      <4>1. node'[q] = u
        BY <2>4, <3>1, <3>3 DEF Relinked
      <4> QED BY <3>2, <4>1
    <3>4. CASE q \in Pages
      <4>1. PICK v : v = [u EXCEPT !.status = "unused", !.size = PAGE_SIZE]
        OBVIOUS
      <4>2. v \in Record
        BY <1>i, <3>2, <4>1, RecordExcept
      <4>3. PICK w : w = IF node[n].size > PAGE_SIZE
                           THEN [v EXCEPT !.next = q + PAGE_SIZE] ELSE v
        OBVIOUS
      <4>4. w \in Record
        <5>1. q + PAGE_SIZE \in Int
          BY <1>0, <2>0
        <5> QED BY <4>2, <4>3, <5>1, RecordExcept
      <4>5. node'[q] = [w EXCEPT !.childSize = Half]
        BY <2>4, <3>1, <3>4, <4>1, <4>3 DEF Relinked
      <4> QED BY <1>i, <4>4, <4>5, RecordExcept
    <3> QED BY <3>3, <3>4
  <2> QED BY <2>2, <2>3, <2>4
<1>3. node' = [q \in Nodes |-> node'[q]]
  BY DEF Relinked
<1> QED BY <1>2, <1>3

LEMMA FreexShape ==
  ASSUME SInv, NEW i \in DOMAIN blocks, freex(i), Watch
  PROVE  SInv'
<1>0. PICK n : n = blocks[i].at
  OBVIOUS
<1>1. PICK data \in Remains : node' = Relinked(n, data)
  BY <1>0 DEF freex
<1>2. /\ pc = "idle" /\ frees < FREES /\ blocks[i].held /\ frees' = frees + 1
      /\ blocks' = [blocks EXCEPT ![i].held = FALSE]
      /\ UNCHANGED <<pc, freeList, currentNode, size, mutex>>
  BY DEF freex, Frees
<1>3. Typed /\ pc # "buddy"
  BY <1>2 DEF SInv
<1>4. /\ \A c \in Held' : c \in Held
      /\ blocks[i] \in Held
      /\ blocks' \in Seq([at : Nodes \cup {NULL}, size : Nat, held : BOOLEAN])
  BY <1>2, <1>3, HeldLess
<1>5. n \in Nodes /\ n \in Nat /\ node[n].size \in Nat
  BY <1>0, <1>3, <1>4, HeldAt, NodeFacts, HeaderAt
<1>6. /\ PAGE_SIZE \in Nat /\ Half \in Nat /\ PAGE_SIZE = 2 * Half /\ Half > 0
      /\ NULL < 0 /\ WILD < 0
  BY Constants
<1>7. \A q \in Pages : PageOK(q) /\ InPool(q)
  BY <1>2 DEF SInv, Shape
<1>8. \A q \in Nodes \ Pages : HalfOK(q)
  BY <1>2 DEF SInv, Shape
<1>9. Limit \in Nat /\ Limit' \in Nat /\ Limit <= Limit'
  BY <1>2, LimitKept
<1>10. ASSUME NEW q \in Pages
       PROVE  /\ PageOK(q)' /\ InPool(q)'
              /\ node'[q].next \in Nodes \cup {NULL} /\ node'[q].size \in Nat
              /\ node'[q].left \in Nodes \cup {NULL, WILD}
              /\ node'[q].right \in Nodes \cup {NULL, WILD}
              /\ node'[q].childSize \in {0, Half, WILD}
  <2>0. q \in Nodes /\ q \in Nat /\ node[q] \in Header /\ node[q].size \in Nat
        /\ (q + PAGE_SIZE <= Limit => q + PAGE_SIZE <= Limit' /\ q + PAGE_SIZE \in Nodes)
        /\ node[q].next \in Nodes \cup {NULL}
        /\ node[q].left \in Nodes \cup {NULL, WILD}
        /\ node[q].right \in Nodes \cup {NULL, WILD}
        /\ node[q].childSize \in {0, Half, WILD}
    <3>1. /\ q \in Nodes /\ q \in Nat /\ Limit <= MaxPage /\ MaxPage \in Nat
          /\ q + PAGE_SIZE <= MaxPage => q + PAGE_SIZE \in Nodes
      BY <1>3, NodeFacts, PageFacts, LimitType
    <3>2. q + PAGE_SIZE <= Limit => q + PAGE_SIZE <= Limit' /\ q + PAGE_SIZE <= MaxPage
      BY <1>6, <1>9, <3>1
    <3> QED BY <1>3, <3>1, <3>2, HeaderAt
  <2>1. CASE q < n \/ q >= n + node[n].size
    <3>1. node'[q] = node[q]
      BY <1>1, <1>3, <1>5, <2>0, <2>1, RelinkedHeaders
    <3>2. PageOK(q)' /\ InPool(q)'
      BY <1>7, <2>0, <3>1 DEF PageOK, InPool
    <3> QED BY <2>0, <3>1, <3>2
  <2>2. CASE q = n /\ node[n].size > 0
    <3>1. /\ node'[q].status = "unused"
          /\ node'[q].left = node[q].left /\ node'[q].right = node[q].right
          /\ node'[q].childSize = node[q].childSize
          /\ IF node[n].size > PAGE_SIZE
               THEN node'[q].size = PAGE_SIZE /\ node'[q].next = q + PAGE_SIZE
               ELSE node'[q].size = node[q].size /\ node'[q].next = node[q].next
      BY <1>1, <1>3, <1>5, <2>0, <2>2, RelinkedHeaders
    <3>2. node[q].size # 0 /\ q + PAGE_SIZE <= Limit' /\ q + PAGE_SIZE \in Nodes
      BY <1>7, <2>0, <2>2 DEF InPool
    <3>3. node'[q].size \in Nat /\ node'[q].size # 0 /\ node'[q].size <= PAGE_SIZE
      BY <1>6, <2>0, <2>2, <3>1
    <3>4. node'[q].next \in {NULL, q + PAGE_SIZE}
      <4>1. CASE node[n].size > PAGE_SIZE
        BY <3>1, <4>1
      <4>2. CASE ~ (node[n].size > PAGE_SIZE)
        <5>1. node[q].size <= PAGE_SIZE
          BY <1>6, <2>0, <2>2, <4>2
        <5> QED BY <1>7, <3>1, <4>2, <5>1 DEF PageOK
      <4> QED BY <4>1, <4>2
    <3>5. node'[q].childSize \in {0, Half} /\ node'[q].childSize # 0
      BY <1>7, <3>1, <3>2 DEF PageOK
    <3>6. node'[q].left \in {NULL, WILD, q} /\ (node'[q].left = q => node'[q].right = q + Half)
      BY <1>7, <3>1 DEF PageOK
    <3>7. PageOK(q)' /\ InPool(q)'
      <4>1. ~ (node'[q].size > PAGE_SIZE)
        BY <1>6, <3>3
      <4>2. PageOK(q)'
        BY <3>3, <3>4, <3>5, <3>6, <4>1 DEF PageOK
      <4>3. InPool(q)'
        BY <3>2 DEF InPool
      <4> QED BY <4>2, <4>3
    <3>8. node'[q].next \in Nodes \cup {NULL}
      BY <2>0, <3>1, <3>2
    <3> QED BY <2>0, <3>1, <3>3, <3>7, <3>8
  <2>3. CASE n < q /\ q < n + node[n].size
    <3>1. /\ n \in Pages /\ node[n].size > PAGE_SIZE
          /\ node'[q].status = "unused" /\ node'[q].childSize = Half
          /\ node'[q].size = PAGE_SIZE /\ node'[q].next = q + PAGE_SIZE
          /\ node'[q].left \in {NULL, WILD} /\ node'[q].right \in {NULL, WILD}
      BY <1>1, <1>3, <1>5, <2>0, <2>3, RelinkedHeaders
    <3>2. n + node[n].size <= Limit' /\ n + node[n].size <= MaxPage
      BY <1>2, <1>3, <3>1, LimitGrows
    <3>3. PICK k \in 2 .. MAXIMUM_COALESCE_BLOCKS : node[n].size = PAGE_SIZE * k
      BY <1>7, <3>1 DEF PageOK
    <3>4. q + PAGE_SIZE <= n + PAGE_SIZE * k
      BY <2>3, <3>1, <3>3, PageFacts
    <3>5. q + PAGE_SIZE <= Limit' /\ q + PAGE_SIZE <= MaxPage
      BY <1>5, <1>6, <1>9, <2>0, <3>2, <3>3, <3>4, PageFacts
    <3>6. PageOK(q)' /\ InPool(q)'
      <4>1. ~ (PAGE_SIZE > PAGE_SIZE) /\ PAGE_SIZE <= PAGE_SIZE /\ Half # 0 /\ q # NULL /\ q # WILD
        BY <1>6, <2>0
      <4>2. InPool(q)'
        BY <3>5 DEF InPool
      <4>3. PageOK(q)'
        BY <3>1, <4>1 DEF PageOK
      <4> QED BY <4>2, <4>3
    <3>7. q + PAGE_SIZE \in Nodes
      BY <3>5, PageFacts, NodeFacts
    <3> QED BY <1>6, <3>1, <3>6, <3>7
  <2> QED BY <1>5, <2>0, <2>1, <2>2, <2>3
<1>11. ASSUME NEW q \in Nodes \ Pages
       PROVE  /\ HalfOK(q)'
              /\ node'[q].next \in Nodes \cup {NULL} /\ node'[q].size \in Nat
              /\ node'[q].left \in Nodes \cup {NULL, WILD}
              /\ node'[q].right \in Nodes \cup {NULL, WILD}
              /\ node'[q].childSize \in {0, Half, WILD}
  <2>0. /\ q \in Nat /\ node[q].size \in Nat /\ q # NULL /\ q # WILD
        /\ node[q].next \in Nodes \cup {NULL}
        /\ node[q].left \in Nodes \cup {NULL, WILD}
        /\ node[q].right \in Nodes \cup {NULL, WILD}
        /\ node[q].childSize \in {0, Half, WILD}
    BY <1>3, <1>6, NodeFacts, HeaderAt
  <2>1. CASE q < n \/ q >= n + node[n].size
    <3>1. node'[q] = node[q]
      BY <1>1, <1>3, <1>5, <2>0, <2>1, RelinkedHeaders
    <3> QED BY <1>8, <2>0, <3>1 DEF HalfOK
  <2>2. CASE q = n /\ node[n].size > 0
    <3>1. /\ node'[q].left = node[q].left /\ node'[q].right = node[q].right
          /\ node'[q].childSize = node[q].childSize
          /\ IF node[n].size > PAGE_SIZE
               THEN node'[q].size = PAGE_SIZE /\ node'[q].next = q + PAGE_SIZE
               ELSE node'[q].size = node[q].size /\ node'[q].next = node[q].next
      BY <1>1, <1>3, <1>5, <2>0, <2>2, RelinkedHeaders
    <3>2. ~ (node[n].size > PAGE_SIZE)
      BY <1>6, <1>8, <2>0, <2>2 DEF HalfOK
    <3> QED BY <1>8, <2>0, <3>1, <3>2 DEF HalfOK
  <2>3. CASE n < q /\ q < n + node[n].size
    <3>1. /\ node'[q].size = node[q].size /\ node'[q].next = node[q].next
          /\ node'[q].left \in {NULL, WILD} /\ node'[q].right \in {NULL, WILD}
          /\ node'[q].childSize \in {0, WILD}
      BY <1>1, <1>3, <1>5, <2>0, <2>3, RelinkedHeaders
    <3> QED BY <1>8, <2>0, <3>1 DEF HalfOK
  <2> QED BY <1>5, <2>0, <2>1, <2>2, <2>3
<1>12. node' \in [Nodes -> Header]
  <2>1. node' \in [Nodes -> Record]
    BY <1>1, <1>3, <1>5, RelinkedRecord
  <2>2. ASSUME NEW q \in Nodes PROVE node'[q] \in Header
    <3>1. node'[q] \in Record
      BY <2>1
    <3>2. /\ node'[q].next \in Nodes \cup {NULL} /\ node'[q].size \in Nat
          /\ node'[q].left \in Nodes \cup {NULL, WILD}
          /\ node'[q].right \in Nodes \cup {NULL, WILD}
          /\ node'[q].childSize \in {0, Half, WILD}
      BY <1>10, <1>11
    <3> QED BY <3>1, <3>2 DEF Record, Header
  <2> QED BY <2>1, <2>2
<1>13. Typed'
  <2>1. frees' \in 0 .. FREES
    BY <1>2, <1>3, HeapAssumption DEF Typed, HeapAssumption
  <2> QED BY <1>2, <1>3, <1>4, <1>12, <2>1, Watched DEF Typed, Header
<1>14. AtPage' /\ Locked' /\ Sizes'
  BY <1>2, <1>4 DEF SInv, AtPage, Locked, Sizes
<1>15. Shape'
  BY <1>10, <1>11, <1>14 DEF Shape
<1> QED BY <1>13, <1>14, <1>15 DEF SInv

(* What the first part of the invariant says holds in every state.         *)
LEMMA SNext == SInv /\ [Next]_vars => SInv'
<1> SUFFICES ASSUME SInv, [Next]_vars PROVE SInv'
  OBVIOUS
<1>1. CASE UNCHANGED vars
  <2>1. UNCHANGED <<pc, freeList, node, currentNode, size, mutex, blocks, frees, intact>>
    BY <1>1 DEF vars
  <2> QED BY <2>1 DEF SInv, Typed, Shape, Sizes, Locked, Held, PageOK, InPool, HalfOK,
                      AtPage, Limit
<1>2. CASE Next
  <2>1. Watch /\ (mallocx \/ reallocx \/ \E i \in DOMAIN blocks : freex(i) \/ freexBuddy(i))
    BY <1>2 DEF Next
  <2>2. CASE mallocx
    <3>1. ASSUME NEW request \in Requests, Enter(request) PROVE SInv'
      BY <2>1, <3>1, EnterShape
    <3>2. CASE Refuse
      BY <2>1, <3>2, RefuseShape
    <3>3. CASE coalesceBlocks
      BY <2>1, <3>3, CoalesceShape
    <3>4. CASE Match
      BY <2>1, <3>4, MatchShape
    <3>5. CASE Advance
      BY <2>1, <3>5, AdvanceShape
    <3>6. CASE Split
      BY <2>1, <3>6, SplitShape
    <3>7. CASE Astray
      BY <2>1, <3>7, AstrayShape
    <3> QED BY <2>2, <3>1, <3>2, <3>3, <3>4, <3>5, <3>6, <3>7 DEF mallocx, Turn
  <2>3. CASE reallocx
    <3>1. ASSUME NEW i \in DOMAIN blocks, NEW request \in Requests, Grow(i, request)
          PROVE  SInv'
      BY <2>1, <3>1, GrowShape
    <3>2. ASSUME NEW i \in DOMAIN blocks, NEW request \in Requests, GrowInPlace(i, request)
          PROVE  SInv'
      BY <2>1, <3>2, GrowInPlaceShape
    <3> QED BY <2>3, <3>1, <3>2 DEF reallocx
  <2>4. ASSUME NEW i \in DOMAIN blocks, freex(i) PROVE SInv'
    BY <2>1, <2>4, FreexShape
  <2>5. ASSUME NEW i \in DOMAIN blocks, freexBuddy(i) PROVE SInv'
    BY <2>1, <2>5, FreexBuddyShape
  <2> QED BY <2>1, <2>2, <2>3, <2>4, <2>5
<1> QED BY <1>1, <1>2

(* The flags are those of headers.                                         *)
LEMMA FlaggedNext == SInv /\ flagged \subseteq Nodes /\ [Next]_vars => flagged' \subseteq Nodes
<1> SUFFICES ASSUME SInv, flagged \subseteq Nodes, [Next]_vars PROVE flagged' \subseteq Nodes
  OBVIOUS
<1>1. ASSUME NEW i \in DOMAIN blocks, freex(i) PROVE flagged' \subseteq Nodes
  BY <1>1 DEF freex, Inside
<1>2. ASSUME NEW i \in DOMAIN blocks, freexBuddy(i) PROVE flagged' \subseteq Nodes
  BY <1>2 DEF freexBuddy
<1>3. ASSUME NEW i \in DOMAIN blocks, NEW request \in Requests, GrowInPlace(i, request)
      PROVE  flagged' \subseteq Nodes
  <2>1. blocks[i].at \in Nodes
    BY <1>3 DEF GrowInPlace, Resizes, SInv, Sizes, Held
  <2> QED BY <1>3, <2>1 DEF GrowInPlace
<1>4. CASE UNCHANGED flagged
  BY <1>4
<1> QED BY <1>1, <1>2, <1>3, <1>4 DEF Next, vars, mallocx, reallocx, Turn, Enter, Refuse,
           coalesceBlocks, Match, Advance, Split, Astray, Grow, Return

(* Every variable keeps its type: no turn of the search, and no call of    *)
(* freex or reallocx, links or writes a header outside the frame, however  *)
(* often blocks are split, joined and taken apart.  It is so until the     *)
(* code goes on through null or data, or has used a buddy.                 *)
THEOREM TypeCorrect == Spec => []TypeOK
<1> DEFINE TInv == SInv /\ flagged \subseteq Nodes
<1>1. Init => TInv
  BY SInitStep DEF Init
<1>2. TInv /\ [Next]_vars => TInv'
  BY SNext, FlaggedNext
<1>3. TInv => TypeOK
  BY DEF SInv, Typed, TypeOK
<1> QED BY <1>1, <1>2, <1>3, PTL DEF Spec

-----------------------------------------------------------------------------
(* The second part of the invariant: what is held and what is linked.      *)

(* What comes after a page in the list is in the list.                     *)
LEMMA NextListed ==
  ASSUME SInv, pc # "buddy", AllocatedListed, CoveredLinked,
         NEW p \in Pages, InList(p), node[p].next # NULL
  PROVE  node[p].next \in Pages /\ InList(node[p].next)
<1>0. PICK x : x = node[p].next
  OBVIOUS
<1>1. /\ x \in Pages /\ x >= p + PAGE_SIZE /\ x >= p + node[p].size
      /\ node[p].size \in Nat /\ p \in Nat /\ x \in Nat
  BY <1>0, LinksForward, HeaderAt, PageFacts, NodeFacts DEF SInv
<1>2. ASSUME NEW m \in Pages, m < x PROVE node[m].next # NULL /\ m + node[m].size <= x
  <2>0. m \in Nat /\ m \in Nodes /\ node[m].size \in Nat /\ PAGE_SIZE \in Nat
    BY PageFacts, HeaderAt, Constants DEF SInv
  <2>1. CASE m < p
    BY <1>1, <2>0, <2>1, Constants DEF InList
  <2>2. CASE m = p
    BY <1>1, <2>2
  <2>3. CASE p < m
    <3>1. PICK k \in 2 .. MAXIMUM_COALESCE_BLOCKS : x = p + PAGE_SIZE * k /\ x = p + node[p].size
      <4>1. p + PAGE_SIZE <= m
        BY <2>3, PageFacts
      <4>2. ~ (node[p].size <= PAGE_SIZE)
        BY <1>0, <1>1, <1>2, <2>0, <4>1 DEF SInv, Shape, PageOK
      <4>3. node[p].size > PAGE_SIZE
        BY <1>1, <2>0, <4>2
      <4> QED BY <1>0, <4>3 DEF SInv, Shape, PageOK
    <3>2. node[m].next # NULL
      BY <1>1, <1>2, <2>3, <3>1 DEF CoveredLinked
    <3>3. node[m].status # "allocated"
      <4> SUFFICES ASSUME node[m].status = "allocated" PROVE FALSE
        OBVIOUS
      <4>1. InList(m)
        BY DEF AllocatedListed
      <4> QED BY <1>1, <1>2, <2>0, <2>3, <3>1, <4>1 DEF InList
    <3>4. node[m].size <= PAGE_SIZE
      BY <2>0, <3>3, HeaderAt DEF SInv, Shape, PageOK
    <3>5. m + PAGE_SIZE <= p + PAGE_SIZE * k
      BY <1>2, <3>1, PageFacts
    <3> QED BY <1>1, <2>0, <3>1, <3>2, <3>4, <3>5
  <2>4. m < p \/ m = p \/ p < m
    BY <1>1, <2>0
  <2> QED BY <2>1, <2>2, <2>3, <2>4, Zenon
<1> QED BY <1>0, <1>1, <1>2 DEF InList

(* The page after one that has been split, by way of its second half.      *)
LEMMA NextOfHalfListed ==
  ASSUME SInv, pc # "buddy", AllocatedListed, CoveredLinked, SplitSmall,
         NEW p \in Pages, InList(p), node[p].left = p, node[p + Half].next # NULL
  PROVE  node[p + Half].next \in Pages /\ InList(node[p + Half].next)
<1>1. node[p + Half].next = node[p].next
  BY DEF SplitSmall
<1> QED BY <1>1, NextListed

(* The page of the candidate is in the list.                               *)
LEMMA CandidateListed ==
  ASSUME SInv, Listed, intact, Steers, NEW n \in Nodes, n = Candidate(currentNode)
  PROVE  /\ InList(PageOf(n))
         /\ n \notin Pages =>
              /\ node[n].status = "unused"
              /\ node[n - Half].status = "allocated"
              /\ node[n - Half].left = n - Half
<1>1. /\ pc = "search" /\ currentNode \in Nodes
      /\ \/ n = currentNode
         \/ /\ currentNode \in Pages
            /\ node[currentNode].left = currentNode
            /\ node[currentNode].status = "allocated"
            /\ n = currentNode + Half
            /\ node[currentNode + Half].status = "unused"
         \/ /\ node[currentNode].status = "allocated"
            /\ node[currentNode].next # NULL
            /\ n = node[currentNode].next
            /\ n \in Pages
  BY CandidateCases
<1>2. PICK c \in Nodes : c = currentNode
  BY <1>1
<1>3. /\ InList(PageOf(c)) /\ AllocatedListed /\ CoveredLinked
      /\ c \notin Pages => /\ node[c].status = "unused"
                           /\ node[c - Half].status = "allocated"
                           /\ node[c - Half].left = c - Half
  BY <1>1, <1>2 DEF Listed, SearchListed
<1>4. CASE n = c
  BY <1>3, <1>4
<1>5. CASE c \in Pages /\ node[c].left = c /\ node[c].status = "allocated"
           /\ n = c + Half /\ node[c + Half].status = "unused"
  <2>1. n \notin Pages /\ n - Half = c
    BY <1>5, PageFacts, Constants
  <2>2. PageOf(n) = c /\ PageOf(c) = c
    BY <1>5, <2>1 DEF PageOf
  <2> QED BY <1>3, <1>5, <2>1, <2>2
<1>6. CASE node[c].status = "allocated" /\ node[c].next # NULL /\ n = node[c].next
           /\ n \in Pages
  <2>1. c \in Pages /\ PageOf(c) = c /\ PageOf(n) = n
    BY <1>3, <1>6 DEF PageOf
  <2>2. InList(n)
    BY <1>1, <1>3, <1>6, <2>1, NextListed
  <2> QED BY <1>6, <2>1, <2>2
<1> QED BY <1>1, <1>2, <1>4, <1>5, <1>6

(* Where the blocks held lie.                                              *)
LEMMA HeldPlace ==
  ASSUME SInv, pc # "buddy", Listed, intact, NEW b \in Held
  PROVE  /\ b.at \in Nodes /\ b.at \in Nat /\ b.size \in Nat /\ b.size > 0
         /\ node[b.at].status = "allocated" /\ node[b.at].size = b.size
         /\ b.size >= PAGE_SIZE => node[b.at].left = NULL
         /\ PageOf(b.at) \in Pages /\ PageOf(b.at) \in Nat
         /\ node[PageOf(b.at)].status = "allocated" /\ InList(PageOf(b.at))
         /\ b.at \notin Pages =>
              /\ b.at = PageOf(b.at) + Half /\ b.size <= Half
              /\ node[PageOf(b.at)].left = PageOf(b.at) /\ node[PageOf(b.at)].size <= Half
         /\ b.at \in Pages => PageOf(b.at) = b.at
<1>1. b.at \in Nodes /\ b.at \in Nat /\ b.size \in Nat /\ b.size > 0
  BY HeldAt, NodeFacts
<1>2. b.at - (b.at % PAGE_SIZE) = PageOf(b.at)
  BY <1>1, PageByRemainder
<1>3. /\ node[b.at].status = "allocated" /\ node[b.at].size = b.size
      /\ b.size >= PAGE_SIZE => node[b.at].left = NULL
      /\ node[PageOf(b.at)].status = "allocated"
  BY <1>2 DEF Listed, Marked
<1>4. PageOf(b.at) \in Pages /\ PageOf(b.at) \in Nat
  BY <1>1, NodeFacts, PageFacts
<1>5. InList(PageOf(b.at))
  BY <1>3, <1>4 DEF Listed, AllocatedListed
<1>6. ASSUME b.at \notin Pages
      PROVE  /\ b.at = PageOf(b.at) + Half /\ b.size <= Half
             /\ node[PageOf(b.at)].left = PageOf(b.at) /\ node[PageOf(b.at)].size <= Half
  <2>1. PageOf(b.at) = b.at - Half /\ b.at = PageOf(b.at) + Half
    BY <1>1, <1>6, Constants DEF PageOf
  <2>2. node[PageOf(b.at)].left = PageOf(b.at)
    BY <1>6, <2>1 DEF Listed, HeldHalf
  <2>3. node[PageOf(b.at)].size <= Half
    BY <1>4, <2>2 DEF Listed, SplitSmall
  <2>4. b.size <= Half
    BY <1>1, <1>3, <1>6 DEF SInv, Shape, HalfOK
  <2> QED BY <2>1, <2>2, <2>3, <2>4
<1>7. b.at \in Pages => PageOf(b.at) = b.at
  BY DEF PageOf
<1> QED BY <1>1, <1>3, <1>4, <1>5, <1>6, <1>7

(* A step that changes no header and no block held.                        *)
LEMMA SameListed ==
  ASSUME Listed, intact, Marked', node' = node,
         \A c \in Held : c \in Held', \A c \in Held' : c \in Held, SearchListed'
  PROVE  Listed'
<1>1. AllocatedListed /\ CoveredLinked /\ SplitSmall /\ HeldHalf
  BY DEF Listed
<1>2. AllocatedListed'
  BY <1>1 DEF AllocatedListed, InList
<1>3. CoveredLinked' /\ SplitSmall'
  BY <1>1 DEF CoveredLinked, SplitSmall
<1>4. HeldHalf'
  BY <1>1 DEF HeldHalf
<1> QED BY <1>2, <1>3, <1>4 DEF Listed

LEMMA EnterListed ==
  ASSUME SInv, Listed, intact, NEW request \in Requests, Enter(request), Marked', SInv'
  PROVE  Listed'
<1>1. /\ pc' = "search" /\ currentNode' = 0 /\ blocks' = blocks
      /\ node' = IF freeList = NULL THEN initNodes ELSE node
  BY DEF Enter
<1>2. Held' = Held
  BY <1>1 DEF Held
<1>3. SearchListed'
  <2>1. 0 \in Pages /\ \A m \in Pages : ~ (m < 0)
    BY NodeFacts, PageFacts
  <2> QED BY <1>1, <2>1 DEF SearchListed, InList, PageOf
<1>4. CASE freeList # NULL
  BY <1>1, <1>2, <1>3, <1>4, SameListed
<1>5. CASE freeList = NULL
  <2>1. node' = initNodes
    BY <1>1, <1>5
  <2>2. ASSUME NEW n \in Nodes
        PROVE  /\ node'[n].status = "unused" /\ node'[n].left = NULL
               /\ node'[n].size \in {0, PAGE_SIZE}
    <3>1. node'[n] = IF n \in Pages /\ n < LastPage
                       THEN [ZeroNode EXCEPT !.next = n + PAGE_SIZE, !.size = PAGE_SIZE,
                                             !.childSize = Half]
                       ELSE ZeroNode
      BY <2>1, InitNodesShape
    <3> QED BY <3>1 DEF ZeroNode
  <2>3. AllocatedListed'
    BY <2>2, NodeFacts DEF AllocatedListed
  <2>4. CoveredLinked'
    <3> SUFFICES ASSUME NEW m \in Pages, NEW n \in Pages, m < n, n < m + node'[m].size
                 PROVE  FALSE
      BY DEF CoveredLinked
    <3>1. m + PAGE_SIZE <= n /\ m \in Nat /\ n \in Nat /\ PAGE_SIZE \in Nat
      BY PageFacts, Constants
    <3>2. node'[m].size \in {0, PAGE_SIZE}
      BY <2>2, NodeFacts
    <3> QED BY <3>1, <3>2
  <2>5. SplitSmall'
    <3>1. \A p \in Pages : node'[p].left # p
      BY <2>2, NodeFacts, Constants
    <3> QED BY <3>1 DEF SplitSmall
  <2>6. HeldHalf'
    <3>1. \A b \in Held' : FALSE
      <4> SUFFICES ASSUME NEW b \in Held' PROVE FALSE
        OBVIOUS
      <4>1. b.at \in Nodes
        BY DEF SInv, Sizes
      <4>2. node'[b.at].status = "allocated"
        BY DEF Marked
      <4> QED BY <2>2, <4>1, <4>2
    <3> QED BY <3>1 DEF HeldHalf
  <2> QED BY <1>3, <2>3, <2>4, <2>5, <2>6 DEF Listed
<1> QED BY <1>4, <1>5

LEMMA RefuseListed ==
  ASSUME SInv, Listed, intact, Refuse, Marked'
  PROVE  Listed'
<1>1. Return(NULL) /\ node' = node /\ pc = "search"
  BY DEF Refuse, MayCoalesce
<1>2. /\ \A c \in Held : c \in Held'
      /\ \A c \in Held' : c \in Held \/ (c.at = NULL /\ c.size = size /\ NULL # NULL)
      /\ pc' = "idle"
  BY <1>1, ReturnStep
<1>3. SearchListed'
  BY <1>2 DEF SearchListed
<1> QED BY <1>1, <1>2, <1>3, SameListed

LEMMA AdvanceListed ==
  ASSUME SInv, Listed, intact, Advance, Marked'
  PROVE  Listed'
<1>1. PICK n \in Nodes : n = Candidate(currentNode)
  BY CandidateCases DEF Advance
<1>2. /\ Steers /\ currentNode' = IF node[n].next # NULL THEN node[n].next ELSE n
      /\ UNCHANGED <<pc, freeList, node, size, mutex, blocks, frees>>
  BY <1>1 DEF Advance
<1>3. /\ InList(PageOf(n)) /\ pc # "buddy"
      /\ n \notin Pages =>
           /\ node[n].status = "unused"
           /\ node[n - Half].status = "allocated"
           /\ node[n - Half].left = n - Half
  BY <1>1, <1>2, CandidateListed DEF Steers, GoesOn
<1>4. SearchListed'
  <2>1. CASE node[n].next = NULL
    BY <1>2, <1>3, <2>1 DEF SearchListed, InList
  <2>2. CASE node[n].next # NULL
    <3>1. node[n].next \in Pages /\ InList(node[n].next)
      <4>1. CASE n \in Pages
        <5>1. PageOf(n) = n
          BY <4>1 DEF PageOf
        <5> QED BY <1>3, <2>2, <4>1, <5>1, NextListed DEF Listed
      <4>2. CASE n \notin Pages
        <5>1. PICK p \in Pages : p = n - Half
          BY <4>2, NodeFacts
        <5>2. PageOf(n) = p /\ n = p + Half
          BY <4>2, <5>1, NodeFacts, Constants DEF PageOf
        <5> QED BY <1>3, <2>2, <4>2, <5>1, <5>2, NextOfHalfListed DEF Listed
      <4> QED BY <4>1, <4>2
    <3>2. PICK q \in Pages : q = node[n].next
      BY <3>1
    <3>3. currentNode' = q /\ InList(q) /\ PageOf(q) = q
      BY <1>2, <2>2, <3>1, <3>2 DEF PageOf
    <3> QED BY <1>2, <3>2, <3>3 DEF SearchListed, InList
  <2> QED BY <2>1, <2>2
<1>5. Held' = Held
  BY <1>2 DEF Held
<1> QED BY <1>2, <1>4, <1>5, SameListed

LEMMA SplitListed ==
  ASSUME SInv, Listed, intact, Split, Marked'
  PROVE  Listed'
<1>1. PICK n, r \in Nodes :
           /\ n = Candidate(currentNode) /\ currentNode' = n
           /\ pc = "search" /\ size \in Powers
           /\ node[n].status = "unused" /\ size < node[n].size
           /\ IF n \in Pages THEN r = n + Half /\ r \notin Pages ELSE r = n
           /\ node' \in [Nodes -> Header]
           /\ \A q \in Nodes : q # n /\ q # r => node'[q] = node[q]
           /\ node'[n].left = n /\ node'[n].right = r /\ node'[n].next = node[n].next
           /\ node'[n].size = node[n].size \div 2 /\ node'[n].size \in Nat
           /\ node'[n].status = "unused" /\ node'[n].childSize = node[n].childSize
           /\ node'[r].size = node[n].size \div 2 /\ node'[r].next = node[n].next
           /\ node'[r].status = node[r].status /\ node'[r].childSize = node[r].childSize
           /\ r # n => node'[r].left = node[r].left /\ node'[r].right = node[r].right
  BY SplitHeaders
<1>2. UNCHANGED <<pc, freeList, size, mutex, blocks, frees>> /\ Steers
  BY DEF Split
<1>3. /\ InList(PageOf(n))
      /\ n \notin Pages =>
           /\ node[n - Half].status = "allocated"
           /\ node[n - Half].left = n - Half
  BY <1>1, <1>2, CandidateListed
<1>4. AllocatedListed /\ CoveredLinked /\ SplitSmall /\ HeldHalf
  BY DEF Listed
<1>5. Held' = Held
  BY <1>2 DEF Held
<1>6. node[n].size \in Nat /\ PAGE_SIZE \in Nat /\ Half \in Nat /\ PAGE_SIZE = 2 * Half
  BY HeaderAt, Constants DEF SInv
<1>7. ASSUME NEW q \in Pages
      PROVE  /\ node'[q].next = node[q].next /\ node'[q].status = node[q].status
             /\ q \in Nat /\ node[q].size \in Nat /\ node'[q].size \in Nat
             /\ node'[q].size <= node[q].size
             /\ q # n => node'[q] = node[q]
  <2>1. q \in Nodes /\ q \in Nat /\ node[q].size \in Nat
    BY NodeFacts, PageFacts, HeaderAt DEF SInv
  <2>2. CASE q = n
    <3>1. node[n].size \div 2 <= node[n].size
      BY <1>6
    <3> QED BY <1>1, <2>1, <2>2, <3>1
  <2>3. CASE q # n
    <3>1. q # r
      BY <1>1, <2>3
    <3>2. node'[q] = node[q]
      BY <1>1, <2>1, <2>3, <3>1
    <3> QED BY <2>1, <2>3, <3>2
  <2> QED BY <2>2, <2>3
<1>8. ASSUME NEW p \in Pages, InList(p) PROVE InList(p)'
  <2> SUFFICES ASSUME NEW m \in Pages, m < p
               PROVE  node'[m].next # NULL /\ m + node'[m].size <= p
    BY DEF InList
  <2>1. node[m].next # NULL /\ m + node[m].size <= p
    BY <1>8 DEF InList
  <2>2. p \in Nat
    BY PageFacts
  <2>3. /\ node'[m].next = node[m].next /\ m \in Nat /\ node[m].size \in Nat
        /\ node'[m].size \in Nat /\ node'[m].size <= node[m].size
    BY <1>7
  <2> QED BY <2>1, <2>2, <2>3
<1>9. AllocatedListed'
  <2> SUFFICES ASSUME NEW p \in Pages, node'[p].status = "allocated"
               PROVE  InList(p)' /\ \E b \in Held' : b.at = p /\ b.size = node'[p].size
    BY DEF AllocatedListed
  <2>1. node[p].status = "allocated" /\ p # n
    BY <1>1, <1>7
  <2>2. node'[p] = node[p]
    BY <1>7, <2>1
  <2>3. InList(p) /\ \E b \in Held : b.at = p /\ b.size = node[p].size
    BY <1>4, <2>1 DEF AllocatedListed
  <2> QED BY <1>5, <1>8, <2>2, <2>3
<1>10. CoveredLinked'
  <2> SUFFICES ASSUME NEW m \in Pages, NEW q \in Pages, m < q, q < m + node'[m].size,
                      node'[m].next # NULL
               PROVE  node'[q].next # NULL
    BY DEF CoveredLinked
  <2>1. q < m + node[m].size /\ node[m].next # NULL
    BY <1>7
  <2> QED BY <1>4, <1>7, <2>1 DEF CoveredLinked
<1>11. SplitSmall'
  <2> SUFFICES ASSUME NEW p \in Pages, node'[p].left = p
               PROVE  node'[p].size <= Half /\ node'[p + Half].next = node'[p].next
    BY DEF SplitSmall
  <2>1. CASE p = n
    <3>1. node[n].size <= PAGE_SIZE
      BY <1>1, <2>1 DEF SInv, Shape, PageOK
    <3>2. node[n].size \div 2 <= Half
      BY <1>6, <3>1
    <3> QED BY <1>1, <2>1, <3>2
  <2>2. CASE p # n
    <3>1. node'[p] = node[p]
      BY <1>7, <2>2
    <3>2. node[p].size <= Half /\ node[p + Half].next = node[p].next
      BY <1>4, <3>1 DEF SplitSmall
    <3>3. node'[p + Half].next = node[p + Half].next
      <4>1. p + Half \in Nodes
        BY PageFacts
      <4>2. CASE p + Half = n \/ p + Half = r
        <5>1. n \notin Pages \/ p + Half = n + Half
          BY <1>1, <4>2, PageFacts
        <5>2. n \notin Pages
          BY <1>6, <2>2, <5>1, NodeFacts, PageFacts
        <5> QED BY <1>1, <4>2, <5>2
      <4>3. CASE ~ (p + Half = n \/ p + Half = r)
        BY <1>1, <4>1, <4>3
      <4> QED BY <4>2, <4>3
    <3> QED BY <3>1, <3>2, <3>3
  <2> QED BY <2>1, <2>2
<1>12. HeldHalf'
  <2> SUFFICES ASSUME NEW b \in Held', b.at \notin Pages
               PROVE  node'[b.at - Half].left = b.at - Half
    BY DEF HeldHalf
  <2>1. b.at \in Nodes /\ node[b.at - Half].left = b.at - Half
    BY <1>4, <1>5, HeldAt DEF HeldHalf
  <2>2. PICK p \in Pages : p = b.at - Half
    BY <2>1, NodeFacts
  <2> QED BY <1>1, <1>7, <2>1, <2>2
<1>13. SearchListed'
  <2>1. CASE n \in Pages
    <3>1. PageOf(n) = n
      BY <2>1 DEF PageOf
    <3>2. InList(n)'
      BY <1>3, <1>8, <2>1, <3>1
    <3> QED BY <1>1, <2>1, <3>1, <3>2 DEF SearchListed
  <2>2. CASE n \notin Pages
    <3>1. PICK p \in Pages : p = n - Half
      BY <2>2, NodeFacts
    <3>2. PageOf(n) = p /\ p # n
      BY <2>2, <3>1 DEF PageOf
    <3>3. InList(p)' /\ node'[p] = node[p]
      BY <1>3, <1>7, <1>8, <3>2
    <3>4. /\ currentNode' = n /\ currentNode' \notin Pages /\ currentNode' - Half = p
          /\ node'[n].status = "unused" /\ node'[p].status = "allocated" /\ node'[p].left = p
      BY <1>1, <1>3, <2>2, <3>1, <3>3
    <3>5. PageOf(currentNode)' = p
      BY <3>4 DEF PageOf
    <3> QED BY <3>3, <3>4, <3>5 DEF SearchListed
  <2> QED BY <2>1, <2>2
<1> QED BY <1>9, <1>10, <1>11, <1>12, <1>13 DEF Listed

LEMMA MatchListed ==
  ASSUME SInv, Listed, intact, Match, Marked'
  PROVE  Listed'
<1>1. PICK n \in Nodes : n = Candidate(currentNode)
  BY CandidateCases DEF Match
<1>2. /\ pc = "search" /\ Return(n) /\ node[n].size = size /\ Steers
      /\ node' = [node EXCEPT ![n].status = "allocated"]
  BY <1>1, CandidateCases DEF Match
<1>3. /\ InList(PageOf(n))
      /\ n \notin Pages => node[n - Half].left = n - Half
  BY <1>1, <1>2, CandidateListed
<1>4. AllocatedListed /\ CoveredLinked /\ SplitSmall /\ HeldHalf
  BY DEF Listed
<1>5. /\ pc' = "idle" /\ \A c \in Held : c \in Held'
      /\ \A c \in Held' : c \in Held \/ (c.at = n /\ c.size = size /\ n # NULL)
      /\ n # NULL => \E c \in Held' : c.at = n /\ c.size = size
      /\ n # NULL
  <2>1. n # NULL
    BY NodeFacts, Constants
  <2> QED BY <1>2, <2>1, ReturnStep
<1>6. ASSUME NEW q \in Nodes
      PROVE  /\ node'[q].next = node[q].next /\ node'[q].left = node[q].left
             /\ node'[q].size = node[q].size
             /\ q # n => node'[q].status = node[q].status
  <2>1. node \in [Nodes -> Header] /\ node[q] \in Header
    BY HeaderAt DEF SInv
  <2> QED BY <1>2, <2>1 DEF Header
<1>7. \A p \in Pages : InList(p) => InList(p)'
  BY <1>6, NodeFacts DEF InList
<1>8. AllocatedListed'
  <2> SUFFICES ASSUME NEW p \in Pages, node'[p].status = "allocated"
               PROVE  InList(p)' /\ \E b \in Held' : b.at = p /\ b.size = node'[p].size
    BY DEF AllocatedListed
  <2>1. p \in Nodes
    BY NodeFacts
  <2>2. CASE p = n
    <3>1. InList(p)
      BY <1>3, <2>2 DEF PageOf
    <3> QED BY <1>2, <1>5, <1>6, <1>7, <2>1, <2>2, <3>1
  <2>3. CASE p # n
    <3>1. InList(p) /\ \E b \in Held : b.at = p /\ b.size = node[p].size
      BY <1>4, <1>6, <2>1, <2>3 DEF AllocatedListed
    <3> QED BY <1>5, <1>6, <1>7, <2>1, <3>1
  <2> QED BY <2>2, <2>3
<1>9. CoveredLinked'
  BY <1>4, <1>6, NodeFacts DEF CoveredLinked
<1>10. SplitSmall'
  <2>1. \A p \in Pages : p \in Nodes /\ p + Half \in Nodes
    BY NodeFacts, PageFacts
  <2> QED BY <1>4, <1>6, <2>1 DEF SplitSmall
<1>11. HeldHalf'
  <2> SUFFICES ASSUME NEW b \in Held', b.at \notin Pages
               PROVE  node'[b.at - Half].left = b.at - Half
    BY DEF HeldHalf
  <2>1. b \in Held \/ b.at = n
    BY <1>5
  <2>2. b.at \in Nodes /\ node[b.at - Half].left = b.at - Half
    BY <1>3, <1>4, <2>1, HeldAt DEF HeldHalf
  <2>3. b.at - Half \in Nodes
    BY <2>2, NodeFacts
  <2> QED BY <1>6, <2>2, <2>3
<1>12. SearchListed'
  BY <1>5 DEF SearchListed
<1> QED BY <1>8, <1>9, <1>10, <1>11, <1>12 DEF Listed

(* The pages that coalesceBlocks joins are linked as far as the first page *)
(* in use, so that none of them is.                                        *)
LEMMA JoinedUnused ==
  ASSUME SInv, coalesceBlocks, NEW p \in Pages, InList(p), currentNode < p,
         node[p].status = "allocated"
  PROVE  /\ Follow(currentNode, blocksToCoalesce) # NULL
         /\ currentNode + size <= p
<1>1. PICK c \in Pages, K \in 2 .. MAXIMUM_COALESCE_BLOCKS :
        c = currentNode /\ K = blocksToCoalesce
  BY CoalescedBlock
<1>2. /\ size = PAGE_SIZE * K
      /\ Follow(c, K) # NULL => Follow(c, K) = c + size /\ Follow(c, K) \in Pages
      /\ \A i \in 0 .. K - 1 : Follow(c, i) # NULL =>
           /\ Follow(c, i) = c + PAGE_SIZE * i
           /\ Follow(c, i) \in Pages
           /\ node[Follow(c, i)].status # "allocated"
  BY <1>1, CoalescedBlock
<1> DEFINE S == {i \in Nat : Follow(c, i) # NULL /\ Follow(c, i) \in Pages
                               /\ Follow(c, i) = c + PAGE_SIZE * i /\ c + PAGE_SIZE * i <= p}
<1>3. 0 \in S
  <2>1. c + PAGE_SIZE * 0 = c /\ c # NULL /\ c < p /\ c \in Nat /\ p \in Nat
    BY <1>1, Constants, PageFacts
  <2> QED BY <2>1, FollowStep
<1>4. ASSUME NEW i \in 0 .. K - 1, i \in S PROVE i + 1 \in S
  <2>1. PICK q : q = Follow(c, i)
    OBVIOUS
  <2>2. /\ q # NULL /\ q \in Pages /\ q <= p /\ node[q].status # "allocated"
        /\ q = c + PAGE_SIZE * i /\ q \in Nat /\ p \in Nat
    BY <1>2, <1>4, <2>1, PageFacts
  <2>3. q < p
    BY <2>2
  <2>4. node[q].next # NULL /\ Follow(c, i + 1) = node[q].next
    <3>1. i \in Nat
      OBVIOUS
    <3>2. Follow(c, i + 1) = After(q)
      BY <2>1, <3>1, FollowStep
    <3>3. node[q].next # NULL
      BY <2>2, <2>3 DEF InList
    <3> QED BY <2>2, <3>2, <3>3 DEF After
  <2>5. q + PAGE_SIZE <= p
    BY <2>2, <2>3, PageFacts
  <2>6. c + PAGE_SIZE * (i + 1) = q + PAGE_SIZE
    <3>1. c \in Nat /\ PAGE_SIZE \in Nat
      BY PageFacts, Constants
    <3> QED BY <2>2, <3>1
  <2>7. Follow(c, i + 1) = c + PAGE_SIZE * (i + 1) /\ Follow(c, i + 1) \in Pages
    <3>1. CASE i + 1 = K
      BY <1>2, <2>4, <3>1
    <3>2. CASE i + 1 # K
      BY <1>2, <2>4, <3>2
    <3> QED BY <3>1, <3>2
  <2> QED BY <2>4, <2>5, <2>6, <2>7
<1>5. K \in S
  <2> HIDE DEF S
  <2>1. K \in Nat /\ K \in 0 .. K
    OBVIOUS
  <2> QED BY <1>3, <1>4, <2>1, UpTo
<1> QED BY <1>1, <1>2, <1>5

(* If anything follows the pages joined, they are all linked.              *)
LEMMA JoinedLinked ==
  ASSUME SInv, coalesceBlocks, NEW p \in Pages, currentNode < p, p < currentNode + size,
         Follow(currentNode, blocksToCoalesce) # NULL
  PROVE  node[p].next # NULL
<1> SUFFICES ASSUME node[p].next = NULL PROVE FALSE
  OBVIOUS
<1>1. PICK c \in Pages, K \in 2 .. MAXIMUM_COALESCE_BLOCKS :
        c = currentNode /\ K = blocksToCoalesce
  BY CoalescedBlock
<1>2. /\ size = PAGE_SIZE * K
      /\ \A i \in 0 .. K - 1 : Follow(c, i) # NULL =>
           /\ Follow(c, i) = c + PAGE_SIZE * i
           /\ Follow(c, i) \in Pages
  BY <1>1, CoalescedBlock
<1> DEFINE S == {i \in Nat : Follow(c, i) # NULL => c + PAGE_SIZE * i <= p}
<1>3. 0 \in S
  <2>1. c + PAGE_SIZE * 0 = c /\ c < p /\ c \in Nat /\ p \in Nat
    BY <1>1, Constants, PageFacts
  <2> QED BY <2>1
<1>4. ASSUME NEW i \in 0 .. K - 1, i \in S PROVE i + 1 \in S
  <2> SUFFICES ASSUME Follow(c, i + 1) # NULL PROVE c + PAGE_SIZE * (i + 1) <= p
    OBVIOUS
  <2>1. PICK q : q = Follow(c, i)
    OBVIOUS
  <2>2. q # NULL /\ node[q].next # NULL
    <3>1. i \in Nat
      OBVIOUS
    <3> QED BY <2>1, <3>1, FollowStep DEF After
  <2>3. q \in Pages /\ q = c + PAGE_SIZE * i /\ q <= p /\ q # p
    BY <1>2, <1>4, <2>1, <2>2
  <2>4. q + PAGE_SIZE <= p
    <3>1. q \in Nat /\ p \in Nat
      BY <2>3, PageFacts
    <3>2. q < p
      BY <2>3, <3>1
    <3> QED BY <2>3, <3>2, PageFacts
  <2>5. c + PAGE_SIZE * (i + 1) = q + PAGE_SIZE
    <3>1. c \in Nat /\ PAGE_SIZE \in Nat
      BY PageFacts, Constants
    <3> QED BY <2>3, <3>1
  <2> QED BY <2>4, <2>5
<1>5. K \in S
  <2> HIDE DEF S
  <2>1. K \in Nat /\ K \in 0 .. K
    OBVIOUS
  <2> QED BY <1>3, <1>4, <2>1, UpTo
<1>6. c + size <= p /\ c \in Nat /\ p \in Nat /\ size \in Nat
  BY <1>1, <1>2, <1>5, PageFacts DEF SInv, Typed
<1> QED BY <1>1, <1>6

LEMMA CoalesceListed ==
  ASSUME SInv, Listed, intact, coalesceBlocks, Marked'
  PROVE  Listed'
<1>1. PICK c \in Pages, f \in {Follow(currentNode, blocksToCoalesce)} :
        c = currentNode /\ f = Follow(currentNode, blocksToCoalesce)
  BY CoalescedBlock
<1>2. /\ pc = "search" /\ Return(c) /\ size = PAGE_SIZE * blocksToCoalesce
      /\ size > PAGE_SIZE /\ node[c].status = "unused" /\ size \in Nat /\ c \in Nat
  BY <1>1, CoalescedBlock, PageFacts DEF SInv, Typed
<1>3. /\ node' = [node EXCEPT ![c].next = f, ![c].size = size, ![c].status = "allocated"]
  BY <1>1, <1>2 DEF coalesceBlocks
<1>4. AllocatedListed /\ CoveredLinked /\ SplitSmall /\ HeldHalf /\ SearchListed
  BY DEF Listed
<1>5. InList(c)
  BY <1>1, <1>2, <1>4 DEF SearchListed, PageOf
<1>6. /\ pc' = "idle" /\ \A d \in Held : d \in Held'
      /\ \A d \in Held' : d \in Held \/ (d.at = c /\ d.size = size /\ c # NULL)
      /\ \E d \in Held' : d.at = c /\ d.size = size
  <2>1. c \in Nodes /\ c # NULL
    BY NodeFacts, Constants
  <2> QED BY <1>2, <2>1, ReturnStep
<1>7. /\ node \in [Nodes -> Header] /\ c \in Nodes /\ node[c] \in Header
      /\ Pages \subseteq Nodes /\ PAGE_SIZE \in Nat
  BY HeaderAt, NodeFacts, Constants DEF SInv
<1>8. /\ node'[c].next = f /\ node'[c].size = size /\ node'[c].status = "allocated"
      /\ node'[c].left = node[c].left
  BY <1>3, <1>7 DEF Header
<1>9. \A q \in Nodes : q # c => node'[q] = node[q]
  BY <1>3, <1>7
<1>10. ASSUME NEW p \in Pages, node[p].status = "allocated" PROVE InList(p)'
  <2>0. InList(p) /\ p # c /\ p \in Nat
    BY <1>2, <1>4, <1>10, PageFacts DEF AllocatedListed
  <2> SUFFICES ASSUME NEW m \in Pages, m < p
               PROVE  node'[m].next # NULL /\ m + node'[m].size <= p
    BY DEF InList
  <2>1. CASE m # c
    <3>1. node'[m] = node[m]
      BY <1>7, <1>9, <2>1
    <3> QED BY <2>0, <3>1 DEF InList
  <2>2. CASE m = c
    BY <1>1, <1>8, <1>10, <2>0, <2>2, JoinedUnused
  <2> QED BY <2>1, <2>2
<1>11. InList(c)'
  <2> SUFFICES ASSUME NEW m \in Pages, m < c
               PROVE  node'[m].next # NULL /\ m + node'[m].size <= c
    BY DEF InList
  <2>1. node'[m] = node[m]
    BY <1>2, <1>7, <1>9, PageFacts
  <2> QED BY <1>5, <2>1 DEF InList
<1>12. AllocatedListed'
  <2> SUFFICES ASSUME NEW p \in Pages, node'[p].status = "allocated"
               PROVE  InList(p)' /\ \E b \in Held' : b.at = p /\ b.size = node'[p].size
    BY DEF AllocatedListed
  <2>1. CASE p = c
    BY <1>6, <1>8, <1>11, <2>1
  <2>2. CASE p # c
    <3>1. node'[p] = node[p]
      BY <1>7, <1>9, <2>2
    <3>2. InList(p)' /\ \E b \in Held : b.at = p /\ b.size = node[p].size
      BY <1>4, <1>10, <3>1 DEF AllocatedListed
    <3> QED BY <1>6, <3>1, <3>2
  <2> QED BY <2>1, <2>2
<1>13. CoveredLinked'
  <2> SUFFICES ASSUME NEW m \in Pages, NEW q \in Pages, m < q, q < m + node'[m].size,
                      node'[m].next # NULL
               PROVE  node'[q].next # NULL
    BY DEF CoveredLinked
  <2>0. m \in Nat /\ q \in Nat /\ m \in Nodes /\ q \in Nodes /\ node[m].size \in Nat
    BY PageFacts, HeaderAt DEF SInv
  <2>1. CASE m = c
    <3>1. node[q].next # NULL
      BY <1>1, <1>8, <2>1, JoinedLinked
    <3> QED BY <1>9, <2>0, <2>1, <3>1
  <2>2. CASE m # c
    <3>1. node'[m] = node[m]
      BY <1>9, <2>0, <2>2
    <3>2. q # c
      <4> SUFFICES ASSUME q = c PROVE FALSE
        OBVIOUS
      <4>1. m + node[m].size <= c
        BY <1>5 DEF InList
      <4> QED BY <1>2, <2>0, <3>1, <4>1
    <3>3. node'[q] = node[q]
      BY <1>9, <2>0, <3>2
    <3> QED BY <1>4, <3>1, <3>3 DEF CoveredLinked
  <2> QED BY <2>1, <2>2
<1>14. SplitSmall'
  <2> SUFFICES ASSUME NEW p \in Pages, node'[p].left = p
               PROVE  node'[p].size <= Half /\ node'[p + Half].next = node'[p].next
    BY DEF SplitSmall
  <2>1. p # c
    <3>1. node'[c].left = NULL
      <4>1. PICK d \in Held' : d.at = c /\ d.size = size
        BY <1>6
      <4>2. d.size >= PAGE_SIZE
        BY <1>2, <1>7, <4>1
      <4> QED BY <4>1, <4>2 DEF Marked
    <3> QED BY <1>2, <3>1, Constants
  <2>2. node'[p] = node[p] /\ node'[p + Half] = node[p + Half]
    <3>1. p + Half \in Nodes /\ p + Half # c
      BY PageFacts
    <3> QED BY <1>7, <1>9, <2>1, <3>1
  <2> QED BY <1>4, <2>2 DEF SplitSmall
<1>15. HeldHalf'
  <2> SUFFICES ASSUME NEW b \in Held', b.at \notin Pages
               PROVE  node'[b.at - Half].left = b.at - Half
    BY DEF HeldHalf
  <2>1. b \in Held
    BY <1>6
  <2>2. b.at \in Nodes /\ node[b.at - Half].left = b.at - Half
    BY <1>4, <2>1, HeldAt DEF HeldHalf
  <2>3. b.at - Half \in Nodes
    BY <2>2, NodeFacts
  <2>4. node'[b.at - Half].left = node[b.at - Half].left
    BY <1>8, <1>9, <2>3
  <2> QED BY <2>2, <2>4
<1>16. SearchListed'
  BY <1>6 DEF SearchListed
<1> QED BY <1>12, <1>13, <1>14, <1>15, <1>16 DEF Listed

LEMMA FreexListed ==
  ASSUME SInv, Listed, intact, NEW i \in DOMAIN blocks, freex(i), SInv', Marked'
  PROVE  Listed'
<1>0. PICK n : n = blocks[i].at
  OBVIOUS
<1>1. PICK data \in Remains : node' = Relinked(n, data)
  BY <1>0 DEF freex
<1>2. /\ pc = "idle" /\ pc' = "idle" /\ blocks[i].held
      /\ blocks' = [blocks EXCEPT ![i].held = FALSE]
  BY DEF freex, Frees
<1>3. Typed /\ pc # "buddy" /\ pc' # "buddy" /\ Typed'
  BY <1>2 DEF SInv
<1>4. /\ \A c \in Held' : c \in Held
      /\ blocks[i] \in Held
      /\ DOMAIN blocks' = DOMAIN blocks
      /\ \A j \in DOMAIN blocks : j # i => blocks'[j] = blocks[j]
  BY <1>2, <1>3, HeldLess
<1>5. \A c \in Held : c.at # n => c \in Held'
  BY <1>0, <1>4 DEF Held
<1>6. AllocatedListed /\ CoveredLinked /\ SplitSmall /\ HeldHalf
  BY DEF Listed
<1>7. PICK s \in Nat : s = node[n].size
  BY <1>0, <1>3, <1>4, HeldPlace
<1>8. /\ n \in Nodes /\ n \in Nat /\ s > 0
      /\ s >= PAGE_SIZE => node[n].left = NULL
  BY <1>0, <1>3, <1>4, <1>7, HeldPlace
<1>9. /\ PAGE_SIZE \in Nat /\ Half \in Nat /\ PAGE_SIZE = 2 * Half /\ Half > 0
      /\ NULL < 0 /\ WILD < 0 /\ Pages \subseteq Nodes /\ Nodes \subseteq Nat
  BY Constants, NodeFacts
(* The headers at the start of a page, outside the block and in it.        *)
<1>10. ASSUME NEW q \in Pages
       PROVE  \/ node'[q] = node[q] /\ (q < n \/ q >= n + s)
              \/ /\ q = n /\ s <= PAGE_SIZE
                 /\ node'[q].status = "unused" /\ node'[q].left = node[q].left
                 /\ node'[q].size = node[q].size /\ node'[q].next = node[q].next
              \/ /\ n <= q /\ q < n + s /\ n \in Pages
                 /\ node'[q].status = "unused" /\ node'[q].left # q
                 /\ node'[q].size = PAGE_SIZE /\ node'[q].next = q + PAGE_SIZE
  <2>1. q \in Nodes /\ q \in Nat
    BY <1>9
  <2>2. CASE q < n \/ q >= n + s
    <3>1. node'[q] = node[q]
      BY <1>1, <1>3, <1>7, <1>8, <2>1, <2>2, RelinkedHeaders
    <3> QED BY <2>2, <3>1
  <2>3. CASE q = n
    <3>1. /\ node'[q].status = "unused" /\ node'[q].left = node[q].left
          /\ IF s > PAGE_SIZE
               THEN node'[q].size = PAGE_SIZE /\ node'[q].next = q + PAGE_SIZE
               ELSE node'[q].size = node[q].size /\ node'[q].next = node[q].next
      BY <1>1, <1>3, <1>7, <1>8, <2>1, <2>3, RelinkedHeaders
    <3>2. CASE s > PAGE_SIZE
      <4>1. node'[q].left # q /\ n <= q /\ q < n + s /\ n \in Pages
        BY <1>8, <1>9, <2>1, <2>3, <3>1, <3>2
      <4> QED BY <3>1, <3>2, <4>1
    <3>3. CASE ~ (s > PAGE_SIZE)
      <4>1. s <= PAGE_SIZE
        BY <1>9, <3>3
      <4> QED BY <2>3, <3>1, <3>3, <4>1
    <3> QED BY <3>2, <3>3
  <2>4. CASE n < q /\ q < n + s
    <3>1. /\ n \in Pages /\ node'[q].status = "unused"
          /\ node'[q].size = PAGE_SIZE /\ node'[q].next = q + PAGE_SIZE
          /\ node'[q].left \in {NULL, WILD}
      BY <1>1, <1>3, <1>7, <1>8, <2>1, <2>4, RelinkedHeaders
    <3>2. node'[q].left # q /\ n <= q
      BY <1>8, <1>9, <2>1, <2>4, <3>1
    <3> QED BY <2>4, <3>1, <3>2
  <2>5. (q < n \/ q >= n + s) \/ q = n \/ (n < q /\ q < n + s)
    BY <1>8, <2>1
  <2> QED BY <2>2, <2>3, <2>4, <2>5
<1>11. ASSUME NEW q \in Nodes \ Pages PROVE node'[q].next = node[q].next
  <2>1. q \in Nodes /\ q \in Nat
    BY <1>9
  <2>2. CASE q < n \/ q >= n + s
    BY <1>1, <1>3, <1>7, <1>8, <2>1, <2>2, RelinkedHeaders
  <2>3. CASE q = n
    <3>1. ~ (s > PAGE_SIZE)
      BY <1>3, <1>7, <1>9, <2>3 DEF SInv, Shape, HalfOK
    <3> QED BY <1>1, <1>3, <1>7, <1>8, <2>1, <2>3, <3>1, RelinkedHeaders
  <2>4. CASE n < q /\ q < n + s
    BY <1>1, <1>3, <1>7, <1>8, <2>1, <2>4, RelinkedHeaders
  <2>5. (q < n \/ q >= n + s) \/ q = n \/ (n < q /\ q < n + s)
    BY <1>8, <2>1
  <2> QED BY <2>2, <2>3, <2>4, <2>5
<1>12. ASSUME NEW p \in Pages, node'[p].status = "allocated"
       PROVE  /\ node'[p] = node[p] /\ p # n /\ (p < n \/ p >= n + s)
              /\ InList(p) /\ \E b \in Held : b.at = p /\ b.size = node[p].size
  <2>1. node'[p] = node[p] /\ (p < n \/ p >= n + s)
    BY <1>10, <1>12
  <2>2. p # n
    BY <1>8, <2>1
  <2> QED BY <1>6, <1>12, <2>1, <2>2 DEF AllocatedListed
<1>13. AllocatedListed'
  <2> SUFFICES ASSUME NEW p \in Pages, node'[p].status = "allocated"
               PROVE  InList(p)' /\ \E b \in Held' : b.at = p /\ b.size = node'[p].size
    BY DEF AllocatedListed
  <2>1. \E b \in Held' : b.at = p /\ b.size = node'[p].size
    BY <1>5, <1>12
  <2>2. ASSUME NEW m \in Pages, m < p PROVE node'[m].next # NULL /\ m + node'[m].size <= p
    <3>1. node[m].next # NULL /\ m + node[m].size <= p /\ m \in Nat /\ m + PAGE_SIZE <= p
      BY <1>9, <1>12, <2>2, PageFacts DEF InList
    <3>2. CASE node'[m].size = node[m].size /\ node'[m].next = node[m].next
      BY <3>1, <3>2
    <3>3. CASE node'[m].size = PAGE_SIZE /\ node'[m].next = m + PAGE_SIZE
      BY <1>9, <3>1, <3>3
    <3> QED BY <1>10, <3>2, <3>3
  <2> QED BY <2>1, <2>2 DEF InList
<1>14. CoveredLinked'
  <2> SUFFICES ASSUME NEW m \in Pages, NEW q \in Pages, m < q, q < m + node'[m].size,
                      node'[m].next # NULL
               PROVE  node'[q].next # NULL
    BY DEF CoveredLinked
  <2>1. m \in Nat /\ q \in Nat /\ m + PAGE_SIZE <= q
    BY <1>9, PageFacts
  <2>2. node'[m].size = node[m].size /\ node'[m].next = node[m].next
    <3>1. node'[m].size # PAGE_SIZE
      BY <1>9, <2>1
    <3> QED BY <1>10, <3>1
  <2>3. node[q].next # NULL
    BY <1>6, <2>2 DEF CoveredLinked
  <2>4. q + PAGE_SIZE # NULL
    BY <1>9, <2>1
  <2> QED BY <1>10, <2>3, <2>4
<1>15. SplitSmall'
  <2> SUFFICES ASSUME NEW p \in Pages, node'[p].left = p
               PROVE  node'[p].size <= Half /\ node'[p + Half].next = node'[p].next
    BY DEF SplitSmall
  <2>1. /\ node'[p].left = node[p].left /\ node'[p].size = node[p].size
        /\ node'[p].next = node[p].next
    BY <1>10
  <2>2. p + Half \in Nodes \ Pages
    BY PageFacts
  <2> QED BY <1>6, <1>11, <2>1, <2>2 DEF SplitSmall
<1>16. HeldHalf'
  <2> SUFFICES ASSUME NEW b \in Held', b.at \notin Pages
               PROVE  node'[b.at - Half].left = b.at - Half
    BY DEF HeldHalf
  <2>1. b \in Held
    BY <1>4
  <2>2. b.at \in Nodes /\ b.at \in Nat /\ node[b.at - Half].left = b.at - Half
    BY <1>6, <2>1, HeldAt, NodeFacts DEF HeldHalf
  <2>3. PICK p \in Pages : p = b.at - Half /\ p = b.at - (b.at % PAGE_SIZE)
    <3>1. b.at - (b.at % PAGE_SIZE) = b.at - Half
      BY <2>2, PageByRemainder DEF PageOf
    <3> QED BY <2>2, <3>1, NodeFacts
  <2>4. node'[p].status = "allocated"
    BY <2>3 DEF Marked
  <2> QED BY <1>12, <2>2, <2>3, <2>4
<1>17. SearchListed'
  BY <1>2 DEF SearchListed
<1> QED BY <1>13, <1>14, <1>15, <1>16, <1>17 DEF Listed

LEMMA ListedNext == IInv /\ SInv' /\ [Next]_vars => Listed'
<1> SUFFICES ASSUME SInv, Listed, SInv', [Next]_vars PROVE Listed'
  BY DEF IInv
<1>1. CASE UNCHANGED vars
  <2>1. UNCHANGED <<pc, node, currentNode, blocks, intact>>
    BY <1>1 DEF vars
  <2> QED BY <2>1 DEF Listed, Marked, Held, AllocatedListed, CoveredLinked, SplitSmall,
                      HeldHalf, SearchListed, InList
<1>2. CASE Next
  <2> SUFFICES ASSUME intact' PROVE Listed'
    BY DEF Listed
  <2>1. Watch /\ (mallocx \/ reallocx \/ \E i \in DOMAIN blocks : freex(i) \/ freexBuddy(i))
    BY <1>2 DEF Next
  <2>2. intact /\ Marked' /\ pc' # "buddy"
    BY <2>1, Watched DEF SInv
  <2>3. ASSUME node' = node, Held' = Held, pc' # "search" PROVE Listed'
    BY <2>2, <2>3, SameListed DEF SearchListed
  <2>4. CASE mallocx
    <3>1. ASSUME NEW request \in Requests, Enter(request) PROVE Listed'
      BY <2>2, <3>1, EnterListed
    <3>2. CASE Refuse
      BY <2>2, <3>2, RefuseListed
    <3>3. CASE coalesceBlocks
      BY <2>2, <3>3, CoalesceListed
    <3>4. CASE Match
      BY <2>2, <3>4, MatchListed
    <3>5. CASE Advance
      BY <2>2, <3>5, AdvanceListed
    <3>6. CASE Split
      BY <2>2, <3>6, SplitListed
    <3>7. CASE Astray
      BY <2>3, <3>7 DEF Astray, Held
    <3> QED BY <2>4, <3>1, <3>2, <3>3, <3>4, <3>5, <3>6, <3>7 DEF mallocx, Turn
  <2>5. CASE reallocx
    <3>1. ASSUME NEW i \in DOMAIN blocks, NEW request \in Requests, Grow(i, request)
          PROVE  Listed'
      BY <2>3, <3>1 DEF Grow, Held
    <3>2. ASSUME NEW i \in DOMAIN blocks, NEW request \in Requests, GrowInPlace(i, request)
          PROVE  Listed'
      BY <2>2, <3>2 DEF GrowInPlace
    <3> QED BY <2>5, <3>1, <3>2 DEF reallocx
  <2>6. ASSUME NEW i \in DOMAIN blocks, freex(i) PROVE Listed'
    BY <2>2, <2>6, FreexListed
  <2>7. ASSUME NEW i \in DOMAIN blocks, freexBuddy(i) PROVE Listed'
    BY <2>2, <2>7 DEF freexBuddy
  <2> QED BY <2>1, <2>4, <2>5, <2>6, <2>7
<1> QED BY <1>1, <1>2

LEMMA InitListed == Init => Listed
<1> SUFFICES ASSUME Init PROVE Listed
  OBVIOUS
<1>1. Held = {} /\ pc = "idle"
  BY DEF Init, Held
<1>2. \A n \in Nodes : node[n].status = "unused" /\ node[n].left = NULL /\ node[n].next = NULL
  BY DEF Init, ZeroNode
<1>3. AllocatedListed /\ CoveredLinked
  BY <1>2, NodeFacts DEF AllocatedListed, CoveredLinked
<1>4. SplitSmall
  <2>1. \A p \in Pages : node[p].left # p
    BY <1>2, NodeFacts, Constants
  <2> QED BY <2>1 DEF SplitSmall
<1> QED BY <1>1, <1>3, <1>4 DEF Listed, Marked, HeldHalf, SearchListed

LEMMA GrownNext == IInv /\ [Next]_vars => Grown'
<1> SUFFICES ASSUME SInv, Grown, [Next]_vars PROVE Grown'
  BY DEF IInv
<1>1. CASE UNCHANGED vars
  BY <1>1 DEF vars, Grown
<1>2. CASE Next
  BY <1>2, Watched DEF Next, SInv, Grown
<1> QED BY <1>1, <1>2

LEMMA Invariant == Spec => []IInv
<1>1. Init => IInv
  <2>1. Init => Grown
    BY DEF Init, Grown
  <2> QED BY <2>1, SInitStep, InitListed DEF IInv
<1>2. IInv /\ [Next]_vars => IInv'
  <2>1. IInv /\ [Next]_vars => SInv'
    BY SNext DEF IInv
  <2> QED BY <2>1, ListedNext, GrownNext DEF IInv
<1> QED BY <1>1, <1>2, PTL DEF Spec

-----------------------------------------------------------------------------
(* What follows for the blocks.                                            *)

(* The pages that are reached from the first are in the list.              *)
LEMMA ReachedListed ==
  ASSUME SInv, pc # "buddy", AllocatedListed, CoveredLinked, NEW k \in Nat,
         Follow(0, k) # NULL
  PROVE  Follow(0, k) \in Pages /\ InList(Follow(0, k))
<1> DEFINE S == {i \in Nat : Follow(0, i) # NULL =>
                                Follow(0, i) \in Pages /\ InList(Follow(0, i))}
<1>1. 0 \in S
  <2>1. 0 \in Pages /\ \A m \in Pages : m \in Nat
    BY NodeFacts, PageFacts
  <2>2. InList(0)
    BY <2>1 DEF InList
  <2> QED BY <2>1, <2>2, FollowStep
<1>2. ASSUME NEW i \in 0 .. k - 1, i \in S PROVE i + 1 \in S
  <2> SUFFICES ASSUME Follow(0, i + 1) # NULL
               PROVE  Follow(0, i + 1) \in Pages /\ InList(Follow(0, i + 1))
    OBVIOUS
  <2>1. PICK q : q = Follow(0, i)
    OBVIOUS
  <2>2. Follow(0, i + 1) = After(q)
    <3>1. i \in Nat
      OBVIOUS
    <3> QED BY <2>1, <3>1, FollowStep
  <2>3. q # NULL /\ node[q].next = Follow(0, i + 1)
    BY <2>2 DEF After
  <2>4. q \in Pages /\ InList(q)
    BY <1>2, <2>1, <2>3
  <2> QED BY <2>3, <2>4, NextListed
<1>3. k \in S
  <2> HIDE DEF S
  <2>1. k \in 0 .. k
    OBVIOUS
  <2> QED BY <1>1, <1>2, <2>1, UpTo
<1> QED BY <1>3

(* A page in the list begins outside every block, or with it; and so does  *)
(* the second half of a page that has been split.                          *)
LEMMA ListedSpared ==
  ASSUME SInv, Listed, intact, pc # "buddy", NEW p \in Pages, InList(p), NEW b \in Held
  PROVE  /\ p <= b.at \/ p >= b.at + b.size
         /\ node[p].left = p => p + Half <= b.at \/ p + Half >= b.at + b.size
<1>0. /\ p \in Nat /\ PAGE_SIZE \in Nat /\ Half \in Nat /\ PAGE_SIZE = 2 * Half /\ Half > 0
  BY PageFacts, Constants
<1>1. PICK q \in Pages, at \in Nat, s \in Nat :
        /\ q = PageOf(b.at) /\ at = b.at /\ s = b.size /\ q \in Nat
        /\ b.at \notin Pages => at = q + Half /\ s <= Half
        /\ b.at \in Pages => at = q /\ node[q].size = s
  BY HeldPlace
<1>2. CASE q = p
  <2>1. CASE b.at \in Pages
    <3>1. node[p].left = p => s <= Half
      BY <1>1, <1>2, <2>1 DEF Listed, SplitSmall
    <3> QED BY <1>0, <1>1, <1>2, <2>1, <3>1
  <2>2. CASE b.at \notin Pages
    BY <1>0, <1>1, <1>2, <2>2
  <2> QED BY <2>1, <2>2
<1>3. CASE p < q
  <2>1. p + PAGE_SIZE <= q /\ q <= at
    BY <1>0, <1>1, <1>3, PageFacts
  <2> QED BY <1>0, <1>1, <2>1
<1>4. CASE q < p
  <2>1. q + PAGE_SIZE <= p /\ q + node[q].size <= p
    BY <1>4, PageFacts DEF InList
  <2>2. CASE b.at \in Pages
    BY <1>0, <1>1, <2>1, <2>2
  <2>3. CASE b.at \notin Pages
    BY <1>0, <1>1, <2>1, <2>3
  <2> QED BY <2>2, <2>3
<1>5. q = p \/ p < q \/ q < p
  BY <1>0, <1>1
<1> QED BY <1>2, <1>3, <1>4, <1>5

(* While intact, no header that the search can come to lies in a block     *)
(* whose user could overwrite it: splitting, joining, freeing in any order *)
(* keep the list clear of the blocks held.                                 *)
THEOREM HeadersKept == Spec => []HeadersSpared
<1>1. IInv => HeadersSpared
  <2> SUFFICES ASSUME SInv, Listed, Grown, freeList # NULL, intact,
                      NEW n \in Reachable, NEW b \in Held
               PROVE  n <= b.at \/ n >= b.at + b.size
    BY DEF IInv, HeadersSpared
  <2>1. CASE pc # "buddy"
    <3>0. AllocatedListed /\ CoveredLinked
      BY DEF Listed
    <3>1. ASSUME NEW k \in 0 .. POOL_ARRAY_SIZE + SPARE, Follow(0, k) # NULL
          PROVE  Follow(0, k) \in Pages /\ InList(Follow(0, k))
      <4>1. k \in Nat
        BY HeapAssumption DEF HeapAssumption
      <4> QED BY <2>1, <3>0, <3>1, <4>1, ReachedListed
    <3>2. PICK p : /\ p \in Pages /\ InList(p)
                   /\ n = p \/ (node[p].left \notin {NULL, WILD} /\ n = node[p].right)
      BY <3>1, Zenon DEF Reachable
    <3>3. CASE n = p
      BY <2>1, <3>2, <3>3, ListedSpared
    <3>4. CASE node[p].left \notin {NULL, WILD} /\ n = node[p].right
      <4>1. node[p].left = p /\ n = p + Half
        BY <2>1, <3>2, <3>4 DEF SInv, Shape, PageOK
      <4> QED BY <2>1, <3>2, <4>1, ListedSpared
    <3> QED BY <3>2, <3>3, <3>4
  <2>2. CASE pc = "buddy"
    BY <2>2 DEF Grown
  <2> QED BY <2>1, <2>2
<1> QED BY <1>1, Invariant, PTL

(* A block that coalesceBlocks gives out is disjoint from all held.        *)
LEMMA CoalescedDisjoint ==
  ASSUME SInv, Listed, intact, coalesceBlocks, NEW b \in Held
  PROVE  currentNode + size <= b.at \/ b.at + b.size <= currentNode
<1>1. PICK c \in Pages : c = currentNode
  BY CoalescedBlock
<1>2. /\ pc = "search" /\ pc # "buddy" /\ node[c].status = "unused" /\ size \in Nat
      /\ c \in Nat /\ PAGE_SIZE \in Nat /\ Half \in Nat /\ PAGE_SIZE = 2 * Half
  BY <1>1, CoalescedBlock, PageFacts, Constants DEF SInv, Typed
<1>3. InList(c)
  BY <1>1, <1>2 DEF Listed, SearchListed, PageOf
<1>4. PICK q \in Pages, at \in Nat, s \in Nat :
        /\ q = PageOf(b.at) /\ at = b.at /\ s = b.size /\ q \in Nat
        /\ node[q].status = "allocated" /\ InList(q)
        /\ b.at \notin Pages => at = q + Half /\ s <= Half
        /\ b.at \in Pages => at = q /\ node[q].size = s
  BY <1>2, HeldPlace
<1>5. q # c /\ q <= at
  BY <1>2, <1>4
<1>6. CASE q < c
  <2>1. q + PAGE_SIZE <= c /\ q + node[q].size <= c
    BY <1>3, <1>6, PageFacts DEF InList
  <2>2. at + s <= c
    <3>1. CASE b.at \in Pages
      BY <1>2, <1>4, <2>1, <3>1
    <3>2. CASE b.at \notin Pages
      BY <1>2, <1>4, <2>1, <3>2
    <3> QED BY <3>1, <3>2
  <2> QED BY <1>1, <1>4, <2>2
<1>7. CASE c < q
  <2>1. c + size <= q
    BY <1>1, <1>4, <1>7, JoinedUnused
  <2> QED BY <1>1, <1>2, <1>4, <1>5, <2>1
<1> QED BY <1>2, <1>4, <1>5, <1>6, <1>7

(* So is one that Match gives out, unless it is held already as it is.     *)
LEMMA MatchDisjoint ==
  ASSUME SInv, Listed, intact, Match, NEW n \in Nodes, n = Candidate(currentNode),
         NEW b \in Held
  PROVE  n + size <= b.at \/ b.at + b.size <= n \/ (b.at = n /\ b.size = size)
<1>1. /\ pc = "search" /\ pc # "buddy" /\ node[n].size = size /\ Steers
  BY CandidateCases DEF Match
<1>2. /\ InList(PageOf(n)) /\ PageOf(n) \in Pages
      /\ n \notin Pages =>
           /\ node[n].status = "unused"
           /\ node[n - Half].left = n - Half
  BY <1>1, CandidateListed, NodeFacts
<1>3. PICK p \in Pages : p = PageOf(n) /\ InList(p)
  BY <1>2
<1>4. PICK q \in Pages, at \in Nat, s \in Nat :
        /\ q = PageOf(b.at) /\ at = b.at /\ s = b.size /\ q \in Nat
        /\ node[at].status = "allocated" /\ node[at].size = s
        /\ InList(q)
        /\ b.at \notin Pages => at = q + Half /\ s <= Half /\ node[q].left = q
        /\ b.at \in Pages => at = q
  BY <1>1, HeldPlace
<1>5. /\ p \in Nat /\ n \in Nat /\ size \in Nat /\ PAGE_SIZE \in Nat /\ Half \in Nat
      /\ PAGE_SIZE = 2 * Half /\ node[p].size \in Nat /\ node[q].size \in Nat
  BY NodeFacts, PageFacts, Constants, HeaderAt DEF SInv, Typed
<1>6. n \notin Pages => n = p + Half /\ size <= Half /\ node[p].size <= Half /\ node[p].left = p
  <2> SUFFICES ASSUME n \notin Pages
               PROVE  n = p + Half /\ size <= Half /\ node[p].size <= Half /\ node[p].left = p
    OBVIOUS
  <2>1. p = n - Half
    BY <1>3 DEF PageOf
  <2>2. n = p + Half /\ node[p].left = p
    BY <1>2, <1>5, <2>1
  <2>3. size <= Half
    BY <1>1 DEF SInv, Shape, HalfOK
  <2> QED BY <2>2, <2>3 DEF Listed, SplitSmall
<1>7. n \in Pages => p = n
  BY <1>3 DEF PageOf
<1>8. CASE q < p
  <2>1. q + PAGE_SIZE <= p /\ q + node[q].size <= p /\ p <= n
    BY <1>3, <1>5, <1>6, <1>7, <1>8, PageFacts DEF InList
  <2>2. at + s <= p
    BY <1>4, <1>5, <2>1
  <2> QED BY <1>4, <1>5, <2>1, <2>2
<1>9. CASE p < q
  <2>1. p + PAGE_SIZE <= q /\ p + node[p].size <= q /\ q <= at
    BY <1>4, <1>5, <1>9, PageFacts DEF InList
  <2>2. n + size <= q
    <3>1. CASE n \in Pages
      BY <1>1, <1>5, <1>7, <2>1, <3>1
    <3>2. CASE n \notin Pages
      BY <1>5, <1>6, <2>1, <3>2
    <3> QED BY <3>1, <3>2
  <2> QED BY <1>4, <1>5, <2>1, <2>2
<1>10. CASE p = q
  <2>1. CASE b.at \in Pages /\ n \in Pages
    BY <1>1, <1>4, <1>7, <1>10, <2>1
  <2>2. CASE b.at \notin Pages /\ n \in Pages
    <3>1. node[p].size <= Half
      BY <1>4, <1>10, <2>2 DEF Listed, SplitSmall
    <3> QED BY <1>1, <1>4, <1>5, <1>7, <1>10, <2>2, <3>1
  <2>3. CASE b.at \in Pages /\ n \notin Pages
    BY <1>4, <1>5, <1>6, <1>10, <2>3
  <2>4. CASE b.at \notin Pages /\ n \notin Pages
    BY <1>2, <1>4, <1>6, <1>10, <2>4
  <2> QED BY <2>1, <2>2, <2>3, <2>4
<1> QED BY <1>4, <1>5, <1>8, <1>9, <1>10

(* While intact, what mallocx gives out overlaps no block held, unless it  *)
(* gives the same block out once more.                                     *)
THEOREM WholeBlocks == Spec => GivesOutWhole
<1>1. IInv /\ [Next]_vars => [GivenWhole]_vars
  <2> SUFFICES ASSUME SInv, Listed, Next PROVE GivenWhole
    BY DEF IInv
  <2> SUFFICES ASSUME intact, Len(blocks') > Len(blocks), NEW c \in Held,
                      blocks'[Len(blocks')].held
               PROVE  LET b == blocks'[Len(blocks')]
                      IN  Disjoint(b, c) \/ (b.at = c.at /\ b.size = c.size)
    BY DEF GivenWhole
  <2>0. Typed /\ Len(blocks) \in Nat
    BY DEF SInv, Typed
  <2>1. CASE Refuse
    <3>1. Return(NULL) /\ pc = "search"
      BY <2>1 DEF Refuse, MayCoalesce
    <3>2. blocks'[Len(blocks')] = [at |-> NULL, size |-> size, held |-> NULL # NULL]
      BY <3>1, ReturnStep
    <3>3. (NULL # NULL) = FALSE
      OBVIOUS
    <3>4. blocks'[Len(blocks')] = [at |-> NULL, size |-> size, held |-> FALSE]
      BY <3>2, <3>3
    <3> QED BY <3>4
  <2>2. CASE coalesceBlocks
    <3>1. PICK n \in Pages : n = currentNode /\ Return(n) /\ pc = "search"
      BY <2>2, CoalescedBlock
    <3>2. blocks'[Len(blocks')] = [at |-> n, size |-> size, held |-> n # NULL]
      BY <3>1, ReturnStep, NodeFacts
    <3>3. n + size <= c.at \/ c.at + c.size <= n
      BY <2>2, <3>1, CoalescedDisjoint
    <3> QED BY <3>2, <3>3 DEF Disjoint
  <2>3. CASE Match
    <3>1. PICK n \in Nodes : n = Candidate(currentNode)
      BY <2>3, CandidateCases DEF Match
    <3>2. Return(n) /\ pc = "search"
      BY <2>3, <3>1, CandidateCases DEF Match
    <3>3. blocks'[Len(blocks')] = [at |-> n, size |-> size, held |-> n # NULL]
      BY <3>2, ReturnStep
    <3>4. n + size <= c.at \/ c.at + c.size <= n \/ (c.at = n /\ c.size = size)
      BY <2>3, <3>1, MatchDisjoint
    <3> QED BY <3>3, <3>4 DEF Disjoint
  <2>4. ASSUME NEW i \in DOMAIN blocks, freex(i) \/ freexBuddy(i) PROVE FALSE
    <3>1. Len(blocks') = Len(blocks)
      BY <2>0, <2>4, HeldLess DEF freex, freexBuddy, Frees
    <3> QED BY <2>0, <3>1
  <2>5. CASE blocks' = blocks
    BY <2>0, <2>5
  <2> QED BY <2>1, <2>2, <2>3, <2>4, <2>5 DEF Next, mallocx, reallocx, Turn, Enter,
                      Advance, Split, Astray, Grow, GrowInPlace
<1> QED BY <1>1, Invariant, PTL DEF Spec, GivesOutWhole

-----------------------------------------------------------------------------
(* Calls that all ask for the same size.                                   *)

(* Where the search looks, by the number of blocks returned.               *)
LEMMA SearchedNode ==
  ASSUME SInv, Sequence, Uniform, Steers, NEW n \in Nodes, n = Candidate(currentNode)
  PROVE  /\ Stage /\ size = Common /\ size \in Powers /\ size < PAGE_SIZE
         /\ pc = "search" /\ pc # "buddy" /\ freeList # NULL
         /\ \/ Len(blocks) = 0 /\ n = 0
            \/ Len(blocks) = 1 /\ n = Half
            \/ Len(blocks) >= 2 /\ n = PAGE_SIZE /\ PAGE_SIZE \in Pages
<1>1. /\ pc = "search" /\ pc # "buddy" /\ node[currentNode].left # WILD
      /\ \/ /\ n = currentNode
            /\ node[currentNode].status = "unused" \/ node[currentNode].next = NULL
         \/ /\ currentNode \in Pages
            /\ node[currentNode].left = currentNode
            /\ node[currentNode].status = "allocated"
            /\ n = currentNode + Half
            /\ node[currentNode + Half].status = "unused"
         \/ /\ node[currentNode].status = "allocated"
            /\ node[currentNode].next # NULL
            /\ n = node[currentNode].next
            /\ n \in Pages
  BY CandidateCases DEF Steers
<1>2. size = Common /\ size \in Powers /\ size < PAGE_SIZE /\ freeList # NULL /\ Stage
  BY <1>1 DEF Sequence, Uniform, SInv, Sizes
<1>3. /\ Len(blocks) \in Nat /\ 0 \in Pages /\ 0 + PAGE_SIZE = PAGE_SIZE /\ 0 + Half = Half
      /\ PAGE_SIZE \in Nodes => PAGE_SIZE \in Pages
      /\ PAGE_SIZE # NULL /\ 0 # NULL
  BY NodeFacts, PageFacts, Constants DEF SInv, Typed
<1>4. CASE Len(blocks) = 0
  <2>1. currentNode = 0 /\ node[0].status = "unused"
    BY <1>1, <1>2, <1>4 DEF Stage, Fresh
  <2> QED BY <1>1, <1>2, <1>4, <2>1
<1>5. CASE Len(blocks) >= 1 /\ currentNode = 0
  <2>1. /\ node[0].status = "allocated" /\ node[0].left = 0 /\ node[0].next = PAGE_SIZE
    BY <1>2, <1>3, <1>5 DEF Stage, Taken
  <2>2. node[0].right = Half
    BY <1>1, <1>3, <2>1 DEF SInv, Shape, PageOK
  <2>3. CASE Len(blocks) = 1
    <3>1. node[Half].status = "unused"
      BY <1>2, <2>3 DEF Stage
    <3>2. n = Half
      BY <1>3, <1>5, <2>1, <2>2, <3>1 DEF Candidate
    <3> QED BY <1>1, <1>2, <2>3, <3>2
  <2>4. CASE Len(blocks) >= 2
    <3>1. node[Half].status = "allocated"
      BY <1>2, <2>4 DEF Stage
    <3>2. n = PAGE_SIZE
      BY <1>3, <1>5, <2>1, <2>2, <3>1 DEF Candidate
    <3> QED BY <1>1, <1>2, <1>3, <2>4, <3>2
  <2>5. Len(blocks) = 1 \/ Len(blocks) >= 2
    <3>1. PICK l \in Nat : l = Len(blocks)
      BY <1>3
    <3> QED BY <1>5, <3>1
  <2> QED BY <2>3, <2>4, <2>5
<1>6. CASE Len(blocks) >= 1 /\ currentNode # 0
  <2>1. Len(blocks) = 2 /\ currentNode = PAGE_SIZE
    BY <1>1, <1>2, <1>6 DEF Stage
  <2>2. PAGE_SIZE \in Pages
    BY <1>3, <2>1 DEF SInv, Typed
  <2>3. node[currentNode].status = "unused"
    BY <1>2, <2>1, <2>2 DEF Stage, Fresh
  <2> QED BY <1>1, <1>2, <2>1, <2>2, <2>3
<1> QED BY <1>3, <1>4, <1>5, <1>6

(* A page whose headers do not change.                                     *)
LEMMA SamePage ==
  ASSUME NEW p \in Pages, node'[p] = node[p], node'[p + Half] = node[p + Half],
         Common' = Common
  PROVE  (Fresh(p) => Fresh(p)') /\ (Taken(p) => Taken(p)')
BY DEF Fresh, Taken

LEMMA CommonSame ==
  ASSUME blocks' = blocks, blocks # <<>> \/ size' = size
  PROVE  Common' = Common
BY DEF Common

(* The first pages and their halves lie apart.                             *)
LEMMA FirstPages ==
  /\ 0 \in Pages /\ 0 \in Nodes /\ Half \in Nodes /\ Half \notin Pages
  /\ 0 + Half = Half /\ 0 + PAGE_SIZE = PAGE_SIZE /\ Half # 0 /\ PAGE_SIZE # 0
  /\ PAGE_SIZE # Half /\ PAGE_SIZE + Half # 0 /\ PAGE_SIZE + Half # Half
  /\ PAGE_SIZE + Half # PAGE_SIZE
  /\ PAGE_SIZE \in Pages => PAGE_SIZE \in Nodes /\ PAGE_SIZE + Half \in Nodes
<1>1. 0 \in Pages /\ Half \in Nat /\ Half > 0 /\ PAGE_SIZE = 2 * Half
  BY NodeFacts, Constants
<1>2. 0 + Half = Half /\ 0 + PAGE_SIZE = PAGE_SIZE
  BY <1>1
<1>3. 0 + Half \in Nodes /\ 0 + Half \notin Pages /\ 0 \in Nodes
  BY <1>1, PageFacts
<1>4. PAGE_SIZE \in Pages => PAGE_SIZE \in Nodes /\ PAGE_SIZE + Half \in Nodes
  BY PageFacts
<1> QED BY <1>1, <1>2, <1>3, <1>4

LEMMA EnterSequence ==
  ASSUME SInv, Sequence, NEW request \in Requests, Enter(request)
  PROVE  Sequence'
<1>1. /\ pc' = "search" /\ freeList' = 0 /\ currentNode' = 0 /\ blocks' = blocks
      /\ node' = IF freeList = NULL THEN initNodes ELSE node
      /\ pc \in {"idle", "grow"} /\ mutex = 0 /\ 0 # NULL
  BY Constants DEF Enter
<1>2. pc = "idle"
  BY <1>1 DEF SInv, Locked
<1> SUFFICES ASSUME Uniform' PROVE Stage'
  BY <1>1 DEF Sequence
<1>3. CASE freeList = NULL
  <2>1. node' = initNodes /\ blocks' = <<>> /\ Len(blocks') = 0
    BY <1>1, <1>3 DEF Sequence
  <2>2. ASSUME NEW p \in Pages PROVE Fresh(p)'
    <3>0. p \in Nodes /\ p + Half \in Nodes \ Pages /\ p \in Nat /\ PAGE_SIZE # 0
      BY PageFacts, NodeFacts, Constants
    <3>1. node'[p + Half].status = "unused"
      <4>1. node'[p + Half] = ZeroNode
        BY <2>1, <3>0, InitNodesShape
      <4> QED BY <4>1 DEF ZeroNode
    <3>2. CASE p < LastPage
      <4>1. node'[p] = [ZeroNode EXCEPT !.next = p + PAGE_SIZE, !.size = PAGE_SIZE,
                                        !.childSize = Half]
        BY <2>1, <3>0, <3>2, InitNodesShape
      <4>2. /\ node'[p].next = p + PAGE_SIZE /\ node'[p].size = PAGE_SIZE
            /\ node'[p].status = "unused"
        BY <4>1 DEF ZeroNode
      <4>3. Common' <= PAGE_SIZE /\ PAGE_SIZE \in Powers
        <5>1. Common' = size' /\ size' < PAGE_SIZE
          BY <2>1 DEF Uniform, Common
        <5>2. size' \in Nat
          <6>1. request + HEAD \in Nat /\ request + HEAD <= 2 ^ 20
            BY HeapAssumption, Constants DEF HeapAssumption
          <6> QED BY <6>1, RoundedUp, PowersPositive DEF Enter
        <5> QED BY <5>1, <5>2, Constants
      <4> QED BY <3>1, <4>2, <4>3 DEF Fresh
    <3>3. CASE ~ (p < LastPage)
      <4>1. node'[p] = ZeroNode
        BY <2>1, <3>0, <3>3, InitNodesShape
      <4> QED BY <4>1 DEF Fresh, ZeroNode
    <3> QED BY <3>2, <3>3
  <2>3. Fresh(0)' /\ (PAGE_SIZE \in Pages => Fresh(PAGE_SIZE)')
    BY <2>2, FirstPages
  <2> QED BY <1>1, <2>1, <2>3 DEF Stage
<1>4. CASE freeList # NULL
  <2>1. node' = node /\ blocks # <<>> /\ Common' = Common
    BY <1>1, <1>2, <1>4, CommonSame DEF Sequence
  <2>2. Uniform
    BY <1>1, <1>2, <2>1 DEF Uniform
  <2>3. Stage
    BY <1>2, <1>4, <2>2 DEF Sequence
  <2>4. /\ Fresh(0) => Fresh(0)'
        /\ Taken(0) => Taken(0)'
        /\ Fresh(PAGE_SIZE) => Fresh(PAGE_SIZE)'
        /\ Taken(PAGE_SIZE) => Taken(PAGE_SIZE)'
    BY <2>1 DEF Fresh, Taken
  <2> QED BY <1>1, <2>1, <2>3, <2>4 DEF Stage
<1> QED BY <1>3, <1>4

LEMMA AdvanceSequence ==
  ASSUME SInv, Sequence, Advance
  PROVE  Sequence'
<1>1. PICK n \in Nodes : n = Candidate(currentNode)
  BY CandidateCases DEF Advance
<1>2. /\ Steers /\ currentNode' = IF node[n].next # NULL THEN node[n].next ELSE n
      /\ UNCHANGED <<pc, freeList, node, size, mutex, blocks, frees>>
      /\ node[n].size # size
      /\ node[n].status = "allocated" \/ size > node[n].size
  BY <1>1 DEF Advance
<1> SUFFICES ASSUME Uniform' PROVE Stage'
  BY <1>2 DEF Sequence
<1>3. Common' = Common /\ Uniform
  BY <1>2, CommonSame DEF Uniform
<1>4. /\ Stage /\ size = Common /\ size \in Nat /\ size < PAGE_SIZE /\ pc = "search"
      /\ node[n].size \in Nat /\ Len(blocks) \in Nat
      /\ \/ Len(blocks) = 0 /\ n = 0
         \/ Len(blocks) = 1 /\ n = Half
         \/ Len(blocks) >= 2 /\ n = PAGE_SIZE /\ PAGE_SIZE \in Pages
  BY <1>1, <1>2, <1>3, SearchedNode, HeaderAt DEF SInv, Typed
<1>5. (Fresh(n) \/ Taken(n)) => node[n].next = NULL
  <2>1. Fresh(n) => node[n].next = NULL
    <3> SUFFICES ASSUME Fresh(n), size <= node[n].size PROVE FALSE
      BY <1>4 DEF Fresh
    <3>1. node[n].status # "allocated"
      BY DEF Fresh
    <3> QED BY <1>2, <1>4, <3>1
  <2>2. ~ Taken(n)
    BY <1>2, <1>4 DEF Taken
  <2> QED BY <2>1, <2>2
<1>6. CASE Len(blocks) = 0 /\ n = 0
  <2>1. currentNode' = 0
    BY <1>2, <1>4, <1>5, <1>6 DEF Stage
  <2> QED BY <1>2, <1>3, <1>4, <2>1 DEF Stage, Fresh, Taken
<1>7. CASE Len(blocks) = 1 /\ n = Half
  BY <1>2, <1>4, <1>7 DEF Stage
<1>8. CASE Len(blocks) >= 2 /\ n = PAGE_SIZE /\ PAGE_SIZE \in Pages
  <2>1. Len(blocks) = 2
    <3>1. ~ (Len(blocks) >= 3)
      BY <1>2, <1>4, <1>8 DEF Stage, Taken
    <3>2. PICK l \in Nat : l = Len(blocks)
      BY <1>4
    <3> QED BY <1>8, <3>1, <3>2
  <2>2. currentNode' = PAGE_SIZE
    BY <1>2, <1>4, <1>5, <1>8, <2>1 DEF Stage
  <2> QED BY <1>2, <1>3, <1>4, <2>1, <2>2 DEF Stage, Fresh, Taken
<1> QED BY <1>4, <1>6, <1>7, <1>8

(* The page that is split is Fresh, and so it remains.                     *)
LEMMA SplitSequence ==
  ASSUME SInv, Sequence, Split
  PROVE  Sequence'
<1>1. PICK n, r \in Nodes :
           /\ n = Candidate(currentNode) /\ currentNode' = n
           /\ pc = "search" /\ size \in Powers
           /\ node[n].status = "unused" /\ size < node[n].size
           /\ IF n \in Pages THEN r = n + Half /\ r \notin Pages ELSE r = n
           /\ node' \in [Nodes -> Header]
           /\ \A q \in Nodes : q # n /\ q # r => node'[q] = node[q]
           /\ node'[n].left = n /\ node'[n].right = r /\ node'[n].next = node[n].next
           /\ node'[n].size = node[n].size \div 2 /\ node'[n].size \in Nat
           /\ node'[n].status = "unused" /\ node'[n].childSize = node[n].childSize
           /\ node'[r].size = node[n].size \div 2 /\ node'[r].next = node[n].next
           /\ node'[r].status = node[r].status /\ node'[r].childSize = node[r].childSize
           /\ r # n => node'[r].left = node[r].left /\ node'[r].right = node[r].right
  BY SplitHeaders
<1>2. UNCHANGED <<pc, freeList, size, mutex, blocks, frees>> /\ Steers
  BY DEF Split
<1> SUFFICES ASSUME Uniform' PROVE Stage'
  BY <1>2 DEF Sequence
<1>3. Common' = Common /\ Uniform
  BY <1>2, CommonSame DEF Uniform
<1>4. /\ Stage /\ size = Common /\ size \in Nat /\ size > 0 /\ size < PAGE_SIZE
      /\ node[n].size \in Nat /\ Len(blocks) \in Nat
      /\ \/ Len(blocks) = 0 /\ n = 0
         \/ Len(blocks) = 1 /\ n = Half
         \/ Len(blocks) >= 2 /\ n = PAGE_SIZE /\ PAGE_SIZE \in Pages
  BY <1>1, <1>2, <1>3, SearchedNode, HeaderAt, PowersPositive DEF SInv, Typed
<1>5. ~ Taken(n) /\ (n \in Pages /\ Fresh(n) => Fresh(n)')
  <2>1. ~ Taken(n)
    BY <1>1, <1>4 DEF Taken
  <2> SUFFICES ASSUME n \in Pages, Fresh(n) PROVE Fresh(n)'
    BY <2>1
  <2>2. /\ node[n].size \in Powers /\ node[n].next = n + PAGE_SIZE
        /\ node[n + Half].status = "unused"
    BY <1>1, <1>4 DEF Fresh
  <2>3. node[n].size \div 2 \in Powers /\ size <= node[n].size \div 2
    BY <1>1, <2>2, LargerPower
  <2>4. r = n + Half
    BY <1>1
  <2> QED BY <1>1, <1>3, <1>4, <2>2, <2>3, <2>4 DEF Fresh
<1>6. CASE Len(blocks) = 0 /\ n = 0
  <2>1. r = Half
    BY <1>1, <1>6, FirstPages
  <2>2. PAGE_SIZE \in Pages /\ Fresh(PAGE_SIZE) => Fresh(PAGE_SIZE)'
    BY <1>1, <1>3, <1>6, <2>1, FirstPages, SamePage
  <2>3. Fresh(0)'
    BY <1>4, <1>5, <1>6, FirstPages DEF Stage
  <2> QED BY <1>1, <1>2, <1>4, <1>6, <2>2, <2>3 DEF Stage
<1>7. CASE Len(blocks) = 1 /\ n = Half
  BY <1>1, <1>4, <1>7 DEF Stage
<1>8. CASE Len(blocks) >= 2 /\ n = PAGE_SIZE /\ PAGE_SIZE \in Pages
  <2>1. Len(blocks) = 2
    <3>1. ~ (Len(blocks) >= 3)
      BY <1>4, <1>5, <1>8 DEF Stage
    <3>2. PICK l \in Nat : l = Len(blocks)
      BY <1>4
    <3> QED BY <1>8, <3>1, <3>2
  <2>2. r = PAGE_SIZE + Half
    BY <1>1, <1>8
  <2>3. node'[0] = node[0] /\ node'[Half] = node[Half]
    BY <1>1, <1>8, <2>2, FirstPages
  <2>4. Taken(0)'
    BY <1>3, <1>4, <2>1, <2>3, FirstPages, SamePage DEF Stage
  <2>5. Fresh(PAGE_SIZE)'
    BY <1>4, <1>5, <1>8, <2>1 DEF Stage
  <2> QED BY <1>1, <1>2, <1>4, <1>8, <2>1, <2>3, <2>4, <2>5 DEF Stage
<1> QED BY <1>4, <1>6, <1>7, <1>8

(* The block returned is the first half of the first page, then its second *)
(* half, then the first half of the second page, again and again.          *)
LEMMA MatchStage ==
  ASSUME SInv, Sequence, Uniform, Match, NEW n \in Nodes, n = Candidate(currentNode),
         Common' = Common
  PROVE  /\ Stage' /\ n = CASE Len(blocks') = 1 -> 0 [] Len(blocks') = 2 -> Half
                              [] OTHER -> PAGE_SIZE
<1>1. /\ Steers /\ Return(n) /\ node[n].size = size
      /\ node' = [node EXCEPT ![n].status = "allocated"]
  BY DEF Match
<1>2. /\ Stage /\ size = Common /\ size \in Nat /\ size > 0 /\ size < PAGE_SIZE
      /\ pc = "search" /\ Len(blocks) \in Nat
      /\ \/ Len(blocks) = 0 /\ n = 0
         \/ Len(blocks) = 1 /\ n = Half
         \/ Len(blocks) >= 2 /\ n = PAGE_SIZE /\ PAGE_SIZE \in Pages
  BY <1>1, SearchedNode, PowersPositive DEF SInv, Typed
<1>3. Len(blocks') = Len(blocks) + 1 /\ pc' = "idle"
  BY <1>1, <1>2, ReturnStep
<1>4. ASSUME NEW q \in Nodes
      PROVE  /\ node'[q].next = node[q].next /\ node'[q].left = node[q].left
             /\ node'[q].size = node[q].size
             /\ q # n => node'[q] = node[q]
             /\ q = n => node'[q].status = "allocated"
  <2>1. node \in [Nodes -> Header] /\ node[q] \in Header
    BY HeaderAt DEF SInv
  <2> QED BY <1>1, <2>1 DEF Header
<1>5. ASSUME n \in Pages, Fresh(n)
      PROVE  /\ Taken(n)'
             /\ node[n + Half].status = "unused" /\ node[n + Half].size = Common
  <2>1. /\ node[n].next = n + PAGE_SIZE /\ node[n].left = n
        /\ node[n + Half].status = "unused" /\ node[n + Half].size = Common
    BY <1>1, <1>2, <1>5 DEF Fresh
  <2> QED BY <1>1, <1>2, <1>4, <2>1 DEF Taken
<1>6. CASE Len(blocks) = 0 /\ n = 0
  <2>1. Taken(0)' /\ node[Half].status = "unused" /\ node[Half].size = Common
    BY <1>2, <1>5, <1>6, FirstPages DEF Stage
  <2>2. node'[Half] = node[Half]
    BY <1>4, <1>6, FirstPages
  <2>3. PAGE_SIZE \in Pages => Fresh(PAGE_SIZE)'
    <3> SUFFICES ASSUME PAGE_SIZE \in Pages PROVE Fresh(PAGE_SIZE)'
      OBVIOUS
    <3>1. node'[PAGE_SIZE] = node[PAGE_SIZE] /\ node'[PAGE_SIZE + Half] = node[PAGE_SIZE + Half]
      BY <1>4, <1>6, FirstPages
    <3>2. Fresh(PAGE_SIZE)
      BY <1>2, <1>6 DEF Stage
    <3> QED BY <3>1, <3>2, SamePage
  <2>4. Len(blocks') = 1
    BY <1>3, <1>6
  <2>5. Stage'
    <3>1. PICK l \in Nat : l = Len(blocks') /\ l = 1
      BY <2>4
    <3>2. ~ (l = 0) /\ ~ (l = 2) /\ ~ (l >= 3) /\ pc' # "search"
      BY <1>3, <3>1
    <3> QED BY <2>1, <2>2, <2>3, <3>1, <3>2 DEF Stage
  <2> QED BY <1>6, <2>4, <2>5
<1>7. CASE Len(blocks) = 1 /\ n = Half
  <2>1. Taken(0)'
    <3>1. node'[0] = node[0] /\ Taken(0)
      BY <1>2, <1>4, <1>7, FirstPages DEF Stage
    <3> QED BY <3>1 DEF Taken
  <2>2. node'[Half].status = "allocated"
    BY <1>4, <1>7
  <2>3. PAGE_SIZE \in Pages => Fresh(PAGE_SIZE)'
    <3> SUFFICES ASSUME PAGE_SIZE \in Pages PROVE Fresh(PAGE_SIZE)'
      OBVIOUS
    <3>1. node'[PAGE_SIZE] = node[PAGE_SIZE] /\ node'[PAGE_SIZE + Half] = node[PAGE_SIZE + Half]
      BY <1>4, <1>7, FirstPages
    <3>2. Fresh(PAGE_SIZE)
      BY <1>2, <1>7 DEF Stage
    <3> QED BY <3>1, <3>2, SamePage
  <2>4. Len(blocks') = 2
    BY <1>3, <1>7
  <2>5. Stage'
    <3>1. PICK l \in Nat : l = Len(blocks') /\ l = 2
      BY <2>4
    <3>2. ~ (l = 0) /\ ~ (l = 1) /\ ~ (l >= 3) /\ pc' # "search"
      BY <1>3, <3>1
    <3> QED BY <2>1, <2>2, <2>3, <3>1, <3>2 DEF Stage
  <2> QED BY <1>7, <2>4, <2>5
<1>8. CASE Len(blocks) >= 2 /\ n = PAGE_SIZE /\ PAGE_SIZE \in Pages
  <2>1. Taken(0)' /\ node'[Half].status = "allocated"
    <3>1. /\ node'[0] = node[0] /\ node'[Half] = node[Half]
          /\ Taken(0) /\ node[Half].status = "allocated"
      BY <1>2, <1>4, <1>8, FirstPages DEF Stage
    <3> QED BY <3>1 DEF Taken
  <2>2. Taken(PAGE_SIZE)'
    <3>1. CASE Len(blocks) = 2
      BY <1>2, <1>5, <1>8, <3>1 DEF Stage
    <3>2. CASE Len(blocks) >= 3
      BY <1>2, <1>4, <1>8, <3>2 DEF Stage, Taken
    <3>3. Len(blocks) = 2 \/ Len(blocks) >= 3
      <4>1. PICK l \in Nat : l = Len(blocks)
        BY <1>2
      <4> QED BY <1>8, <4>1
    <3> QED BY <3>1, <3>2, <3>3
  <2>3. PICK l \in Nat : l = Len(blocks') /\ l >= 3
    <3>1. PICK k \in Nat : k = Len(blocks)
      BY <1>2
    <3>2. k + 1 = Len(blocks') /\ k + 1 \in Nat /\ k + 1 >= 3
      BY <1>3, <1>8, <3>1
    <3> QED BY <3>2
  <2>4. Stage'
    BY <1>3, <2>1, <2>2, <2>3 DEF Stage
  <2> QED BY <1>8, <2>3, <2>4
<1> QED BY <1>2, <1>6, <1>7, <1>8

(* The blocks after one more.                                              *)
LEMMA Appended ==
  ASSUME SInv, pc = "search", NEW n \in Nodes \cup {NULL}, Return(n)
  PROVE  /\ Common' = Common
         /\ \E l \in Nat :
              /\ l = Len(blocks) /\ l + 1 = Len(blocks')
              /\ DOMAIN blocks = 1 .. l /\ DOMAIN blocks' = 1 .. l + 1
              /\ \A i \in 1 .. l : blocks'[i] = blocks[i]
              /\ blocks'[l + 1].at = n /\ blocks'[l + 1].size = size
              /\ blocks'[l + 1].held <=> n # NULL
<1> DEFINE S == [at : Nodes \cup {NULL}, size : Nat, held : BOOLEAN]
<1>0. PICK b : b = [at |-> n, size |-> size, held |-> n # NULL]
  OBVIOUS
<1>1. b.at = n /\ b.size = size /\ b.held = (n # NULL)
  BY <1>0
<1>2. blocks \in Seq(S)
  BY DEF SInv, Typed
<1>3. blocks' = Append(blocks, b)
  BY <1>0 DEF Return
<1> HIDE DEF S
<1>4. PICK l \in Nat : /\ l = Len(blocks) /\ DOMAIN blocks = 1 .. l
                       /\ l + 1 = Len(blocks') /\ DOMAIN blocks' = 1 .. l + 1
                       /\ blocks'[l + 1] = b
                       /\ \A i \in 1 .. l : blocks'[i] = blocks[i]
  BY <1>2, <1>3
<1>5. Common' = Common
  <2>1. CASE blocks = <<>>
    <3>1. l = 0
      BY <1>4, <2>1
    <3>2. blocks' # <<>> /\ blocks'[1] = b
      BY <1>4, <3>1
    <3> QED BY <1>1, <2>1, <3>2 DEF Common
  <2>2. CASE blocks # <<>>
    <3>1. l # 0
      BY <1>2, <1>4, <2>2
    <3>2. blocks' # <<>> /\ blocks'[1] = blocks[1]
      BY <1>4, <3>1
    <3> QED BY <2>2, <3>2 DEF Common
  <2> QED BY <2>1, <2>2
<1> QED BY <1>1, <1>4, <1>5

(* A call that returns while the sizes agree has found a block.            *)
LEMMA ReturnSequence ==
  ASSUME SInv, Sequence, Refuse \/ coalesceBlocks \/ Match,
         \A j \in 1 .. Len(blocks') : blocks'[j].held /\ blocks'[j].size = blocks'[1].size,
         blocks'[1].size < PAGE_SIZE
  PROVE  /\ Stage'
         /\ blocks'[Len(blocks')].at = CASE Len(blocks') = 1 -> 0
                                         [] Len(blocks') = 2 -> Half
                                         [] OTHER -> PAGE_SIZE
<1>1. PICK n \in Nodes \cup {NULL} :
        /\ Return(n) /\ pc = "search"
        /\ n = NULL \/ size > PAGE_SIZE \/ (Match /\ n = Candidate(currentNode) /\ n \in Nodes)
  <2>1. CASE Refuse
    BY <2>1 DEF Refuse, MayCoalesce
  <2>2. CASE coalesceBlocks
    BY <2>2, CoalescedBlock, NodeFacts
  <2>3. CASE Match
    BY <2>3, CandidateCases DEF Match
  <2> QED BY <2>1, <2>2, <2>3
<1>2. PICK l \in Nat :
              /\ l = Len(blocks) /\ l + 1 = Len(blocks')
              /\ DOMAIN blocks = 1 .. l
              /\ \A i \in 1 .. l : blocks'[i] = blocks[i]
              /\ blocks'[l + 1].at = n /\ blocks'[l + 1].size = size
              /\ blocks'[l + 1].held <=> n # NULL
  BY <1>1, Appended
<1>3. Common' = Common /\ Common' = blocks'[1].size
  <2>1. Common' = Common
    BY <1>1, Appended
  <2>2. blocks' # <<>>
    BY <1>2
  <2> QED BY <2>1, <2>2 DEF Common
<1>4. \A j \in 1 .. l + 1 : blocks'[j].held /\ blocks'[j].size = Common
  BY <1>2, <1>3
<1>5. l + 1 \in 1 .. l + 1 /\ \A j \in 1 .. l : j \in 1 .. l + 1
  OBVIOUS
<1>6. size = Common /\ n # NULL
  BY <1>2, <1>4, <1>5
<1>7. size \in Nat /\ PAGE_SIZE \in Nat /\ Common < PAGE_SIZE
  BY <1>3, Constants DEF SInv, Typed
<1>8. Match /\ n = Candidate(currentNode) /\ n \in Nodes
  BY <1>1, <1>6, <1>7
<1>9. Uniform
  BY <1>2, <1>4, <1>5, <1>6, <1>7 DEF Uniform
<1>10. Stage' /\ n = CASE Len(blocks') = 1 -> 0 [] Len(blocks') = 2 -> Half
                       [] OTHER -> PAGE_SIZE
  BY <1>3, <1>8, <1>9, MatchStage
<1> QED BY <1>2, <1>10

LEMMA SequenceNext == SInv /\ Sequence /\ [Next]_vars => Sequence'
<1> SUFFICES ASSUME SInv, Sequence, [Next]_vars PROVE Sequence'
  OBVIOUS
<1>1. CASE UNCHANGED vars
  BY <1>1 DEF vars, Sequence, Uniform, Common, Stage, Fresh, Taken
<1>2. ASSUME NEW request \in Requests, Enter(request) PROVE Sequence'
  BY <1>2, EnterSequence
<1>3. CASE Refuse \/ coalesceBlocks \/ Match
  <2>1. PICK n \in Nodes \cup {NULL} : Return(n) /\ pc = "search"
    <3>1. CASE Refuse
      BY <3>1 DEF Refuse, MayCoalesce
    <3>2. CASE coalesceBlocks
      BY <3>2, CoalescedBlock, NodeFacts
    <3>3. CASE Match
      BY <3>3, CandidateCases DEF Match
    <3> QED BY <1>3, <3>1, <3>2, <3>3
  <2>2. PICK l \in Nat : l + 1 = Len(blocks') /\ DOMAIN blocks' = 1 .. l + 1
    BY <2>1, Appended
  <2>3. blocks' # <<>> /\ pc' = "idle" /\ freeList' = freeList /\ freeList # NULL
    BY <2>1, <2>2 DEF Return, Sequence
  <2> SUFFICES ASSUME Uniform' PROVE Stage'
    BY <2>3 DEF Sequence
  <2>4. /\ \A j \in 1 .. Len(blocks') : blocks'[j].held /\ blocks'[j].size = blocks'[1].size
        /\ blocks'[1].size < PAGE_SIZE
    BY <2>2, <2>3 DEF Uniform, Common
  <2> QED BY <1>3, <2>4, ReturnSequence
<1>4. CASE Advance
  BY <1>4, AdvanceSequence
<1>5. CASE Split
  BY <1>5, SplitSequence
<1>6. ASSUME pc' \notin {"idle", "search"}, UNCHANGED <<freeList, blocks>> PROVE Sequence'
  BY <1>6 DEF Sequence
<1>7. ASSUME NEW i \in DOMAIN blocks, freex(i) \/ freexBuddy(i) PROVE Sequence'
  <2>1. /\ DOMAIN blocks' = DOMAIN blocks /\ ~ blocks'[i].held
        /\ pc' \in {"idle", "buddy"} /\ freeList' = freeList
    BY <1>7, HeldLess DEF freex, freexBuddy, Frees, SInv
  <2>2. blocks # <<>> /\ blocks' # <<>>
    BY <2>1
  <2>3. ~ Uniform'
    BY <2>1 DEF Uniform
  <2> QED BY <2>1, <2>2, <2>3 DEF Sequence
<1> QED BY <1>1, <1>2, <1>3, <1>4, <1>5, <1>6, <1>7
        DEF Next, mallocx, reallocx, Turn, Astray, Grow, GrowInPlace

(* As long as every call asks for the same size and nothing is given back, *)
(* the third call and every later one return the same block.               *)
THEOREM SameSizeReturns == Spec => []SameSizeSequence
<1>1. Init => Sequence /\ SameSizeSequence
  BY DEF Init, Sequence, SameSizeSequence
<1>2. SInv /\ Sequence /\ SameSizeSequence /\ [Next]_vars => SameSizeSequence'
  <2> SUFFICES ASSUME SInv, Sequence, SameSizeSequence, [Next]_vars,
                      NEW i \in DOMAIN blocks',
                      \A j \in 1 .. i : blocks'[j].held /\ blocks'[j].size = blocks'[1].size,
                      blocks'[1].size < PAGE_SIZE
               PROVE  blocks'[i].at = CASE i = 1 -> 0 [] i = 2 -> Half [] OTHER -> PAGE_SIZE
    BY DEF SameSizeSequence
  <2>0. PICK l \in Nat : l = Len(blocks) /\ DOMAIN blocks = 1 .. l
    BY DEF SInv, Typed
  <2>1. ASSUME i \in DOMAIN blocks, \A j \in 1 .. i : blocks'[j].held => blocks'[j] = blocks[j]
        PROVE  blocks'[i].at = CASE i = 1 -> 0 [] i = 2 -> Half [] OTHER -> PAGE_SIZE
    <3>1. 1 \in 1 .. i /\ i \in 1 .. i
      BY <2>0, <2>1
    <3> QED BY <2>1, <3>1 DEF SameSizeSequence
  <2>2. CASE blocks' = blocks
    BY <2>1, <2>2
  <2>3. ASSUME NEW k \in DOMAIN blocks, freex(k) \/ freexBuddy(k)
        PROVE  blocks'[i].at = CASE i = 1 -> 0 [] i = 2 -> Half [] OTHER -> PAGE_SIZE
    <3>1. /\ DOMAIN blocks' = DOMAIN blocks /\ ~ blocks'[k].held
          /\ \A j \in DOMAIN blocks : j # k => blocks'[j] = blocks[j]
      BY <2>3, HeldLess DEF freex, freexBuddy, Frees, SInv
    <3>2. \A j \in 1 .. i : j \in DOMAIN blocks
      BY <2>0, <3>1
    <3> QED BY <2>1, <3>1, <3>2
  <2>4. CASE Refuse \/ coalesceBlocks \/ Match
    <3>1. PICK n \in Nodes \cup {NULL} : Return(n) /\ pc = "search"
      <4>1. CASE Refuse
        BY <4>1 DEF Refuse, MayCoalesce
      <4>2. CASE coalesceBlocks
        BY <4>2, CoalescedBlock, NodeFacts
      <4>3. CASE Match
        BY <4>3, CandidateCases DEF Match
      <4> QED BY <2>4, <4>1, <4>2, <4>3
    <3>2. PICK k \in Nat :
                /\ k = Len(blocks) /\ k + 1 = Len(blocks')
                /\ DOMAIN blocks = 1 .. k /\ DOMAIN blocks' = 1 .. k + 1
                /\ \A j \in 1 .. k : blocks'[j] = blocks[j]
      BY <3>1, Appended
    <3>3. CASE i \in 1 .. k
      <4>1. \A j \in 1 .. i : j \in 1 .. k
        BY <3>3
      <4> QED BY <2>1, <3>2, <3>3, <4>1
    <3>4. CASE i = Len(blocks')
      BY <2>4, <3>4, ReturnSequence
    <3> QED BY <3>2, <3>3, <3>4
  <2> QED BY <2>2, <2>3, <2>4 DEF Next, vars, mallocx, reallocx, Turn, Enter, Advance, Split,
                                  Astray, Grow, GrowInPlace
<1> QED BY <1>1, <1>2, SInitStep, SNext, SequenceNext, PTL DEF Spec
=============================================================================
