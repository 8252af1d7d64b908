---------------------------- MODULE PagingProofs ----------------------------
(***************************************************************************)
(* Theorems about the page tables, for pages and tables of any size, every *)
(* size of the pool, every memory map and every set of devices that are    *)
(* InReach and Apart.  IInv is inductive; the invariants and the action    *)
(* properties of module Paging follow from it.                             *)
(***************************************************************************)
EXTENDS Paging, FiniteSetTheorems, SequenceTheorems, TLAPS

-----------------------------------------------------------------------------
(* Arithmetic of addresses: division rounds down.                          *)
LEMMA Sizes ==
  /\ Page \in Nat \ {0} /\ Fan \in Nat \ {0} /\ HugePage \in Nat \ {0}
  /\ PoolSize \in Nat \ {0} /\ PoolBase \in Nat
<1>1. Page \in Nat \ {0} /\ Fan \in Nat \ {0} /\ PoolSize \in Nat \ {0} /\ PoolBase \in Nat
  BY PagingAssumption
<1>2. Page * Fan \in Nat \ {0}
  BY <1>1
<1> QED BY <1>1, <1>2 DEF HugePage

LEMMA MulMono == ASSUME NEW a \in Nat, NEW b \in Nat, NEW c \in Nat, a <= b
  PROVE a * c <= b * c
OBVIOUS

LEMMA DivMod == ASSUME NEW a \in Nat, NEW d \in Nat \ {0}
  PROVE /\ a \div d \in Nat /\ a % d \in 0..(d - 1)
        /\ a = (a \div d) * d + (a % d)
OBVIOUS

LEMMA DivUnique == ASSUME NEW a \in Nat, NEW d \in Nat \ {0}, NEW q \in Nat,
                          q * d <= a, a < (q + 1) * d
  PROVE a \div d = q
<1> DEFINE p == a \div d
<1>1. p \in Nat /\ p * d <= a /\ a < (p + 1) * d
  <2>1. p \in Nat /\ a % d \in 0..(d - 1) /\ a = p * d + (a % d)
    BY DivMod
  <2>2. (p + 1) * d = p * d + d
    BY <2>1
  <2> QED BY <2>1, <2>2
<1> HIDE DEF p
<1>2. ~(p < q)
  <2> SUFFICES ASSUME p < q PROVE FALSE OBVIOUS
  <2>1. (p + 1) * d <= q * d
    BY <1>1, MulMono, p + 1 <= q
  <2> QED BY <2>1, <1>1
<1>3. ~(q < p)
  <2> SUFFICES ASSUME q < p PROVE FALSE OBVIOUS
  <2>1. (q + 1) * d <= p * d
    BY <1>1, MulMono, q + 1 <= p
  <2> QED BY <2>1, <1>1
<1> QED BY <1>1, <1>2, <1>3 DEF p

LEMMA DivDiv == ASSUME NEW a \in Nat, NEW m \in Nat \ {0}, NEW n \in Nat \ {0}
  PROVE a \div (m * n) = (a \div m) \div n
<1> DEFINE q == a \div m  s == q \div n
<1>1. q \in Nat /\ a % m \in 0..(m - 1) /\ a = q * m + (a % m)
  BY DivMod
<1>2. s \in Nat /\ q % n \in 0..(n - 1) /\ q = s * n + (q % n)
  BY <1>1, DivMod
<1> HIDE DEF q, s
<1>3. m * n \in Nat \ {0}
  OBVIOUS
<1>4. s * (m * n) <= a
  <2>1. (s * n) * m <= q * m
    BY <1>1, <1>2, MulMono, s * n <= q, s * n \in Nat
  <2> QED BY <2>1, <1>1, <1>2
<1>5. a < (s + 1) * (m * n)
  <2>1. (q + 1) * m <= (s * n + n) * m
    BY <1>1, <1>2, MulMono, q + 1 <= s * n + n, s * n + n \in Nat
  <2>2. (q + 1) * m = q * m + m
    BY <1>1
  <2>3. (s * n + n) * m = (s + 1) * (m * n)
    BY <1>2
  <2>4. a < (q + 1) * m
    BY <1>1, <2>2
  <2>5. (q + 1) * m \in Nat /\ (s + 1) * (m * n) \in Nat
    BY <1>1, <1>2, <1>3
  <2>6. (q + 1) * m <= (s + 1) * (m * n)
    BY <2>1, <2>3
  <2> QED BY <2>4, <2>5, <2>6
<1> QED BY <1>3, <1>4, <1>5, <1>2, DivUnique DEF q, s

LEMMA Split == ASSUME NEW a \in Nat, NEW m \in Nat \ {0}
  PROVE /\ a \div m \in Nat
        /\ (a \div m) % Fan \in 0..(Fan - 1)
        /\ a \div m = (a \div (m * Fan)) * Fan + ((a \div m) % Fan)
BY DivMod, DivDiv, Sizes

LEMMA DivBelow == ASSUME NEW a \in Nat, NEW d \in Nat \ {0}, NEW k \in Nat, a < d * k
  PROVE a \div d < k
<1> DEFINE q == a \div d
<1>1. q \in Nat /\ a % d \in 0..(d - 1) /\ a = q * d + (a % d)
  BY DivMod
<1> HIDE DEF q
<1>2. ~(k <= q)
  <2> SUFFICES ASSUME k <= q PROVE FALSE OBVIOUS
  <2>1. k * d <= q * d
    BY <1>1, MulMono
  <2> QED BY <2>1, <1>1
<1> QED BY <1>1, <1>2 DEF q

LEMMA DivMono == ASSUME NEW a \in Nat, NEW b \in Nat, NEW d \in Nat \ {0}, a <= b
  PROVE a \div d <= b \div d
<1> DEFINE p == a \div d  q == b \div d
<1>1. p \in Nat /\ a % d \in 0..(d - 1) /\ a = p * d + (a % d)
  BY DivMod
<1>2. q \in Nat /\ b % d \in 0..(d - 1) /\ b = q * d + (b % d)
  BY DivMod
<1> HIDE DEF p, q
<1>3. ~(q < p)
  <2> SUFFICES ASSUME q < p PROVE FALSE OBVIOUS
  <2>1. (q + 1) * d <= p * d
    BY <1>1, <1>2, MulMono, q + 1 <= p
  <2>2. (q + 1) * d = q * d + d
    BY <1>2
  <2>3. b < q * d + d /\ p * d <= a
    BY <1>1, <1>2
  <2> QED BY <2>1, <2>2, <2>3, <1>1, <1>2
<1> QED BY <1>1, <1>2, <1>3 DEF p, q

LEMMA DivNext == ASSUME NEW a \in Nat, NEW d \in Nat \ {0}
  PROVE (a + d) \div d = a \div d + 1
<1> DEFINE p == a \div d
<1>1. p \in Nat /\ a % d \in 0..(d - 1) /\ a = p * d + (a % d)
  BY DivMod
<1> HIDE DEF p
<1>2. (p + 1) * d = p * d + d /\ (p + 1 + 1) * d = p * d + d + d
  BY <1>1
<1>3. (p + 1) * d <= a + d /\ a + d < (p + 1 + 1) * d
  BY <1>1, <1>2
<1>4. (a + d) \div d = p + 1
  BY <1>1, <1>3, DivUnique, a + d \in Nat, p + 1 \in Nat
<1> QED BY <1>4 DEF p

LEMMA DivExact == ASSUME NEW q \in Nat, NEW d \in Nat \ {0}
  PROVE (q * d) \div d = q
<1>1. q * d \in Nat /\ (q + 1) * d = q * d + d
  OBVIOUS
<1>2. q * d < (q + 1) * d
  BY <1>1
<1> QED BY <1>1, <1>2, DivUnique

LEMMA Levels == ASSUME NEW a \in 0..(Reach - 1)
  PROVE /\ pml4_idx(a) \in 0..(Fan - 1) /\ pdpt_idx(a) \in 0..(Fan - 1)
        /\ pd_idx(a) \in 0..(Fan - 1) /\ pt_idx(a) \in 0..(Fan - 1)
        /\ a \div (HugePage * Fan * Fan) = pml4_idx(a)
        /\ a \div (HugePage * Fan) = pml4_idx(a) * Fan + pdpt_idx(a)
        /\ a \div HugePage = (pml4_idx(a) * Fan + pdpt_idx(a)) * Fan + pd_idx(a)
        /\ a \div Page = (a \div HugePage) * Fan + pt_idx(a)
<1>1. HugePage \in Nat \ {0} /\ HugePage * Fan \in Nat \ {0} /\ HugePage * Fan * Fan \in Nat \ {0}
  BY Sizes DEF HugePage
<1>2. a \in Nat /\ a < (HugePage * Fan * Fan) * Fan
  BY Sizes DEF Reach, HugePage
<1>3. a \div (HugePage * Fan * Fan) \in Nat /\ a \div (HugePage * Fan * Fan) < Fan
  BY <1>1, <1>2, DivBelow, DivMod, Sizes
<1>4. (a \div (HugePage * Fan * Fan)) % Fan = a \div (HugePage * Fan * Fan)
  BY <1>3, Sizes
<1>5. /\ a \div (HugePage * Fan) \in Nat
      /\ (a \div (HugePage * Fan)) % Fan \in 0..(Fan - 1)
      /\ a \div (HugePage * Fan) = (a \div (HugePage * Fan * Fan)) * Fan + ((a \div (HugePage * Fan)) % Fan)
  BY <1>1, <1>2, Split
<1>6. /\ a \div HugePage \in Nat
      /\ (a \div HugePage) % Fan \in 0..(Fan - 1)
      /\ a \div HugePage = (a \div (HugePage * Fan)) * Fan + ((a \div HugePage) % Fan)
  BY <1>1, <1>2, Split
<1>7. /\ a \div Page \in Nat
      /\ (a \div Page) % Fan \in 0..(Fan - 1)
      /\ a \div Page = (a \div HugePage) * Fan + ((a \div Page) % Fan)
  BY <1>1, <1>2, Split, Sizes DEF HugePage
<1>8. pml4_idx(a) \in 0..(Fan - 1) /\ a \div (HugePage * Fan * Fan) = pml4_idx(a)
  BY <1>3, <1>4, Sizes DEF pml4_idx
<1>9. /\ pdpt_idx(a) \in 0..(Fan - 1)
      /\ a \div (HugePage * Fan) = pml4_idx(a) * Fan + pdpt_idx(a)
  BY <1>5, <1>8 DEF pdpt_idx
<1>10. /\ pd_idx(a) \in 0..(Fan - 1)
       /\ a \div HugePage = (pml4_idx(a) * Fan + pdpt_idx(a)) * Fan + pd_idx(a)
  BY <1>6, <1>9 DEF pd_idx
<1>11. /\ pt_idx(a) \in 0..(Fan - 1)
       /\ a \div Page = (a \div HugePage) * Fan + pt_idx(a)
  BY <1>7 DEF pt_idx
<1> QED BY <1>8, <1>9, <1>10, <1>11

LEMMA MulMod == ASSUME NEW q \in Nat, NEW d \in Nat \ {0} PROVE (q * d) % d = 0
<1> DEFINE y == q * d
<1>1. y \in Nat /\ y \div d = q
  BY DivExact
<1>2. y = (y \div d) * d + (y % d) /\ y % d \in 0..(d - 1)
  BY <1>1, DivMod
<1> HIDE DEF y
<1>3. y = q * d
  BY DEF y
<1>4. y % d = 0
  BY <1>1, <1>2, <1>3
<1> QED BY <1>4 DEF y

LEMMA Whole ==
  ASSUME NEW a \in Nat, NEW d \in Nat \ {0}, a % d = 0
  PROVE  a \div d \in Nat /\ a = (a \div d) * d
<1> DEFINE q == a \div d
<1>1. q \in Nat /\ a = q * d + 0
  BY DivMod
<1> HIDE DEF q
<1>2. a = q * d
  BY <1>1
<1> QED BY <1>1, <1>2 DEF q

LEMMA ModStep ==
  ASSUME NEW x \in Nat \ {0}, NEW d \in Nat \ {0}, x % d = 0
  PROVE  d <= x /\ (x - d) % d = 0
<1> DEFINE q == x \div d
<1>1. q \in Nat /\ x = q * d
  BY DivMod
<1> HIDE DEF q
<1>2. q # 0
  BY <1>1
<1>3. q - 1 \in Nat /\ (q - 1) * d = x - d
  BY <1>1, <1>2
<1>4. ((q - 1) * d) % d = 0
  BY <1>3, MulMod
<1>5. 1 * d <= q * d
  BY <1>1, <1>2, MulMono
<1> QED BY <1>1, <1>3, <1>4, <1>5

(* Rounding down and up.                                                   *)
LEMMA Rounds ==
  ASSUME NEW a \in Nat, NEW d \in Nat \ {0}
  PROVE  /\ AlignDown(a, d) \in Nat /\ AlignDown(a, d) <= a
         /\ AlignDown(a, d) \div d = a \div d
         /\ AlignDown(a, d) + (a % d) = a
         /\ AlignUp(a, d) \in Nat /\ AlignUp(a, d) >= a
         /\ \A b \in Nat : b < a => b \div d < AlignUp(a, d) \div d
<1>1. /\ a \div d \in Nat /\ a % d \in 0..(d - 1)
      /\ a = (a \div d) * d + (a % d)
  BY DivMod
<1>2. (a \div d) * d \in Nat
  BY <1>1
<1>3. /\ AlignDown(a, d) \in Nat /\ AlignDown(a, d) <= a
      /\ AlignDown(a, d) + (a % d) = a
  BY <1>1, <1>2 DEF AlignDown
<1>4. AlignDown(a, d) \div d = a \div d
  BY <1>1, DivExact DEF AlignDown
<1> DEFINE c == a + d - 1
<1>5. c \in Nat
  OBVIOUS
<1>6. /\ c \div d \in Nat /\ c % d \in 0..(d - 1)
      /\ c = (c \div d) * d + (c % d)
  BY <1>5, DivMod
<1>7. AlignUp(a, d) = (c \div d) * d
  BY DEF AlignUp, AlignDown
<1> HIDE DEF c
<1>8. (c \div d) * d \in Nat /\ (c \div d) * d >= c - (d - 1)
  BY <1>6
<1>9. AlignUp(a, d) \in Nat /\ AlignUp(a, d) >= a
  BY <1>7, <1>8 DEF c
<1>10. AlignUp(a, d) \div d = c \div d
  BY <1>6, <1>7, DivExact
<1>11. ASSUME NEW b \in Nat, b < a PROVE b \div d < AlignUp(a, d) \div d
  <2>1. b + d <= c /\ b + d \in Nat
    BY <1>11 DEF c
  <2>2. (b + d) \div d <= c \div d
    BY <1>5, <2>1, DivMono
  <2>3. (b + d) \div d = b \div d + 1 /\ b \div d \in Nat
    BY DivNext, DivMod
  <2> QED BY <1>6, <1>10, <2>2, <2>3
<1> QED BY <1>3, <1>4, <1>9, <1>11

LEMMA RoundsUpWhole ==
  ASSUME NEW a \in Nat, NEW d \in Nat \ {0}
  PROVE  AlignUp(a, d) % d = 0
<1>1. a + d - 1 \in Nat
  OBVIOUS
<1>2. (a + d - 1) \div d \in Nat
  BY <1>1, DivMod
<1> QED BY <1>2, MulMod DEF AlignUp, AlignDown

(* Addresses in the same piece have the same number of any larger piece.   *)
LEMMA Coarser ==
  ASSUME NEW a \in Nat, NEW b \in Nat, NEW m \in Nat \ {0}, a \div m = b \div m
  PROVE  a \div (m * Fan) = b \div (m * Fan)
<1>1. Fan \in Nat \ {0}
  BY Sizes
<1>2. a \div (m * Fan) = (a \div m) \div Fan
  BY <1>1, DivDiv
<1>3. b \div (m * Fan) = (b \div m) \div Fan
  BY <1>1, DivDiv
<1> QED BY <1>2, <1>3

LEMMA SameLarge ==
  ASSUME NEW a \in Nat, NEW b \in Nat, a \div HugePage = b \div HugePage
  PROVE  /\ pml4_idx(a) = pml4_idx(b) /\ pdpt_idx(a) = pdpt_idx(b)
         /\ pd_idx(a) = pd_idx(b)
<1>1. HugePage \in Nat \ {0} /\ HugePage * Fan \in Nat \ {0}
  BY Sizes
<1>2. a \div (HugePage * Fan) = b \div (HugePage * Fan)
  BY <1>1, Coarser
<1>3. a \div (HugePage * Fan * Fan) = b \div (HugePage * Fan * Fan)
  BY <1>1, <1>2, Coarser
<1> QED BY <1>2, <1>3 DEF pml4_idx, pdpt_idx, pd_idx

LEMMA SameSmall ==
  ASSUME NEW a \in Nat, NEW b \in Nat, a \div Page = b \div Page
  PROVE  a \div HugePage = b \div HugePage /\ pt_idx(a) = pt_idx(b)
<1>1. a \div (Page * Fan) = b \div (Page * Fan)
  BY Coarser, Sizes
<1> QED BY <1>1 DEF HugePage, pt_idx

-----------------------------------------------------------------------------
(* The tree of tables.  m are the tables, n of the pool's are in use, and  *)
(* g says of each table at which level it is (the top table at 4), which   *)
(* piece of the address space it divides, counting pieces of that size     *)
(* from 0, and which entry of which table points to it.                    *)
Indices == 0..(Fan - 1)
Entry == [addr : Nat \cup {NULL}, huge : BOOLEAN, cache_disable : BOOLEAN]
Node == [level : 1..4, number : Nat, parent : Nat, index : Indices]
Pool(n) == {PoolBase + k * Page : k \in 0..(n - 1)}
Sub(number, i) == number * Fan + i

LinkTo(t) == [addr |-> t, huge |-> FALSE, cache_disable |-> FALSE]
LargePage(number) == [addr |-> number * HugePage, huge |-> TRUE, cache_disable |-> FALSE]
SmallPage(number) == [addr |-> number * Page, huge |-> FALSE, cache_disable |-> TRUE]

Link(m, g, u, i) ==
  /\ g[u].level > 1
  /\ m[u][i].addr \in DOMAIN m \ {PoolBase}
  /\ m[u][i] = LinkTo(m[u][i].addr)
  /\ g[m[u][i].addr] = [level |-> g[u].level - 1, number |-> Sub(g[u].number, i),
                        parent |-> u, index |-> i]

(* A large page is one of those that paging_init maps,                     *)
Large(mm, m, g, u, i) ==
  /\ g[u].level = 2
  /\ m[u][i] = LargePage(Sub(g[u].number, i))
  /\ InRegion(mm, Sub(g[u].number, i))

Small(m, g, u, i) ==
  /\ g[u].level = 1
  /\ m[u][i] = SmallPage(Sub(g[u].number, i))

EntriesKnown(mm, m, g) ==
  \A u \in DOMAIN m, i \in Indices :
    m[u][i] = Absent \/ Link(m, g, u, i) \/ Large(mm, m, g, u, i) \/ Small(m, g, u, i)

HasParent(m, g, t) ==
  /\ g[t].parent \in DOMAIN m
  /\ g[g[t].parent].level = g[t].level + 1
  /\ m[g[t].parent][g[t].index] = LinkTo(t)

(* and a table of the last level divides none of those.                    *)
Tree(mm, m, n, g) ==
  /\ n \in 1..PoolSize
  /\ m \in [Pool(n) -> [Indices -> Entry]]
  /\ g \in [Pool(n) -> Node]
  /\ g[PoolBase].level = 4 /\ g[PoolBase].number = 0
  /\ EntriesKnown(mm, m, g)
  /\ \A t \in DOMAIN m \ {PoolBase} : HasParent(m, g, t)
  /\ \A t \in DOMAIN m : g[t].level = 1 => ~InRegion(mm, g[t].number)

IsTree(mm, m, n) == \E g : Tree(mm, m, n, g)

(* Present entries stay what they are.                                     *)
Keeps(m, m2) ==
  /\ DOMAIN m \subseteq DOMAIN m2
  /\ \A u \in DOMAIN m, i \in Indices : m[u][i].addr # NULL => m2[u][i] = m[u][i]

(* The entry that maps address a, as Lookup finds it in the tables m.      *)
Leaf(m, a) ==
  LET l4 == m[PoolBase][pml4_idx(a)]
      l3 == m[l4.addr][pdpt_idx(a)]
      l2 == m[l3.addr][pd_idx(a)]
      l1 == m[l2.addr][pt_idx(a)]
  IN  IF l4.addr = NULL THEN Absent
      ELSE IF l3.addr = NULL THEN Absent
      ELSE IF l2.huge \/ l2.addr = NULL THEN l2 ELSE l1

-----------------------------------------------------------------------------
(* The pool: tables have distinct addresses, and the next one is free.     *)
LEMMA PoolGrows ==
  ASSUME NEW n \in Nat
  PROVE  /\ PoolBase + n * Page \notin Pool(n)
         /\ Pool(n + 1) = Pool(n) \cup {PoolBase + n * Page}
         /\ Pool(n) \subseteq Nat
         /\ NULL \notin Pool(n)
<1>1. ASSUME NEW k \in 0..(n - 1) PROVE PoolBase + k * Page # PoolBase + n * Page
  <2>1. (k + 1) * Page <= n * Page
    BY MulMono, Sizes, k + 1 <= n, k + 1 \in Nat
  <2>2. (k + 1) * Page = k * Page + Page
    BY Sizes
  <2> QED BY <2>1, <2>2, Sizes
<1>2. PoolBase + n * Page \notin Pool(n)
  BY <1>1 DEF Pool
<1>3. 0..((n + 1) - 1) = (0..(n - 1)) \cup {n}
  OBVIOUS
<1>4. Pool(n + 1) = Pool(n) \cup {PoolBase + n * Page}
  BY <1>3 DEF Pool
<1>5. ASSUME NEW k \in 0..(n - 1) PROVE PoolBase + k * Page \in Nat
  BY Sizes
<1>6. Pool(n) \subseteq Nat
  BY <1>5 DEF Pool
<1> QED BY <1>2, <1>4, <1>6 DEF NULL

LEMMA PoolBaseIn == ASSUME NEW n \in Nat \ {0} PROVE PoolBase \in Pool(n)
<1>1. 0 \in 0..(n - 1) /\ PoolBase = PoolBase + 0 * Page
  BY Sizes
<1> QED BY <1>1 DEF Pool

LEMMA KeepsTrans ==
  ASSUME NEW m1, NEW m2, NEW m3, Keeps(m1, m2), Keeps(m2, m3)
  PROVE  Keeps(m1, m3)
BY DEF Keeps

LEMMA KeepsSelf == ASSUME NEW m PROVE Keeps(m, m)
BY DEF Keeps

LEMMA SubNat == ASSUME NEW x \in Nat, NEW i \in Indices PROVE Sub(x, i) \in Nat
BY Sizes DEF Sub, Indices

-----------------------------------------------------------------------------
(* What the entries of a tree are, one consequence at a time.              *)
LEMMA TreeShape ==
  ASSUME NEW mm, NEW m, NEW n, NEW g, Tree(mm, m, n, g)
  PROVE  /\ n \in Nat \ {0} /\ n <= PoolSize
         /\ DOMAIN m = Pool(n) /\ PoolBase \in DOMAIN m
         /\ DOMAIN m \subseteq Nat /\ NULL \notin DOMAIN m
         /\ \A u \in DOMAIN m : /\ m[u] \in [Indices -> Entry]
                                /\ g[u] \in Node
BY PoolBaseIn, PoolGrows, Sizes DEF Tree

LEMMA AbsentOrNot ==
  ASSUME NEW mm, NEW m, NEW n, NEW g, Tree(mm, m, n, g),
         NEW u \in DOMAIN m, NEW i \in Indices
  PROVE  /\ m[u][i].addr = NULL <=> m[u][i] = Absent
         /\ Link(m, g, u, i) => m[u][i].addr # NULL
<1>1. m[u][i] = Absent => m[u][i].addr = NULL
  BY DEF Absent
<1>2. Link(m, g, u, i) => m[u][i].addr # NULL
  BY TreeShape DEF Link
<1>3. g[u].number \in Nat /\ Sub(g[u].number, i) \in Nat
  BY TreeShape, SubNat DEF Node
<1>4. Sub(g[u].number, i) * HugePage \in Nat /\ Sub(g[u].number, i) * Page \in Nat
  BY <1>3, Sizes
<1>5. Large(mm, m, g, u, i) \/ Small(m, g, u, i) => m[u][i].addr # NULL
  BY <1>4 DEF Large, Small, LargePage, SmallPage, NULL
<1> QED BY <1>1, <1>2, <1>5 DEF Tree, EntriesKnown

(* A table taken from the pool and put under an entry that was absent.     *)
Grown(m, u, i, t) ==
  [a \in DOMAIN m \cup {t} |->
     IF a = t THEN EmptyTable
     ELSE IF a = u THEN [m[a] EXCEPT ![i] = LinkTo(t)] ELSE m[a]]

LEMMA AllocatesTree ==
  ASSUME NEW mm, NEW m, NEW n, NEW g, Tree(mm, m, n, g), n < PoolSize,
         NEW u \in DOMAIN m, NEW i \in Indices, m[u][i] = Absent, g[u].level > 1,
         g[u].level = 2 => ~InRegion(mm, Sub(g[u].number, i)),
         NEW t, t = PoolBase + n * Page,
         NEW m2, m2 = Grown(m, u, i, t)
  PROVE  \E g2 : /\ Tree(mm, m2, n + 1, g2)
                 /\ t \in DOMAIN m2 /\ g2[t].level = g[u].level - 1
                 /\ g2[t].number = Sub(g[u].number, i)
                 /\ Keeps(m, m2) /\ m2[u][i] = LinkTo(t)
<1> DEFINE new == [level |-> g[u].level - 1, number |-> Sub(g[u].number, i),
                   parent |-> u, index |-> i]
           g2 == [a \in DOMAIN m \cup {t} |-> IF a = t THEN new ELSE g[a]]
<1>1. /\ n \in Nat \ {0} /\ n + 1 \in 1..PoolSize
      /\ DOMAIN m = Pool(n) /\ PoolBase \in DOMAIN m
      /\ DOMAIN m \subseteq Nat
      /\ \A v \in DOMAIN m : m[v] \in [Indices -> Entry] /\ g[v] \in Node
  BY TreeShape, Sizes
<1>2. t \notin DOMAIN m /\ t \in Nat /\ Pool(n + 1) = DOMAIN m \cup {t} /\ t # PoolBase
  BY <1>1, PoolGrows, Sizes
<1>3. new \in Node
  BY <1>1, SubNat DEF Node
<1>4. Absent \in Entry /\ LinkTo(t) \in Entry
  BY <1>2 DEF Absent, LinkTo, Entry
<1>5. EmptyTable \in [Indices -> Entry] /\ [m[u] EXCEPT ![i] = LinkTo(t)] \in [Indices -> Entry]
  BY <1>1, <1>4 DEF EmptyTable, Indices
<1>6. m2 \in [Pool(n + 1) -> [Indices -> Entry]]
  BY <1>1, <1>2, <1>5 DEF Grown
<1>7. g2 \in [Pool(n + 1) -> Node]
  BY <1>1, <1>2, <1>3
<1>8. /\ DOMAIN m2 = DOMAIN m \cup {t}
      /\ m2[t] = EmptyTable /\ g2[t] = new
      /\ \A v \in DOMAIN m : g2[v] = g[v] /\ (v # u => m2[v] = m[v])
      /\ m2[u] = [m[u] EXCEPT ![i] = LinkTo(t)]
  BY <1>2 DEF Grown
<1>9. m2[u][i] = LinkTo(t) /\ \A j \in Indices : j # i => m2[u][j] = m[u][j]
  BY <1>1, <1>8
<1> HIDE DEF new, g2
<1>10. ASSUME NEW v \in DOMAIN m, NEW j \in Indices, ~(v = u /\ j = i)
       PROVE  m2[v][j] = m[v][j]
  BY <1>8, <1>9, <1>10
<1>11. EntriesKnown(mm, m2, g2)
  <2> SUFFICES ASSUME NEW v \in DOMAIN m2, NEW j \in Indices
               PROVE  \/ m2[v][j] = Absent \/ Link(m2, g2, v, j)
                      \/ Large(mm, m2, g2, v, j) \/ Small(m2, g2, v, j)
    BY DEF EntriesKnown
  <2>1. CASE v = t
    BY <2>1, <1>8 DEF EmptyTable, Indices
  <2>2. CASE v = u /\ j = i
    <3>1. m2[v][j] = LinkTo(t) /\ m2[v][j].addr = t
      BY <2>2, <1>9 DEF LinkTo
    <3> QED BY <2>2, <3>1, <1>2, <1>8 DEF Link, new
  <2>3. CASE v # t /\ ~(v = u /\ j = i)
    <3>1. v \in DOMAIN m /\ m2[v][j] = m[v][j] /\ g2[v] = g[v]
      BY <2>3, <1>8, <1>10
    <3>2. \/ m[v][j] = Absent \/ Link(m, g, v, j)
          \/ Large(mm, m, g, v, j) \/ Small(m, g, v, j)
      BY <3>1 DEF Tree, EntriesKnown
    <3>3. CASE Link(m, g, v, j)
      BY <3>1, <3>3, <1>8 DEF Link
    <3> QED BY <3>1, <3>2, <3>3 DEF Large, Small
  <2> QED BY <2>1, <2>2, <2>3
<1>12. ASSUME NEW v \in DOMAIN m2 \ {PoolBase} PROVE HasParent(m2, g2, v)
  <2>1. CASE v = t
    BY <2>1, <1>1, <1>8, <1>9 DEF HasParent, new, Node
  <2>2. CASE v # t
    <3>1. v \in DOMAIN m /\ HasParent(m, g, v) /\ g[v].index \in Indices
      BY <2>2, <1>1, <1>8 DEF Tree, Node
    <3>2. ~(g[v].parent = u /\ g[v].index = i)
      BY <3>1, <1>1 DEF HasParent, Absent, LinkTo, NULL
    <3>3. m2[g[v].parent][g[v].index] = m[g[v].parent][g[v].index]
      BY <3>1, <3>2, <1>10 DEF HasParent
    <3> QED BY <3>1, <3>3, <1>8 DEF HasParent
  <2> QED BY <2>1, <2>2
<1>13. \A v \in DOMAIN m2 : g2[v].level = 1 => ~InRegion(mm, g2[v].number)
  <2>1. g2[t].level = 1 => ~InRegion(mm, g2[t].number)
    BY <1>1, <1>8 DEF new, Node
  <2>2. \A v \in DOMAIN m : g[v].level = 1 => ~InRegion(mm, g[v].number)
    BY DEF Tree
  <2> QED BY <2>1, <2>2, <1>8
<1>14. g2[PoolBase].level = 4 /\ g2[PoolBase].number = 0
  BY <1>1, <1>8 DEF Tree
<1>15. Tree(mm, m2, n + 1, g2)
  BY <1>1, <1>6, <1>7, <1>11, <1>12, <1>13, <1>14 DEF Tree
<1>16. Keeps(m, m2)
  <2> SUFFICES ASSUME NEW v \in DOMAIN m, NEW j \in Indices, m[v][j].addr # NULL
               PROVE  m2[v][j] = m[v][j]
    BY <1>8 DEF Keeps
  <2> QED BY <1>10 DEF Absent
<1>17. t \in DOMAIN m2 /\ g2[t].level = g[u].level - 1 /\ g2[t].number = Sub(g[u].number, i)
  BY <1>8 DEF new
<1> QED BY <1>9, <1>15, <1>16, <1>17

(* A page written into an entry that was absent or held that page.         *)
LEMMA WritesTree ==
  ASSUME NEW mm, NEW m, NEW n, NEW g, Tree(mm, m, n, g),
         NEW u \in DOMAIN m, NEW i \in Indices, NEW e \in Entry,
         m[u][i] \in {Absent, e},
         NEW m2, m2 = [m EXCEPT ![u] = [m[u] EXCEPT ![i] = e]],
         Large(mm, m2, g, u, i) \/ Small(m2, g, u, i)
  PROVE  Tree(mm, m2, n, g) /\ Keeps(m, m2) /\ m2[u][i] = e
<1>1. /\ DOMAIN m = Pool(n)
      /\ \A v \in DOMAIN m : m[v] \in [Indices -> Entry] /\ g[v] \in Node
  BY TreeShape
<1>2. [m[u] EXCEPT ![i] = e] \in [Indices -> Entry]
  BY <1>1
<1>3. m2 \in [Pool(n) -> [Indices -> Entry]]
  BY <1>1, <1>2 DEF Tree
<1>4. DOMAIN m2 = DOMAIN m /\ m2[u][i] = e
  BY <1>1 DEF Tree
<1>5. ASSUME NEW v \in DOMAIN m, NEW j \in Indices, ~(v = u /\ j = i)
      PROVE  m2[v][j] = m[v][j]
  BY <1>1, <1>5 DEF Tree
<1>6. EntriesKnown(mm, m2, g)
  <2> SUFFICES ASSUME NEW v \in DOMAIN m2, NEW j \in Indices
               PROVE  \/ m2[v][j] = Absent \/ Link(m2, g, v, j)
                      \/ Large(mm, m2, g, v, j) \/ Small(m2, g, v, j)
    BY DEF EntriesKnown
  <2>1. CASE v = u /\ j = i
    BY <2>1
  <2>2. CASE ~(v = u /\ j = i)
    <3>1. v \in DOMAIN m /\ m2[v][j] = m[v][j]
      BY <2>2, <1>4, <1>5
    <3>2. \/ m[v][j] = Absent \/ Link(m, g, v, j)
          \/ Large(mm, m, g, v, j) \/ Small(m, g, v, j)
      BY <3>1 DEF Tree, EntriesKnown
    <3> QED BY <3>1, <3>2, <1>4 DEF Link, Large, Small
  <2> QED BY <2>1, <2>2
<1>7. ASSUME NEW v \in DOMAIN m2 \ {PoolBase} PROVE HasParent(m2, g, v)
  <2>1. HasParent(m, g, v) /\ g[v].index \in Indices /\ v \in DOMAIN m
    BY <1>1, <1>4 DEF Tree, Node
  <2>2. v # NULL
    BY <2>1, TreeShape
  <2>3. m[u][i] = Absent => ~(g[v].parent = u /\ g[v].index = i)
    BY <2>1, <2>2 DEF HasParent, Absent, LinkTo
  <2>4. m2[g[v].parent][g[v].index] = m[g[v].parent][g[v].index]
    BY <2>1, <2>3, <1>4, <1>5 DEF HasParent
  <2> QED BY <2>1, <2>4, <1>4 DEF HasParent
<1>8. Keeps(m, m2)
  <2> SUFFICES ASSUME NEW v \in DOMAIN m, NEW j \in Indices, m[v][j].addr # NULL
               PROVE  m2[v][j] = m[v][j]
    BY <1>4 DEF Keeps
  <2>1. CASE v = u /\ j = i
    BY <2>1, <1>4 DEF Absent
  <2> QED BY <2>1, <1>5
<1> QED BY <1>3, <1>4, <1>6, <1>7, <1>8 DEF Tree

-----------------------------------------------------------------------------
(* Walks.  The walk w is at a table of level l that divides piece x.       *)
IsWalk(w) == w = [mem |-> w.mem, used |-> w.used, table |-> w.table, fault |-> w.fault]

Reached(mm, w, l, x) ==
  \E g : /\ Tree(mm, w.mem, w.used, g)
         /\ w.table \in DOMAIN w.mem
         /\ g[w.table].level = l /\ g[w.table].number = x

(* The walk w2 goes on where w was: down entry i, or to a panic.           *)
GoesOn(mm, w, w2, i, l, x) ==
  /\ IsWalk(w2) /\ w2.fault = "none"
  /\ Reached(mm, w2, l - 1, Sub(x, i))
  /\ w2.mem[w.table][i] = LinkTo(w2.table)
Panics(mm, w2) == IsWalk(w2) /\ w2.fault = "panic" /\ IsTree(mm, w2.mem, w2.used)

Descends(mm, w, w2, i, l, x) ==
  /\ Keeps(w.mem, w2.mem)
  /\ GoesOn(mm, w, w2, i, l, x) \/ Panics(mm, w2)
  /\ w.mem[w.table][i].addr # NULL => w2 = [w EXCEPT !.table = w.mem[w.table][i].addr]

LEMMA DescendSound ==
  ASSUME NEW mm, NEW w, IsWalk(w), w.fault = "none",
         NEW l, NEW x, Reached(mm, w, l, x), l > 1,
         NEW i \in Indices, l = 2 => ~InRegion(mm, Sub(x, i))
  PROVE  Descends(mm, w, Descend(w, i), i, l, x)
<1>1. PICK g : /\ Tree(mm, w.mem, w.used, g)
               /\ w.table \in DOMAIN w.mem
               /\ g[w.table].level = l /\ g[w.table].number = x
  BY DEF Reached
<1> DEFINE e == w.mem[w.table][i]
<1>2. /\ w.used \in Nat \ {0} /\ w.used <= PoolSize
      /\ DOMAIN w.mem = Pool(w.used)
  BY <1>1, TreeShape
<1>3. e.addr = NULL <=> e = Absent
  BY <1>1, AbsentOrNot
<1>4. CASE e.addr # NULL
  <2>1. Descend(w, i) = [w EXCEPT !.table = e.addr]
    BY <1>1, <1>4 DEF Descend, Present
  <2>2. Descend(w, i) = [mem |-> w.mem, used |-> w.used, table |-> e.addr, fault |-> "none"]
    BY <2>1 DEF IsWalk
  <2>3. Link(w.mem, g, w.table, i)
    BY <1>1, <1>3, <1>4 DEF Tree, EntriesKnown, Large, Small
  <2>4. GoesOn(mm, w, Descend(w, i), i, l, x)
    BY <2>2, <2>3, <1>1 DEF GoesOn, IsWalk, Reached, Link
  <2> QED BY <2>1, <2>2, <2>4, KeepsSelf DEF Descends
<1>5. CASE e.addr = NULL /\ w.used = PoolSize
  <2>1. Descend(w, i) = [w EXCEPT !.fault = "panic"]
    BY <1>1, <1>5 DEF Descend, Present, alloc_page_table
  <2>2. Descend(w, i) = [mem |-> w.mem, used |-> w.used, table |-> w.table, fault |-> "panic"]
    BY <2>1 DEF IsWalk
  <2> QED BY <1>1, <1>5, <2>2, KeepsSelf DEF Descends, Panics, IsWalk, IsTree
<1>6. CASE e.addr = NULL /\ w.used # PoolSize
  <2> DEFINE t == PoolBase + w.used * Page
             m2 == Grown(w.mem, w.table, i, t)
  <2>1. Descend(w, i) = [w EXCEPT !.used = w.used + 1, !.mem = m2, !.table = t]
    BY <1>1, <1>6 DEF Descend, Present, alloc_page_table, NewTable, Grown, LinkTo
  <2>2. Descend(w, i) = [mem |-> m2, used |-> w.used + 1, table |-> t, fault |-> "none"]
    BY <2>1 DEF IsWalk
  <2>3. w.used < PoolSize
    BY <1>2, <1>6, Sizes
  <2>4. /\ w.mem[w.table][i] = Absent /\ g[w.table].level > 1
        /\ g[w.table].level = 2 => ~InRegion(mm, Sub(g[w.table].number, i))
    BY <1>1, <1>3, <1>6
  <2>5. \E g2 : /\ Tree(mm, m2, w.used + 1, g2)
                /\ t \in DOMAIN m2 /\ g2[t].level = g[w.table].level - 1
                /\ g2[t].number = Sub(g[w.table].number, i)
                /\ Keeps(w.mem, m2) /\ m2[w.table][i] = LinkTo(t)
    BY <1>1, <2>3, <2>4, AllocatesTree
  <2> HIDE DEF m2, t
  <2>6. GoesOn(mm, w, Descend(w, i), i, l, x)
    BY <2>2, <2>5, <1>1 DEF GoesOn, IsWalk, Reached
  <2> QED BY <1>6, <2>2, <2>5, <2>6 DEF Descends
<1> QED BY <1>4, <1>5, <1>6

(* The page is in the tree, and it is what the entry holds.                *)
LEMMA WriteSound ==
  ASSUME NEW mm, NEW w, IsWalk(w), w.fault = "none",
         NEW l, NEW x, Reached(mm, w, l, x),
         NEW i \in Indices,
         NEW e, \/ l = 2 /\ e = LargePage(Sub(x, i)) /\ InRegion(mm, Sub(x, i))
                \/ l = 1 /\ e = SmallPage(Sub(x, i))
  PROVE  /\ Write(w, i, e).used = w.used /\ Write(w, i, e).fault = "none"
         /\ IsTree(mm, Write(w, i, e).mem, w.used)
         /\ Keeps(w.mem, Write(w, i, e).mem)
         /\ Write(w, i, e).mem[w.table][i] = e
         /\ w.mem[w.table][i] = e => Write(w, i, e).mem = w.mem
<1>1. PICK g : /\ Tree(mm, w.mem, w.used, g)
               /\ w.table \in DOMAIN w.mem
               /\ g[w.table].level = l /\ g[w.table].number = x
  BY DEF Reached
<1> DEFINE u == w.table
           m2 == [w.mem EXCEPT ![u] = [w.mem[u] EXCEPT ![i] = e]]
<1>2. Write(w, i, e) = [w EXCEPT !.mem = m2]
  BY <1>1 DEF Write
<1>3. Write(w, i, e) = [mem |-> m2, used |-> w.used, table |-> w.table, fault |-> "none"]
  BY <1>2 DEF IsWalk
<1>4. x \in Nat /\ w.mem[u] \in [Indices -> Entry]
  BY <1>1, TreeShape DEF Node
<1>5. e \in Entry
  <2>1. Sub(x, i) * HugePage \in Nat /\ Sub(x, i) * Page \in Nat
    BY <1>4, SubNat, Sizes
  <2>2. LargePage(Sub(x, i)) \in Entry /\ SmallPage(Sub(x, i)) \in Entry
    BY <2>1 DEF LargePage, SmallPage, Entry
  <2> QED BY <2>2
<1>6. w.mem[u][i] \in {Absent, e}
  <2>1. ~Link(w.mem, g, u, i)
    <3> SUFFICES ASSUME Link(w.mem, g, u, i) PROVE FALSE OBVIOUS
    <3>1. l = 2 /\ InRegion(mm, Sub(x, i))
      BY <1>1 DEF Link
    <3>2. /\ w.mem[u][i].addr \in DOMAIN w.mem
          /\ g[w.mem[u][i].addr].level = 1 /\ g[w.mem[u][i].addr].number = Sub(x, i)
      BY <1>1, <3>1 DEF Link
    <3> QED BY <1>1, <3>1, <3>2 DEF Tree
  <2> QED BY <1>1, <2>1 DEF Tree, EntriesKnown, Large, Small
<1>7. m2[u][i] = e
  BY <1>1, <1>4
<1>8. Large(mm, m2, g, u, i) \/ Small(m2, g, u, i)
  BY <1>1, <1>7 DEF Large, Small
<1>9. w.mem[u][i] = e => m2 = w.mem
  BY <1>1, <1>4 DEF Tree
<1> HIDE DEF m2
<1>10. Tree(mm, m2, w.used, g) /\ Keeps(w.mem, m2)
  BY <1>1, <1>5, <1>6, <1>8, WritesTree DEF m2
<1> QED BY <1>3, <1>7, <1>9, <1>10 DEF IsTree

-----------------------------------------------------------------------------
(* Addresses and the tables on the way to their pages.                     *)
LEMMA Way ==
  ASSUME NEW a \in Addresses
  PROVE  /\ pml4_idx(a) \in Indices /\ pdpt_idx(a) \in Indices
         /\ pd_idx(a) \in Indices /\ pt_idx(a) \in Indices
         /\ Sub(0, pml4_idx(a)) \in Nat
         /\ Sub(Sub(0, pml4_idx(a)), pdpt_idx(a)) \in Nat
         /\ Sub(Sub(Sub(0, pml4_idx(a)), pdpt_idx(a)), pd_idx(a)) = a \div HugePage
         /\ Sub(a \div HugePage, pt_idx(a)) = a \div Page
<1>1. /\ pml4_idx(a) \in 0..(Fan - 1) /\ pdpt_idx(a) \in 0..(Fan - 1)
      /\ pd_idx(a) \in 0..(Fan - 1) /\ pt_idx(a) \in 0..(Fan - 1)
      /\ a \div HugePage = (pml4_idx(a) * Fan + pdpt_idx(a)) * Fan + pd_idx(a)
      /\ a \div Page = (a \div HugePage) * Fan + pt_idx(a)
  BY Levels DEF Addresses
<1>2. 0 * Fan + pml4_idx(a) = pml4_idx(a)
  BY <1>1, Sizes
<1>3. pml4_idx(a) * Fan + pdpt_idx(a) \in Nat
  BY <1>1, Sizes
<1> QED BY <1>1, <1>2, <1>3 DEF Sub, Indices

LEMMA LinkFollowed ==
  ASSUME NEW mm, NEW m, NEW n, NEW g, Tree(mm, m, n, g),
         NEW u \in DOMAIN m, NEW i \in Indices, m[u][i].addr # NULL,
         g[u].level > 1, ~m[u][i].huge
  PROVE  /\ m[u][i].addr \in DOMAIN m /\ m[u][i] = LinkTo(m[u][i].addr)
         /\ g[m[u][i].addr].level = g[u].level - 1
         /\ g[m[u][i].addr].number = Sub(g[u].number, i)
<1>1. m[u][i] # Absent
  BY DEF Absent
<1>2. ~Large(mm, m, g, u, i)
  BY DEF Large, LargePage
<1>3. ~Small(m, g, u, i)
  BY DEF Small
<1>4. Link(m, g, u, i)
  BY <1>1, <1>2, <1>3 DEF Tree, EntriesKnown
<1> QED BY <1>4 DEF Link

LEMMA EntryCases ==
  ASSUME NEW mm, NEW m, NEW n, NEW g, Tree(mm, m, n, g),
         NEW u \in DOMAIN m, NEW i \in Indices
  PROVE  \/ m[u][i] = Absent
         \/ g[u].level > 1 /\ m[u][i] = LinkTo(m[u][i].addr)
         \/ Large(mm, m, g, u, i)
         \/ Small(m, g, u, i)
<1>1. \/ m[u][i] = Absent \/ Link(m, g, u, i)
      \/ Large(mm, m, g, u, i) \/ Small(m, g, u, i)
  BY DEF Tree, EntriesKnown
<1> QED BY <1>1 DEF Link

LEMMA HugeOrNot ==
  /\ ~Absent.huge
  /\ \A t : ~LinkTo(t).huge /\ ~SmallPage(t).huge /\ LargePage(t).huge
  /\ \A t : SmallPage(t).cache_disable /\ ~LargePage(t).cache_disable
  /\ ~Absent.cache_disable
BY DEF Absent, LinkTo, SmallPage, LargePage

LEMMA UpperNotHuge ==
  ASSUME NEW mm, NEW m, NEW n, NEW g, Tree(mm, m, n, g),
         NEW u \in DOMAIN m, NEW i \in Indices, g[u].level # 2
  PROVE  ~m[u][i].huge
BY EntryCases, HugeOrNot DEF Large, Small

(* The tables that address a leads to, as far as they are there.           *)
Third(m, a) == m[PoolBase][pml4_idx(a)].addr
Second(m, a) == m[Third(m, a)][pdpt_idx(a)].addr
First(m, a) == m[Second(m, a)][pd_idx(a)].addr

LEMMA OnTheWay ==
  ASSUME NEW mm, NEW m, NEW n, NEW g, Tree(mm, m, n, g), NEW a \in Addresses,
         Third(m, a) # NULL
  PROVE  /\ Third(m, a) \in DOMAIN m /\ g[Third(m, a)].level = 3
         /\ Second(m, a) # NULL =>
              /\ Second(m, a) \in DOMAIN m /\ g[Second(m, a)].level = 2
              /\ Sub(g[Second(m, a)].number, pd_idx(a)) = a \div HugePage
              /\ (First(m, a) # NULL /\ ~m[Second(m, a)][pd_idx(a)].huge) =>
                   /\ First(m, a) \in DOMAIN m /\ g[First(m, a)].level = 1
                   /\ Sub(g[First(m, a)].number, pt_idx(a)) = a \div Page
<1>1. /\ pml4_idx(a) \in Indices /\ pdpt_idx(a) \in Indices
      /\ pd_idx(a) \in Indices /\ pt_idx(a) \in Indices
      /\ Sub(Sub(Sub(0, pml4_idx(a)), pdpt_idx(a)), pd_idx(a)) = a \div HugePage
      /\ Sub(a \div HugePage, pt_idx(a)) = a \div Page
  BY Way
<1>2. PoolBase \in DOMAIN m /\ g[PoolBase].level = 4 /\ g[PoolBase].number = 0
  BY TreeShape DEF Tree
<1>3. ~m[PoolBase][pml4_idx(a)].huge
  BY <1>1, <1>2, UpperNotHuge
<1>4. /\ Third(m, a) \in DOMAIN m /\ g[Third(m, a)].level = 3
      /\ g[Third(m, a)].number = Sub(0, pml4_idx(a))
  BY <1>1, <1>2, <1>3, LinkFollowed DEF Third
<1>5. ASSUME Second(m, a) # NULL
      PROVE  /\ Second(m, a) \in DOMAIN m /\ g[Second(m, a)].level = 2
             /\ g[Second(m, a)].number = Sub(Sub(0, pml4_idx(a)), pdpt_idx(a))
  <2>1. ~m[Third(m, a)][pdpt_idx(a)].huge
    BY <1>1, <1>4, UpperNotHuge
  <2> QED BY <1>1, <1>4, <1>5, <2>1, LinkFollowed DEF Second
<1>6. ASSUME Second(m, a) # NULL, First(m, a) # NULL, ~m[Second(m, a)][pd_idx(a)].huge
      PROVE  /\ First(m, a) \in DOMAIN m /\ g[First(m, a)].level = 1
             /\ g[First(m, a)].number = a \div HugePage
  BY <1>1, <1>5, <1>6, LinkFollowed DEF First
<1> QED BY <1>1, <1>4, <1>5, <1>6

(* What maps an address maps it to itself.                                 *)
LEMMA LeafIs ==
  ASSUME NEW mm, NEW m, NEW n, IsTree(mm, m, n), NEW a \in Addresses
  PROVE  \/ Leaf(m, a) = Absent
         \/ Leaf(m, a) = LargePage(a \div HugePage) /\ InRegion(mm, a \div HugePage)
         \/ Leaf(m, a) = SmallPage(a \div Page)
<1>1. PICK g : Tree(mm, m, n, g)
  BY DEF IsTree
<1>2. pd_idx(a) \in Indices /\ pt_idx(a) \in Indices
  BY Way
<1>3. CASE Third(m, a) = NULL \/ Second(m, a) = NULL
  BY <1>3 DEF Leaf, Third, Second
<1>4. CASE Third(m, a) # NULL /\ Second(m, a) # NULL
  <2> DEFINE e == m[Second(m, a)][pd_idx(a)]
  <2>1. /\ Second(m, a) \in DOMAIN m /\ g[Second(m, a)].level = 2
        /\ Sub(g[Second(m, a)].number, pd_idx(a)) = a \div HugePage
    BY <1>1, <1>4, OnTheWay
  <2>2. CASE First(m, a) = NULL
    <3>1. Leaf(m, a) = e
      BY <1>4, <2>2 DEF Leaf, Third, Second, First
    <3> QED BY <1>1, <1>2, <2>1, <2>2, <3>1, AbsentOrNot DEF First
  <2>3. CASE First(m, a) # NULL /\ e.huge
    <3>1. Leaf(m, a) = e
      BY <1>4, <2>3 DEF Leaf, Third, Second, First
    <3>2. Large(mm, m, g, Second(m, a), pd_idx(a))
      BY <1>1, <1>2, <2>1, <2>3, EntryCases, HugeOrNot DEF Small
    <3> QED BY <2>1, <3>1, <3>2 DEF Large
  <2>4. CASE First(m, a) # NULL /\ ~e.huge
    <3>1. Leaf(m, a) = m[First(m, a)][pt_idx(a)]
      BY <1>4, <2>4 DEF Leaf, Third, Second, First
    <3>2. /\ First(m, a) \in DOMAIN m /\ g[First(m, a)].level = 1
          /\ Sub(g[First(m, a)].number, pt_idx(a)) = a \div Page
      BY <1>1, <1>4, <2>4, OnTheWay
    <3>3. m[First(m, a)][pt_idx(a)] = Absent \/ Small(m, g, First(m, a), pt_idx(a))
      BY <1>1, <1>2, <3>2, EntryCases DEF Large
    <3> QED BY <3>1, <3>2, <3>3 DEF Small
  <2> QED BY <2>2, <2>3, <2>4
<1> QED BY <1>3, <1>4

(* As long as present entries stay, what is mapped stays mapped.           *)
LEMMA LeafStays ==
  ASSUME NEW mm, NEW m, NEW n, IsTree(mm, m, n), NEW a \in Addresses,
         NEW m2, Keeps(m, m2), Leaf(m, a).addr # NULL
  PROVE  Leaf(m2, a) = Leaf(m, a)
<1>1. PICK g : Tree(mm, m, n, g)
  BY DEF IsTree
<1>2. /\ pml4_idx(a) \in Indices /\ pdpt_idx(a) \in Indices
      /\ pd_idx(a) \in Indices /\ pt_idx(a) \in Indices /\ PoolBase \in DOMAIN m
  BY <1>1, Way, TreeShape
<1>3. Third(m, a) # NULL /\ Second(m, a) # NULL
  BY DEF Leaf, Third, Second, Absent
<1>4. Third(m, a) \in DOMAIN m /\ Second(m, a) \in DOMAIN m
  BY <1>1, <1>3, OnTheWay
<1>5. Third(m2, a) = Third(m, a)
  BY <1>2, <1>3 DEF Third, Keeps
<1>6. Second(m2, a) = Second(m, a)
  BY <1>2, <1>3, <1>4, <1>5 DEF Second, Keeps
<1>7. First(m, a) # NULL
  BY <1>3 DEF Leaf, Third, Second, First
<1>8. m2[Second(m2, a)][pd_idx(a)] = m[Second(m, a)][pd_idx(a)]
  BY <1>2, <1>4, <1>6, <1>7 DEF First, Keeps
<1>9. CASE m[Second(m, a)][pd_idx(a)].huge
  BY <1>3, <1>5, <1>6, <1>8, <1>9 DEF Leaf, Third, Second
<1>10. CASE ~m[Second(m, a)][pd_idx(a)].huge
  <2>1. First(m, a) \in DOMAIN m /\ First(m2, a) = First(m, a)
    BY <1>1, <1>3, <1>7, <1>8, <1>10, OnTheWay DEF First
  <2>2. Leaf(m, a) = m[First(m, a)][pt_idx(a)]
    BY <1>3, <1>7, <1>10 DEF Leaf, Third, Second, First
  <2>3. Leaf(m2, a) = m2[First(m2, a)][pt_idx(a)]
    BY <1>3, <1>5, <1>6, <1>7, <1>8, <1>10, <2>1 DEF Leaf, Third, Second, First
  <2>4. m2[First(m, a)][pt_idx(a)] = m[First(m, a)][pt_idx(a)]
    BY <1>2, <2>1, <2>2 DEF Keeps
  <2> QED BY <2>1, <2>2, <2>3, <2>4
<1> QED BY <1>9, <1>10

-----------------------------------------------------------------------------
(* map_page_2mb and map_page_4kb.  The walk w is at the second table on    *)
(* the way to a, or at the first one.                                      *)
OnWay(w, a) == /\ IsWalk(w) /\ w.fault = "none"
               /\ Third(w.mem, a) # NULL /\ Second(w.mem, a) # NULL
AtSecond(mm, w, a) ==
  /\ OnWay(w, a)
  /\ \E x : Reached(mm, w, 2, x) /\ Sub(x, pd_idx(a)) = a \div HugePage
  /\ Second(w.mem, a) = w.table
AtFirst(mm, w, a) ==
  /\ OnWay(w, a)
  /\ Reached(mm, w, 1, a \div HugePage)
  /\ w.mem[Second(w.mem, a)][pd_idx(a)] = LinkTo(w.table) /\ w.table # NULL

LEMMA LinkKept ==
  ASSUME NEW m, NEW m2, Keeps(m, m2), NEW u \in DOMAIN m, NEW i \in Indices,
         NEW t, t # NULL, m[u][i] = LinkTo(t)
  PROVE  m2[u][i] = LinkTo(t) /\ m2[u][i].addr = t
BY DEF Keeps, LinkTo

LEMMA ReachedTable ==
  ASSUME NEW mm, NEW w, NEW l, NEW x, Reached(mm, w, l, x)
  PROVE  /\ w.table \in DOMAIN w.mem /\ w.table # NULL /\ PoolBase \in DOMAIN w.mem
         /\ IsTree(mm, w.mem, w.used)
BY TreeShape DEF Reached, IsTree

LEMMA ToSecond ==
  ASSUME NEW mm, IsTree(mm, mem, used), NEW a \in Addresses, NEW w,
         w = Descend(Descend(At(PoolBase), pml4_idx(a)), pdpt_idx(a))
  PROVE  /\ Keeps(mem, w.mem)
         /\ Panics(mm, w) \/ AtSecond(mm, w, a)
         /\ (Third(mem, a) # NULL /\ Second(mem, a) # NULL) => w.mem = mem /\ w.used = used
<1> DEFINE w0 == At(PoolBase)
           w1 == Descend(w0, pml4_idx(a))
           x1 == Sub(0, pml4_idx(a))
<1>1. PICK g : Tree(mm, mem, used, g)
  BY DEF IsTree
<1>2. /\ pml4_idx(a) \in Indices /\ pdpt_idx(a) \in Indices
      /\ Sub(Sub(x1, pdpt_idx(a)), pd_idx(a)) = a \div HugePage
  BY Way
<1>3. /\ IsWalk(w0) /\ w0.fault = "none" /\ w0.mem = mem /\ w0.used = used
      /\ w0.table = PoolBase
  BY DEF At, IsWalk
<1>4. Reached(mm, w0, 4, 0)
  BY <1>1, <1>3, TreeShape DEF Reached, Tree
<1>5. /\ Keeps(w0.mem, w1.mem)
      /\ GoesOn(mm, w0, w1, pml4_idx(a), 4, 0) \/ Panics(mm, w1)
      /\ w0.mem[w0.table][pml4_idx(a)].addr # NULL =>
           w1 = [w0 EXCEPT !.table = w0.mem[w0.table][pml4_idx(a)].addr]
  <2> HIDE DEF w0
  <2>1. Descends(mm, w0, w1, pml4_idx(a), 4, 0)
    BY <1>2, <1>3, <1>4, DescendSound, 4 > 1, 4 # 2
  <2> QED BY <2>1 DEF Descends
<1>6. Third(mem, a) # NULL => w1.mem = mem /\ w1.used = used /\ w1.table = Third(mem, a)
                              /\ w1.fault = "none"
  BY <1>3, <1>5 DEF Third, IsWalk
<1> HIDE DEF w0, w1, x1
<1>7. CASE Panics(mm, w1)
  <2>1. w = w1
    BY <1>7 DEF Panics, Descend, w0, w1
  <2>2. Third(mem, a) = NULL
    BY <1>6, <1>7 DEF Panics
  <2> QED BY <1>3, <1>5, <1>7, <2>1, <2>2
<1>8. CASE GoesOn(mm, w0, w1, pml4_idx(a), 4, 0)
  <2>1. /\ IsWalk(w1) /\ w1.fault = "none" /\ Reached(mm, w1, 3, x1)
        /\ w1.mem[PoolBase][pml4_idx(a)] = LinkTo(w1.table)
    BY <1>3, <1>8 DEF GoesOn, x1
  <2>2. w = Descend(w1, pdpt_idx(a))
    BY DEF w0, w1
  <2>3. /\ Keeps(w1.mem, w.mem)
        /\ GoesOn(mm, w1, w, pdpt_idx(a), 3, x1) \/ Panics(mm, w)
        /\ w1.mem[w1.table][pdpt_idx(a)].addr # NULL =>
             w = [w1 EXCEPT !.table = w1.mem[w1.table][pdpt_idx(a)].addr]
    <3>1. Descends(mm, w1, w, pdpt_idx(a), 3, x1)
      BY <1>2, <2>1, <2>2, DescendSound, 3 > 1, 3 # 2
    <3> QED BY <3>1 DEF Descends
  <2>4. Keeps(mem, w.mem)
    BY <1>3, <1>5, <2>3, KeepsTrans
  <2>5. (Third(mem, a) # NULL /\ Second(mem, a) # NULL) => w.mem = mem /\ w.used = used
    BY <1>6, <2>1, <2>3 DEF Second, IsWalk
  <2>6. ASSUME GoesOn(mm, w1, w, pdpt_idx(a), 3, x1) PROVE AtSecond(mm, w, a)
    <3>1. /\ IsWalk(w) /\ w.fault = "none" /\ Reached(mm, w, 2, Sub(x1, pdpt_idx(a)))
          /\ w.mem[w1.table][pdpt_idx(a)] = LinkTo(w.table)
      BY <2>6 DEF GoesOn
    <3>2. /\ w1.table \in DOMAIN w1.mem /\ w1.table # NULL /\ PoolBase \in DOMAIN w1.mem
          /\ w.table # NULL
      BY <2>1, <3>1, ReachedTable
    <3>3. Third(w.mem, a) = w1.table
      BY <1>2, <2>1, <2>3, <3>2, LinkKept DEF Third
    <3>4. Second(w.mem, a) = w.table
      BY <3>1, <3>3 DEF Second, LinkTo
    <3> QED BY <1>2, <3>1, <3>2, <3>3, <3>4 DEF AtSecond, OnWay
  <2> QED BY <2>3, <2>4, <2>5, <2>6
<1> QED BY <1>5, <1>7, <1>8

(* What mapping the page e of address a, unit long, comes to.              *)
Maps(mm, w, a, e, unit) ==
  /\ w.fault \in {"none", "panic"}
  /\ IsTree(mm, w.mem, w.used)
  /\ Keeps(mem, w.mem)
  /\ w.fault = "none" =>
       \A b \in Addresses : b \div unit = a \div unit => Leaf(w.mem, b) = e

LEMMA MapsLarge ==
  ASSUME NEW mm, IsTree(mm, mem, used), g_pml4 = PoolBase,
         NEW a \in Addresses, InRegion(mm, a \div HugePage)
  PROVE  Maps(mm, map_page_2mb(a), a, LargePage(a \div HugePage), HugePage)
<1> DEFINE w2 == Descend(Descend(At(PoolBase), pml4_idx(a)), pdpt_idx(a))
           e == LargePage(a \div HugePage)
           w == Write(w2, pd_idx(a), e)
<1>1. map_page_2mb(a) = w
  BY DEF map_page_2mb, AlignDown, LargePage
<1>2. Keeps(mem, w2.mem) /\ (Panics(mm, w2) \/ AtSecond(mm, w2, a))
  BY ToSecond
<1> HIDE DEF w2
<1>3. CASE Panics(mm, w2)
  BY <1>1, <1>2, <1>3 DEF Panics, Write, Maps
<1>4. CASE AtSecond(mm, w2, a)
  <2>1. PICK x : Reached(mm, w2, 2, x) /\ Sub(x, pd_idx(a)) = a \div HugePage
    BY <1>4 DEF AtSecond
  <2>2. IsWalk(w2) /\ w2.fault = "none" /\ pd_idx(a) \in Indices
    BY <1>4, Way DEF AtSecond, OnWay
  <2>3. /\ w.used = w2.used /\ w.fault = "none"
        /\ IsTree(mm, w.mem, w2.used) /\ Keeps(w2.mem, w.mem)
        /\ w.mem[w2.table][pd_idx(a)] = e
    BY <2>1, <2>2, WriteSound
  <2> HIDE DEF w, e
  <2>4. Keeps(mem, w.mem)
    BY <1>2, <2>3, KeepsTrans
  <2>5. Third(w.mem, a) # NULL /\ Second(w.mem, a) = w2.table /\ w2.table # NULL
    <3>1. PICK g : Tree(mm, w2.mem, w2.used, g)
      BY <2>1, ReachedTable DEF IsTree
    <3>2. /\ Third(w2.mem, a) # NULL /\ Third(w2.mem, a) \in DOMAIN w2.mem
          /\ Second(w2.mem, a) = w2.table /\ w2.table # NULL
          /\ PoolBase \in DOMAIN w2.mem
      BY <1>4, <2>1, <3>1, ReachedTable, OnTheWay DEF AtSecond, OnWay
    <3>3. pml4_idx(a) \in Indices /\ pdpt_idx(a) \in Indices
      BY Way
    <3>4. Third(w.mem, a) = Third(w2.mem, a)
      BY <2>3, <3>2, <3>3 DEF Keeps, Third
    <3>5. Second(w.mem, a) = Second(w2.mem, a)
      BY <2>3, <3>2, <3>3, <3>4 DEF Keeps, Second
    <3> QED BY <3>2, <3>4, <3>5
  <2>6. ASSUME NEW b \in Addresses, b \div HugePage = a \div HugePage
        PROVE  Leaf(w.mem, b) = e
    <3>1. /\ pml4_idx(b) = pml4_idx(a) /\ pdpt_idx(b) = pdpt_idx(a)
          /\ pd_idx(b) = pd_idx(a)
      BY <2>6, SameLarge DEF Addresses
    <3> QED BY <2>3, <2>5, <3>1, HugeOrNot DEF Leaf, Third, Second, e
  <2> QED BY <1>1, <2>3, <2>4, <2>6 DEF Maps, e
<1> QED BY <1>2, <1>3, <1>4

LEMMA MapsSmall ==
  ASSUME NEW mm, IsTree(mm, mem, used), g_pml4 = PoolBase,
         NEW a \in Addresses, ~InRegion(mm, a \div HugePage)
  PROVE  /\ Maps(mm, map_page_4kb(a, TRUE), a, SmallPage(a \div Page), Page)
         /\ Leaf(mem, a).cache_disable =>
              map_page_4kb(a, TRUE).mem = mem /\ map_page_4kb(a, TRUE).used = used
<1> DEFINE w2 == Descend(Descend(At(PoolBase), pml4_idx(a)), pdpt_idx(a))
           w1 == Descend(w2, pd_idx(a))
           e == SmallPage(a \div Page)
           w == Write(w1, pt_idx(a), e)
<1>1. map_page_4kb(a, TRUE) = w
  BY DEF map_page_4kb, AlignDown, SmallPage
<1>2. /\ Keeps(mem, w2.mem) /\ (Panics(mm, w2) \/ AtSecond(mm, w2, a))
      /\ (Third(mem, a) # NULL /\ Second(mem, a) # NULL) => w2.mem = mem /\ w2.used = used
  BY ToSecond
<1>3. /\ pml4_idx(a) \in Indices /\ pdpt_idx(a) \in Indices
      /\ pd_idx(a) \in Indices /\ pt_idx(a) \in Indices
      /\ Sub(a \div HugePage, pt_idx(a)) = a \div Page
  BY Way
<1>4. Leaf(mem, a).cache_disable =>
        /\ Third(mem, a) # NULL /\ Second(mem, a) # NULL /\ First(mem, a) # NULL
        /\ Leaf(mem, a) = e
        /\ Leaf(mem, a) = mem[First(mem, a)][pt_idx(a)]
  <2> SUFFICES ASSUME Leaf(mem, a).cache_disable
               PROVE  /\ Third(mem, a) # NULL /\ Second(mem, a) # NULL /\ First(mem, a) # NULL
                      /\ Leaf(mem, a) = e
                      /\ Leaf(mem, a) = mem[First(mem, a)][pt_idx(a)]
    OBVIOUS
  <2>1. Leaf(mem, a) = e
    BY LeafIs, HugeOrNot
  <2>2. Leaf(mem, a) # Absent /\ ~Leaf(mem, a).huge
    BY <2>1, HugeOrNot
  <2>3. Third(mem, a) # NULL /\ Second(mem, a) # NULL
    BY <2>2 DEF Leaf, Third, Second
  <2>4. First(mem, a) # NULL
    <3> SUFFICES ASSUME First(mem, a) = NULL PROVE FALSE OBVIOUS
    <3>1. Leaf(mem, a) = mem[Second(mem, a)][pd_idx(a)]
      BY <2>3 DEF Leaf, Third, Second, First
    <3>2. PICK g : Tree(mm, mem, used, g)
      BY DEF IsTree
    <3>3. Second(mem, a) \in DOMAIN mem
      BY <2>3, <3>2, OnTheWay
    <3> QED BY <1>3, <2>2, <3>1, <3>2, <3>3, AbsentOrNot DEF First
  <2>5. Leaf(mem, a) = mem[First(mem, a)][pt_idx(a)]
    BY <2>2, <2>3, <2>4 DEF Leaf, Third, Second, First
  <2> QED BY <2>1, <2>3, <2>4, <2>5
<1> HIDE DEF w2
<1>5. CASE Panics(mm, w2)
  <2>1. w1 = w2 /\ w = w2
    BY <1>5 DEF Panics, Descend, Write
  <2> QED BY <1>1, <1>2, <1>4, <1>5, <2>1 DEF Panics, Maps
<1>6. CASE AtSecond(mm, w2, a)
  <2>1. PICK x : Reached(mm, w2, 2, x) /\ Sub(x, pd_idx(a)) = a \div HugePage
    BY <1>6 DEF AtSecond
  <2>2. IsWalk(w2) /\ w2.fault = "none" /\ Second(w2.mem, a) = w2.table
    BY <1>6 DEF AtSecond, OnWay
  <2>3. /\ Keeps(w2.mem, w1.mem)
        /\ GoesOn(mm, w2, w1, pd_idx(a), 2, x) \/ Panics(mm, w1)
        /\ w2.mem[w2.table][pd_idx(a)].addr # NULL =>
             w1 = [w2 EXCEPT !.table = w2.mem[w2.table][pd_idx(a)].addr]
    <3>1. Descends(mm, w2, w1, pd_idx(a), 2, x)
      BY <1>3, <2>1, <2>2, DescendSound, 2 > 1
    <3> QED BY <3>1 DEF Descends
  <2>4. Leaf(mem, a).cache_disable =>
          w1.mem = mem /\ w1.used = used /\ w1.table = First(mem, a)
    BY <1>2, <1>4, <2>2, <2>3 DEF First, IsWalk
  <2> HIDE DEF w1
  <2>5. Keeps(mem, w1.mem)
    BY <1>2, <2>3, KeepsTrans
  <2>6. CASE Panics(mm, w1)
    <3>1. w = w1
      BY <2>6 DEF Panics, Write
    <3> QED BY <1>1, <2>4, <2>5, <2>6, <3>1 DEF Panics, Maps
  <2>7. CASE GoesOn(mm, w2, w1, pd_idx(a), 2, x)
    <3>1. /\ IsWalk(w1) /\ w1.fault = "none" /\ Reached(mm, w1, 1, a \div HugePage)
          /\ w1.mem[w2.table][pd_idx(a)] = LinkTo(w1.table)
      BY <2>1, <2>7 DEF GoesOn
    <3>2. /\ w.used = w1.used /\ w.fault = "none"
          /\ IsTree(mm, w.mem, w1.used) /\ Keeps(w1.mem, w.mem)
          /\ w.mem[w1.table][pt_idx(a)] = e
          /\ w1.mem[w1.table][pt_idx(a)] = e => w.mem = w1.mem
      BY <1>3, <3>1, WriteSound
    <3> HIDE DEF w, e
    <3>3. Keeps(w2.mem, w.mem) /\ Keeps(mem, w.mem)
      BY <1>2, <2>3, <2>5, <3>2, KeepsTrans
    <3>4. PICK g : Tree(mm, w2.mem, w2.used, g)
      BY <2>1, ReachedTable DEF IsTree
    <3>5. /\ Third(w2.mem, a) # NULL /\ Third(w2.mem, a) \in DOMAIN w2.mem
          /\ w2.table \in DOMAIN w2.mem /\ w2.table # NULL /\ PoolBase \in DOMAIN w2.mem
      BY <1>6, <2>1, <3>4, ReachedTable, OnTheWay DEF AtSecond, OnWay
    <3>6. Third(w.mem, a) = Third(w2.mem, a)
      BY <1>3, <3>3, <3>5 DEF Keeps, Third
    <3>7. Second(w.mem, a) = w2.table
      BY <1>3, <2>2, <3>3, <3>5, <3>6 DEF Keeps, Second
    <3>8. w1.table # NULL /\ w2.table \in DOMAIN w1.mem
      BY <2>3, <3>1, <3>5, ReachedTable DEF Keeps
    <3>9. w.mem[w2.table][pd_idx(a)] = LinkTo(w1.table) /\ First(w.mem, a) = w1.table
      BY <1>3, <3>1, <3>2, <3>7, <3>8, LinkKept DEF First
    <3>10. ASSUME NEW b \in Addresses, b \div Page = a \div Page
           PROVE  Leaf(w.mem, b) = e
      <4>1. b \div HugePage = a \div HugePage /\ pt_idx(b) = pt_idx(a)
        BY <3>10, SameSmall DEF Addresses
      <4>2. /\ pml4_idx(b) = pml4_idx(a) /\ pdpt_idx(b) = pdpt_idx(a)
            /\ pd_idx(b) = pd_idx(a)
        BY <4>1, SameLarge DEF Addresses
      <4> QED BY <3>2, <3>5, <3>6, <3>7, <3>8, <3>9, <4>1, <4>2, HugeOrNot
              DEF Leaf, Third, Second, First
    <3>11. Maps(mm, w, a, e, Page)
      BY <3>2, <3>3, <3>10 DEF Maps
    <3>12. Leaf(mem, a).cache_disable => w.mem = mem /\ w.used = used
      BY <1>4, <2>4, <3>2
    <3> QED BY <1>1, <3>11, <3>12 DEF e
  <2> QED BY <2>3, <2>6, <2>7
<1> QED BY <1>2, <1>5, <1>6

-----------------------------------------------------------------------------
(* The inductive invariant.  The pages between two addresses are mapped.   *)
LargeMapped(m, from, to) ==
  \A a \in Addresses :
    (from \div HugePage <= a \div HugePage /\ a \div HugePage < to \div HugePage) =>
      Leaf(m, a) = LargePage(a \div HugePage)
SmallMapped(m, from, to) ==
  \A a \in Addresses :
    (from \div Page <= a \div Page /\ a \div Page < to \div Page) =>
      Leaf(m, a) = SmallPage(a \div Page)

Job == [next : Nat, end : Nat, huge : BOOLEAN, cache_disable : BOOLEAN, request : Nat \X Nat]

(* paging_init has begun r and has whole pages of it left.                 *)
InRegionJob(r) ==
  /\ job \in Job /\ job.huge = TRUE
  /\ job.end = r.end /\ r.next <= job.next /\ job.next <= job.end
  /\ (job.end - job.next) % HugePage = 0
  /\ LargeMapped(mem, r.next, job.next)

(* The regions before the one that is being mapped are mapped.             *)
Begun == Len(InitRegions(mmap)) - Len(todo)
Building ==
  /\ todo \in Seq(Job) /\ Len(todo) <= Len(InitRegions(mmap))
  /\ \A j \in 1..Len(todo) : todo[j] = InitRegions(mmap)[Begun + j]
  /\ \A j \in 1..Len(InitRegions(mmap)) :
       j < Begun => LargeMapped(mem, InitRegions(mmap)[j].next, InitRegions(mmap)[j].end)
  /\ IF Begun = 0 THEN job = NoJob ELSE InRegionJob(InitRegions(mmap)[Begun])

DeviceJob ==
  /\ job \in Job /\ job.request \in Devices
  /\ job.huge = FALSE /\ job.cache_disable = TRUE
  /\ job.end = LastPage(job.request[1], job.request[2])
  /\ AlignDown(job.request[1], Page) <= job.next
  /\ SmallMapped(mem, AlignDown(job.request[1], Page), job.next)

NotYet ==
  /\ g_pml4 = NULL /\ pc = "boot" /\ mem = << >> /\ used = 0 /\ job = NoJob /\ cr3 = NULL
Tables == g_pml4 = PoolBase /\ pc # "boot" /\ IsTree(mmap, mem, used)

AllMapped ==
  \A k \in 1..Len(InitRegions(mmap)) :
    LargeMapped(mem, InitRegions(mmap)[k].next, InitRegions(mmap)[k].end)

IInv ==
  /\ mmap \in MemoryMaps
  /\ pc \in {"boot", "paging_init", "running", "panic"}
  /\ stray = FALSE
  /\ NotYet \/ Tables
  /\ cr3 \in {NULL, g_pml4}
  /\ cr3 # NULL => AllMapped
  /\ pc = "paging_init" => Building /\ cr3 = NULL
  /\ pc = "running" => cr3 # NULL /\ (job = NoJob \/ DeviceJob)

-----------------------------------------------------------------------------
(* The regions of paging_init.                                             *)
LEMMA KernelSizeWhole ==
  /\ KernelSize \in Nat /\ KernelSize % HugePage = 0
  /\ KernelSize >= (KernelEnd - KernelStart) + HugePage
<1> DEFINE s == AlignUp(KernelEnd - KernelStart, HugePage)
           t == s + PoolSize * Page
<1>1. KernelEnd - KernelStart \in Nat
  BY PagingAssumption
<1>2. s \in Nat /\ s >= KernelEnd - KernelStart /\ s % HugePage = 0
  BY <1>1, Rounds, RoundsUpWhole, Sizes
<1>3. PoolSize * Page \in Nat \ {0}
  BY Sizes
<1> HIDE DEF s
<1>4. t \in Nat /\ s < t
  BY <1>2, <1>3
<1>5. KernelSize = AlignUp(t, HugePage)
  BY DEF KernelSize, s
<1> HIDE DEF t
<1>6. AlignUp(t, HugePage) \in Nat /\ AlignUp(t, HugePage) % HugePage = 0
  BY <1>4, Rounds, RoundsUpWhole, Sizes
<1>7. s \div HugePage < AlignUp(t, HugePage) \div HugePage
  BY <1>2, <1>4, Rounds, Sizes
<1>8. /\ s \div HugePage \in Nat /\ s = (s \div HugePage) * HugePage
      /\ AlignUp(t, HugePage) \div HugePage \in Nat
      /\ AlignUp(t, HugePage) = (AlignUp(t, HugePage) \div HugePage) * HugePage
  BY <1>2, <1>6, Whole, Sizes
<1>9. (s \div HugePage + 1) * HugePage <= (AlignUp(t, HugePage) \div HugePage) * HugePage
  BY <1>7, <1>8, MulMono, Sizes, s \div HugePage + 1 <= AlignUp(t, HugePage) \div HugePage,
     s \div HugePage + 1 \in Nat
<1>10. (s \div HugePage + 1) * HugePage = s + HugePage
  BY <1>8, Sizes
<1>11. s + HugePage <= AlignUp(t, HugePage)
  BY <1>8, <1>9, <1>10
<1> QED BY <1>1, <1>2, <1>5, <1>6, <1>11, Sizes

WholeRegion(r) ==
  /\ r \in Job /\ r.huge = TRUE
  /\ r.next <= r.end /\ (r.end - r.next) % HugePage = 0

LEMMA RegionWhole ==
  ASSUME NEW base \in Nat, NEW size \in Nat, size % HugePage = 0
  PROVE  /\ WholeRegion(Region(base, size))
         /\ Region(base, size).next = base /\ Region(base, size).end = base + size
<1>1. Region(base, size) \in Job
  BY DEF Region, Job
<1>2. base + size - base = size /\ base <= base + size
  OBVIOUS
<1> QED BY <1>1, <1>2 DEF WholeRegion, Region

LEMMA UsableWhole ==
  ASSUME NEW e \in Nat \X Nat
  PROVE  /\ WholeRegion(UsableRegion(e))
         /\ UsableRegion(e).next = AlignDown(e[1], HugePage)
         /\ UsableRegion(e).end = AlignUp(e[1] + e[2], HugePage)
<1> DEFINE base == AlignDown(e[1], HugePage)
           end == AlignUp(e[1] + e[2], HugePage)
<1>1. e[1] \in Nat /\ e[1] + e[2] \in Nat /\ e[1] <= e[1] + e[2]
  OBVIOUS
<1>2. base \in Nat /\ base <= e[1] /\ end \in Nat /\ end >= e[1] + e[2]
  BY <1>1, Rounds, Sizes
<1>3. end % HugePage = 0 /\ base % HugePage = 0
  <2>1. e[1] \div HugePage \in Nat
    BY <1>1, DivMod, Sizes
  <2> QED BY <1>1, <2>1, RoundsUpWhole, MulMod, Sizes DEF AlignDown
<1>4. UsableRegion(e) = Region(base, end - base)
  BY DEF UsableRegion
<1> HIDE DEF base, end
<1>5. /\ base \div HugePage \in Nat /\ base = (base \div HugePage) * HugePage
      /\ end \div HugePage \in Nat /\ end = (end \div HugePage) * HugePage
  BY <1>2, <1>3, Whole, Sizes
<1>6. base \div HugePage <= end \div HugePage
  BY <1>1, <1>2, DivMono, Sizes, base <= end
<1>7. /\ end \div HugePage - base \div HugePage \in Nat
      /\ (end \div HugePage - base \div HugePage) * HugePage = end - base
  BY <1>5, <1>6, Sizes
<1>8. end - base \in Nat /\ (end - base) % HugePage = 0
  <2>1. ((end \div HugePage - base \div HugePage) * HugePage) % HugePage = 0
    BY <1>7, MulMod, Sizes
  <2>2. end - base \in Nat
    BY <1>1, <1>2
  <2> QED BY <1>7, <2>1, <2>2
<1>9. base + (end - base) = end
  BY <1>2
<1> QED BY <1>2, <1>4, <1>8, <1>9, RegionWhole DEF base, end

TwoBefore(s1, s2, s, S) ==
  /\ s \in Seq(S) /\ Len(s) = Len(s2) + 2
  /\ s[1] = s1[1] /\ s[2] = s1[2]
  /\ \A i \in 1..Len(s2) : s[i + 2] = s2[i]

LEMMA ConcatLen ==
  ASSUME NEW S, NEW s1 \in Seq(S), NEW s2 \in Seq(S)
  PROVE  /\ s1 \o s2 \in Seq(S) /\ Len(s1 \o s2) = Len(s1) + Len(s2)
         /\ Len(s1) \in Nat /\ Len(s2) \in Nat
OBVIOUS

LEMMA ConcatAt ==
  ASSUME NEW S, NEW s1 \in Seq(S), NEW s2 \in Seq(S), NEW i \in 1..(Len(s1) + Len(s2))
  PROVE  (s1 \o s2)[i] = IF i <= Len(s1) THEN s1[i] ELSE s2[i - Len(s1)]
OBVIOUS

LEMMA Appended ==
  ASSUME NEW S, NEW s1 \in Seq(S), NEW s2 \in Seq(S), Len(s1) = 2
  PROVE  TwoBefore(s1, s2, s1 \o s2, S)
<1> DEFINE s == s1 \o s2
<1>1. s \in Seq(S) /\ Len(s) = 2 + Len(s2) /\ Len(s2) \in Nat
  BY ConcatLen
<1>2. ASSUME NEW i \in 1..(2 + Len(s2)) PROVE s[i] = IF i <= 2 THEN s1[i] ELSE s2[i - 2]
  <2>1. i \in 1..(Len(s1) + Len(s2))
    OBVIOUS
  <2>2. s[i] = IF i <= Len(s1) THEN s1[i] ELSE s2[i - Len(s1)]
    BY <2>1, ConcatAt, Zenon
  <2> HIDE DEF s
  <2> QED BY <2>2
<1> HIDE DEF s
<1>3. ASSUME NEW i \in 1..Len(s2) PROVE s[i + 2] = s2[i]
  <2>1. i + 2 \in 1..(2 + Len(s2)) /\ ~(i + 2 <= 2) /\ (i + 2) - 2 = i
    BY <1>1
  <2> QED BY <1>2, <2>1
<1>4. 1 \in 1..(2 + Len(s2)) /\ 2 \in 1..(2 + Len(s2))
  BY <1>1
<1>5. TwoBefore(s1, s2, s, S)
  BY <1>1, <1>2, <1>3, <1>4 DEF TwoBefore
<1> QED BY <1>5 DEF s

LEMMA RegionsAre ==
  ASSUME NEW m \in MemoryMaps
  PROVE  /\ InitRegions(m) \in Seq(Job) /\ Len(InitRegions(m)) = Len(m) + 2
         /\ Len(InitRegions(m)) \in Nat
         /\ \A k \in 1..Len(InitRegions(m)) : WholeRegion(InitRegions(m)[k])
         /\ InitRegions(m)[1] = Region(0, HugePage)
         /\ InitRegions(m)[2] = Region(KernelStart, KernelSize)
         /\ \A i \in 1..Len(m) : InitRegions(m)[i + 2] = UsableRegion(m[i])
<1> DEFINE first == <<Region(0, HugePage), Region(KernelStart, KernelSize)>>
           rest == [i \in 1..Len(m) |-> UsableRegion(m[i])]
<1>1. m \in Seq(Nat \X Nat) /\ Len(m) \in Nat /\ \A i \in 1..Len(m) : m[i] \in Nat \X Nat
  BY PagingAssumption
<1>2. WholeRegion(Region(0, HugePage)) /\ WholeRegion(Region(KernelStart, KernelSize))
  <2>1. HugePage % HugePage = 0
    BY Sizes, MulMod, 1 * HugePage = HugePage
  <2> QED BY <2>1, RegionWhole, KernelSizeWhole, Sizes, PagingAssumption
<1>3. \A i \in 1..Len(m) : WholeRegion(UsableRegion(m[i]))
  BY <1>1, UsableWhole
<1>4. first \in Seq(Job) /\ Len(first) = 2
  BY <1>2 DEF WholeRegion
<1>5. rest \in Seq(Job) /\ Len(rest) = Len(m)
  BY <1>1, <1>3 DEF WholeRegion
<1>6. InitRegions(m) = first \o rest
  BY DEF InitRegions
<1>7. first[1] = Region(0, HugePage) /\ first[2] = Region(KernelStart, KernelSize)
  OBVIOUS
<1>8. \A i \in 1..Len(m) : rest[i] = UsableRegion(m[i])
  OBVIOUS
<1> HIDE DEF first, rest
<1>9. TwoBefore(first, rest, InitRegions(m), Job)
  BY <1>4, <1>5, <1>6, Appended
<1>10. /\ InitRegions(m) \in Seq(Job) /\ Len(InitRegions(m)) = Len(m) + 2
       /\ InitRegions(m)[1] = first[1] /\ InitRegions(m)[2] = first[2]
  BY <1>5, <1>9 DEF TwoBefore
<1>11. ASSUME NEW i \in 1..Len(m) PROVE InitRegions(m)[i + 2] = rest[i]
  BY <1>5, <1>9 DEF TwoBefore
<1>12. ASSUME NEW k \in 1..Len(InitRegions(m)) PROVE WholeRegion(InitRegions(m)[k])
  <2>1. CASE k = 1 \/ k = 2
    BY <2>1, <1>2, <1>7, <1>10
  <2>2. CASE k > 2
    <3>1. k - 2 \in 1..Len(m) /\ (k - 2) + 2 = k
      BY <2>2, <1>1, <1>10
    <3> QED BY <3>1, <1>3, <1>8, <1>11
  <2> QED BY <2>1, <2>2, <1>1, <1>10
<1> QED BY <1>1, <1>7, <1>8, <1>10, <1>11, <1>12

LEMMA FreshTree ==
  ASSUME NEW mm PROVE IsTree(mm, [a \in {PoolBase} |-> EmptyTable], 1)
<1> DEFINE m == [a \in {PoolBase} |-> EmptyTable]
           g == [a \in {PoolBase} |-> [level |-> 4, number |-> 0, parent |-> 0, index |-> 0]]
<1>1. Pool(1) = {PoolBase}
  <2>1. 0..(1 - 1) = {0} /\ PoolBase + 0 * Page = PoolBase
    BY Sizes
  <2> QED BY <2>1 DEF Pool
<1>2. 0 \in Indices /\ 1 \in 1..PoolSize
  BY Sizes DEF Indices
<1>3. EmptyTable \in [Indices -> Entry] /\ \A i \in Indices : EmptyTable[i] = Absent
  BY DEF EmptyTable, Indices, Entry, Absent
<1>4. m \in [Pool(1) -> [Indices -> Entry]] /\ g \in [Pool(1) -> Node]
  BY <1>1, <1>2, <1>3 DEF Node
<1>5. EntriesKnown(mm, m, g)
  BY <1>3 DEF EntriesKnown
<1>6. g[PoolBase].level = 4 /\ g[PoolBase].number = 0
  OBVIOUS
<1>7. Tree(mm, m, 1, g)
  BY <1>2, <1>4, <1>5, <1>6 DEF Tree
<1> QED BY <1>7 DEF IsTree

LEMMA PageNumbers ==
  ASSUME NEW a \in Addresses
  PROVE  a \in Nat /\ a < Reach /\ a \div HugePage \in Nat /\ a \div Page \in Nat
<1>1. a \in Nat /\ a < Reach
  <2>1. Reach \in Nat
    BY Sizes DEF Reach
  <2> QED BY <2>1 DEF Addresses
<1> QED BY <1>1, DivMod, Sizes

(* What is mapped stays mapped.                                            *)
LEMMA PagesPresent ==
  ASSUME NEW x \in Nat PROVE LargePage(x).addr # NULL /\ SmallPage(x).addr # NULL
<1>1. x * HugePage \in Nat /\ x * Page \in Nat
  BY Sizes
<1> QED BY <1>1 DEF LargePage, SmallPage, NULL

LEMMA MappedStays ==
  ASSUME NEW mm, NEW m, NEW n, IsTree(mm, m, n), NEW m2, Keeps(m, m2), NEW from, NEW to
  PROVE  /\ LargeMapped(m, from, to) => LargeMapped(m2, from, to)
         /\ SmallMapped(m, from, to) => SmallMapped(m2, from, to)
<1>1. ASSUME NEW a \in Addresses, Leaf(m, a) = LargePage(a \div HugePage)
      PROVE  Leaf(m2, a) = LargePage(a \div HugePage)
  <2>1. a \div HugePage \in Nat
    BY PageNumbers
  <2> QED BY <1>1, <2>1, PagesPresent, LeafStays
<1>2. ASSUME NEW a \in Addresses, Leaf(m, a) = SmallPage(a \div Page)
      PROVE  Leaf(m2, a) = SmallPage(a \div Page)
  <2>1. a \div Page \in Nat
    BY PageNumbers
  <2> QED BY <1>2, <2>1, PagesPresent, LeafStays
<1> QED BY <1>1, <1>2 DEF LargeMapped, SmallMapped

(* One more page.                                                          *)
LEMMA OneMore ==
  ASSUME NEW a \in Nat, NEW b \in Nat, NEW d \in Nat \ {0},
         a \div d < (b + d) \div d
  PROVE  a \div d < b \div d \/ a \div d = b \div d
<1>1. (b + d) \div d = b \div d + 1 /\ a \div d \in Nat /\ b \div d \in Nat
  BY DivNext, DivMod
<1> QED BY <1>1

-----------------------------------------------------------------------------
(* What a step leaves: the tables it has found, with their entries.        *)
Stays == g_pml4 # NULL => g_pml4' = g_pml4 /\ Keeps(mem, mem')

USE DEF NoJob
LEMMA InitInv == ASSUME Init PROVE IInv
BY DEF Init, IInv, NotYet

LEMMA Unchanged == ASSUME IInv, UNCHANGED vars PROVE IInv' /\ Stays
<1>1. Keeps(mem, mem')
  BY KeepsSelf DEF vars
<1> QED BY <1>1 DEF vars, IInv, NotYet, Tables, AllMapped, Building, Begun, InRegionJob,
                    DeviceJob, Stays

LEMMA StepPagingInit == ASSUME IInv, paging_init PROVE IInv' /\ Stays
<1>1. CASE g_pml4 # NULL
  <2>1. /\ pc' = "panic"
        /\ UNCHANGED <<mmap, g_pml4, cr3, used, mem, todo, job, stray>>
    BY <1>1 DEF paging_init
  <2>2. Tables' /\ AllMapped' = AllMapped /\ Keeps(mem, mem')
    BY <1>1, <2>1, KeepsSelf DEF IInv, NotYet, Tables, AllMapped
  <2> QED BY <2>1, <2>2 DEF IInv, Stays
<1>2. CASE g_pml4 = NULL
  <2>1. /\ pc' = "paging_init" /\ g_pml4' = PoolBase /\ used' = 1
        /\ mem' = [a \in {PoolBase} |-> EmptyTable] /\ todo' = InitRegions(mmap)
        /\ UNCHANGED <<mmap, cr3, job, stray>>
    BY <1>2 DEF paging_init
  <2>2. NotYet
    BY <1>2, Sizes DEF IInv, Tables, NULL
  <2>3. Tables'
    BY <2>1, FreshTree DEF Tables
  <2>4. /\ InitRegions(mmap) \in Seq(Job) /\ Len(InitRegions(mmap)) \in Nat
    BY RegionsAre DEF IInv
  <2>5. Begun' = 0
    BY <2>1, <2>4 DEF Begun
  <2>6. Building'
    <3>1. \A j \in 1..Len(todo') : todo'[j] = InitRegions(mmap')[Begun' + j]
      BY <2>1, <2>4, <2>5
    <3> QED BY <2>1, <2>2, <2>4, <2>5, <3>1 DEF Building, NotYet
  <2> QED BY <1>2, <2>1, <2>2, <2>3, <2>6 DEF IInv, NotYet, Stays
<1> QED BY <1>1, <1>2

LEMMA StepNextRegion == ASSUME IInv, NextRegion PROVE IInv' /\ Stays
<1> DEFINE R == InitRegions(mmap)
<1>1. /\ pc = "paging_init" /\ job.next >= job.end /\ todo # << >>
      /\ job' = Head(todo) /\ todo' = Tail(todo)
      /\ UNCHANGED <<mmap, pc, g_pml4, cr3, used, mem, stray>>
  BY DEF NextRegion
<1>2. Building /\ mmap \in MemoryMaps /\ cr3 = NULL
  BY <1>1 DEF IInv
<1>3. /\ R \in Seq(Job) /\ Len(R) \in Nat
      /\ \A k \in 1..Len(R) : WholeRegion(R[k])
  BY <1>2, RegionsAre
<1> HIDE DEF R
<1>4. /\ todo \in Seq(Job) /\ Len(todo) <= Len(R) /\ Begun = Len(R) - Len(todo)
      /\ \A j \in 1..Len(todo) : todo[j] = R[Begun + j]
      /\ \A j \in 1..Len(R) : j < Begun => LargeMapped(mem, R[j].next, R[j].end)
      /\ IF Begun = 0 THEN job = NoJob ELSE InRegionJob(R[Begun])
  BY <1>2 DEF Building, Begun, R
<1>5. /\ Len(todo) \in Nat \ {0} /\ Head(todo) = todo[1]
      /\ todo' \in Seq(Job) /\ Len(todo') = Len(todo) - 1
      /\ \A j \in 1..Len(todo') : todo'[j] = todo[j + 1]
  BY <1>1, <1>4
<1>6. Begun \in Nat /\ Begun + 1 \in 1..Len(R) /\ Begun' = Begun + 1
  BY <1>1, <1>3, <1>4, <1>5 DEF Begun, R
<1>7. PICK r : r = R[Begun + 1] /\ job' = r
  <2>1. 1 \in 1..Len(todo)
    BY <1>5
  <2> QED BY <1>1, <1>4, <1>5, <2>1
<1>8. ASSUME NEW j \in 1..Len(todo') PROVE todo'[j] = R[Begun' + j]
  <2>1. j + 1 \in 1..Len(todo) /\ Begun + (j + 1) = Begun' + j
    BY <1>5, <1>6
  <2> QED BY <1>4, <1>5, <2>1
<1>9. ASSUME NEW j \in 1..Len(R), j < Begun'
      PROVE  LargeMapped(mem, R[j].next, R[j].end)
  <2>1. CASE j = Begun
    <3>1. InRegionJob(R[j])
      BY <1>4, <2>1, j # 0
    <3>2. job.next \in Nat /\ job.end \in Nat /\ job.next <= job.end
      BY <3>1 DEF InRegionJob, Job
    <3>3. job.next = job.end
      BY <1>1, <3>2
    <3> QED BY <3>1, <3>3 DEF InRegionJob
  <2>2. CASE j < Begun
    BY <1>4, <2>2
  <2> QED BY <1>6, <1>9, <2>1, <2>2
<1>10. InRegionJob(r)'
  <2>1. WholeRegion(r) /\ r.next \in Nat
    BY <1>3, <1>6, <1>7 DEF WholeRegion, Job
  <2>2. LargeMapped(mem, r.next, r.next)
    <3>1. r.next \div HugePage \in Nat
      BY <2>1, DivMod, Sizes
    <3>2. ASSUME NEW a \in Addresses PROVE a \div HugePage \in Nat
      BY PageNumbers
    <3> QED BY <3>1, <3>2 DEF LargeMapped
  <2> QED BY <1>1, <1>7, <2>1, <2>2 DEF InRegionJob, WholeRegion, Job
<1>11. Building'
  <2>1. R = InitRegions(mmap') /\ r = InitRegions(mmap')[Begun']
    BY <1>1, <1>6, <1>7 DEF R
  <2>2. Begun' # 0 /\ Len(todo') <= Len(R)
    BY <1>4, <1>5, <1>6
  <2>3. \A j \in 1..Len(todo') : todo'[j] = InitRegions(mmap')[Begun' + j]
    BY <1>8, <2>1
  <2>4. \A j \in 1..Len(InitRegions(mmap')) : j < Begun' =>
          LargeMapped(mem', InitRegions(mmap')[j].next, InitRegions(mmap')[j].end)
    BY <1>1, <1>9, <2>1
  <2>5. InRegionJob(InitRegions(mmap)[Begun])'
    BY <1>10, <2>1 DEF InRegionJob
  <2> QED BY <1>5, <2>1, <2>2, <2>3, <2>4, <2>5 DEF Building
<1>12. Tables' /\ Keeps(mem, mem')
  BY <1>1, KeepsSelf DEF IInv, NotYet, Tables
<1> QED BY <1>1, <1>2, <1>11, <1>12 DEF IInv, Stays

LEMMA NextPage ==
  ASSUME MapPage
  PROVE  \E w : /\ w = IF job.huge THEN map_page_2mb(job.next)
                       ELSE map_page_4kb(job.next, job.cache_disable)
                /\ mem' = w.mem /\ used' = w.used /\ stray' = (w.fault = "stray")
                /\ pc' = IF w.fault = "panic" THEN "panic" ELSE pc
BY DEF MapPage

(* What every page mapped leaves true.                                     *)
LEMMA MapPageTables ==
  ASSUME IInv, Tables, MapPage, NEW w, NEW a, NEW e, NEW unit,
         Maps(mmap, w, a, e, unit), mem' = w.mem, used' = w.used,
         stray' = (w.fault = "stray"), pc' = IF w.fault = "panic" THEN "panic" ELSE pc
  PROVE  /\ mmap' \in MemoryMaps /\ stray' = FALSE /\ Tables'
         /\ cr3' = cr3 /\ cr3' \in {NULL, g_pml4'}
         /\ cr3' # NULL => AllMapped'
         /\ Stays
<1>1. UNCHANGED <<mmap, g_pml4, cr3, todo>>
  BY DEF MapPage
<1>2. IsTree(mmap, mem', used') /\ Keeps(mem, mem') /\ stray' = FALSE
  BY DEF Maps
<1>3. Tables'
  BY <1>1, <1>2 DEF Tables
<1>4. cr3 # NULL => AllMapped'
  <2> SUFFICES ASSUME cr3 # NULL,
                      NEW k \in 1..Len(InitRegions(mmap))
               PROVE  LargeMapped(mem', InitRegions(mmap)[k].next, InitRegions(mmap)[k].end)
    BY <1>1 DEF AllMapped
  <2>1. LargeMapped(mem, InitRegions(mmap)[k].next, InitRegions(mmap)[k].end)
    BY DEF IInv, AllMapped
  <2>2. IsTree(mmap, mem, used)
    BY DEF Tables
  <2> QED BY <1>2, <2>1, <2>2, MappedStays
<1> QED BY <1>1, <1>2, <1>3, <1>4 DEF IInv, Stays

LEMMA StepMapLarge ==
  ASSUME InReach, IInv, MapPage, pc = "paging_init"
  PROVE  IInv' /\ Stays
<1> DEFINE R == InitRegions(mmap)
<1>1. Tables /\ Building /\ mmap \in MemoryMaps /\ cr3 = NULL
  BY DEF IInv, NotYet
<1>2. job.next < job.end
  BY DEF MapPage
<1>3. /\ R \in Seq(Job) /\ Len(R) \in Nat /\ Len(todo) \in Nat
      /\ \A k \in 1..Len(R) : WholeRegion(R[k])
  BY <1>1, RegionsAre DEF Building
<1>4. Begun \in 1..Len(R) /\ InRegionJob(R[Begun])
  <2>1. Begun # 0
    BY <1>1, <1>2 DEF Building
  <2>2. Begun = Len(R) - Len(todo) /\ Len(todo) <= Len(R)
    BY <1>1 DEF Building, Begun
  <2> QED BY <1>1, <1>3, <2>1, <2>2 DEF Building
<1>5. PICK r : \E k \in 1..Len(R) : k = Begun /\ r = R[k]
  BY <1>4
<1>6. /\ job \in Job /\ job.huge = TRUE
      /\ job.end = r.end /\ r.next <= job.next /\ job.next <= job.end
      /\ (job.end - job.next) % HugePage = 0
      /\ LargeMapped(mem, r.next, job.next)
  BY <1>4, <1>5 DEF InRegionJob
<1>7. PICK a : a = job.next
  OBVIOUS
<1>8. a \in Nat /\ job.end \in Nat /\ r.next \in Nat /\ r.end <= Reach
  BY <1>1, <1>3, <1>5, <1>6, <1>7 DEF Job, WholeRegion, InReach
<1>9. a + HugePage <= job.end /\ (job.end - (a + HugePage)) % HugePage = 0
  <2>1. job.end - a \in Nat \ {0} /\ (job.end - a) % HugePage = 0
    BY <1>2, <1>6, <1>7, <1>8
  <2>2. HugePage <= job.end - a /\ ((job.end - a) - HugePage) % HugePage = 0
    BY <2>1, ModStep, Sizes
  <2>3. (job.end - a) - HugePage = job.end - (a + HugePage)
    BY <1>8, Sizes
  <2> QED BY <1>8, <2>2, <2>3, Sizes
<1>10. InRegion(mmap, a \div HugePage)
  <2>1. r.next \div HugePage <= a \div HugePage
    BY <1>6, <1>7, <1>8, DivMono, Sizes
  <2>2. (a + HugePage) \div HugePage <= r.end \div HugePage
    BY <1>6, <1>8, <1>9, DivMono, Sizes, a + HugePage \in Nat
  <2>3. /\ (a + HugePage) \div HugePage = a \div HugePage + 1 /\ a \div HugePage \in Nat
        /\ r.end \div HugePage \in Nat
    <3>1. r.end \in Nat
      BY <1>6, <1>8
    <3> QED BY <1>8, <3>1, DivNext, DivMod, Sizes
  <2>4. a \div HugePage < r.end \div HugePage
    BY <2>2, <2>3
  <2> QED BY <1>5, <2>1, <2>4 DEF InRegion
<1>11. a \in Addresses
  <2>1. Reach \in Nat
    BY Sizes DEF Reach
  <2> QED BY <1>2, <1>6, <1>7, <1>8, <2>1 DEF Addresses
<1>12. PICK w : /\ w = map_page_2mb(a)
                /\ mem' = w.mem /\ used' = w.used /\ stray' = (w.fault = "stray")
                /\ pc' = IF w.fault = "panic" THEN "panic" ELSE pc
  BY <1>6, <1>7, NextPage
<1>13. Maps(mmap, w, a, LargePage(a \div HugePage), HugePage)
  BY <1>1, <1>10, <1>11, <1>12, MapsLarge DEF Tables
<1>14. /\ mmap' \in MemoryMaps /\ stray' = FALSE /\ Tables'
       /\ cr3' = cr3 /\ cr3' \in {NULL, g_pml4'}
       /\ cr3' # NULL => AllMapped'
       /\ Stays
  BY <1>1, <1>12, <1>13, MapPageTables
<1>15. /\ IsTree(mmap, mem, used) /\ Keeps(mem, mem')
  BY <1>1, <1>12, <1>13 DEF Maps, Tables
<1>16. ASSUME w.fault # "panic" PROVE Building'
  <2>1. UNCHANGED <<mmap, todo>> /\ Begun' = Begun
    BY DEF MapPage, Begun
  <2>2. job' = [job EXCEPT !.next = a + HugePage]
    BY <1>6, <1>7 DEF MapPage
  <2>3. /\ job' \in Job /\ job'.huge = TRUE /\ job'.end = job.end
        /\ job'.next = a + HugePage
    <3>1. a + HugePage \in Nat
      BY <1>8, Sizes
    <3>2. job \in Job /\ job.huge = TRUE
      BY <1>6
    <3> QED BY <2>2, <3>1, <3>2 DEF Job
  <2>4. r.next <= a + HugePage
    BY <1>6, <1>7, <1>8, Sizes
  <2>5. LargeMapped(mem', r.next, a + HugePage)
    <3> SUFFICES ASSUME NEW b \in Addresses, r.next \div HugePage <= b \div HugePage,
                        b \div HugePage < (a + HugePage) \div HugePage
                 PROVE  Leaf(mem', b) = LargePage(b \div HugePage)
      BY DEF LargeMapped
    <3>1. b \in Nat
      BY PageNumbers
    <3>2. CASE b \div HugePage = a \div HugePage
      BY <1>12, <1>13, <1>16, <3>2 DEF Maps
    <3>3. CASE b \div HugePage < a \div HugePage
      <4>1. LargeMapped(mem', r.next, a)
        BY <1>6, <1>7, <1>15, MappedStays
      <4> QED BY <3>3, <4>1 DEF LargeMapped
    <3> QED BY <1>8, <3>1, <3>2, <3>3, OneMore, Sizes
  <2>6. InRegionJob(r)'
    BY <1>6, <1>9, <2>3, <2>4, <2>5 DEF InRegionJob
  <2>7. InRegionJob(InitRegions(mmap)[Begun])'
    BY <1>5, <2>1, <2>6 DEF InRegionJob
  <2>8. \A j \in 1..Len(InitRegions(mmap)) : j < Begun =>
          LargeMapped(mem', InitRegions(mmap)[j].next, InitRegions(mmap)[j].end)
    BY <1>1, <1>15, MappedStays DEF Building
  <2>9. Begun' # 0
    BY <1>4, <2>1
  <2>10. /\ todo \in Seq(Job) /\ Len(todo) <= Len(InitRegions(mmap))
         /\ \A j \in 1..Len(todo) : todo[j] = InitRegions(mmap)[Begun + j]
    BY <1>1 DEF Building
  <2> QED BY <2>1, <2>7, <2>8, <2>9, <2>10 DEF Building
<1>17. pc' \in {"paging_init", "panic"} /\ (pc' = "paging_init" => w.fault # "panic")
  BY <1>12
<1> QED BY <1>1, <1>14, <1>16, <1>17 DEF IInv

LEMMA DeviceFits ==
  ASSUME InReach, Apart, IInv, DeviceJob, job.next < job.end
  PROVE  /\ job.next \in Nat /\ job.next \in Addresses
         /\ ~InRegion(mmap, job.next \div HugePage)
<1> DEFINE d == job.request
<1>1. /\ job.next \in Nat /\ job.end \in Nat /\ d \in Devices /\ mmap \in MemoryMaps
      /\ job.end = LastPage(d[1], d[2]) /\ AlignDown(d[1], Page) <= job.next
  BY DEF DeviceJob, Job, IInv
<1>2. d \in Nat \X Nat
  BY <1>1, PagingAssumption
<1>3. AlignDown(d[1], Page) \in Nat
  BY <1>2, Rounds, Sizes
<1>4. job.next \in AlignDown(d[1], Page)..(LastPage(d[1], d[2]) - 1)
  BY <1>1, <1>3
<1>5. ~InRegion(mmap, job.next \div HugePage)
  BY <1>1, <1>4 DEF Apart
<1>6. Reach \in Nat /\ job.end <= Reach
  BY <1>1, Sizes DEF Reach, InReach
<1> QED BY <1>1, <1>5, <1>6 DEF Addresses

LEMMA StepMapSmall ==
  ASSUME InReach, Apart, IInv, MapPage, pc = "running"
  PROVE  IInv' /\ Stays
<1>1. Tables /\ cr3 # NULL /\ mmap \in MemoryMaps /\ job.next < job.end
  BY DEF IInv, NotYet, MapPage
<1>2. DeviceJob
  BY <1>1 DEF IInv
<1>3. PICK a : a = job.next
  OBVIOUS
<1>4. a \in Nat /\ a \in Addresses /\ ~InRegion(mmap, a \div HugePage)
  BY <1>1, <1>2, <1>3, DeviceFits
<1>5. PICK w : /\ w = map_page_4kb(a, TRUE)
               /\ mem' = w.mem /\ used' = w.used /\ stray' = (w.fault = "stray")
               /\ pc' = IF w.fault = "panic" THEN "panic" ELSE pc
  BY <1>2, <1>3, NextPage DEF DeviceJob
<1>6. Maps(mmap, w, a, SmallPage(a \div Page), Page)
  BY <1>1, <1>4, <1>5, MapsSmall DEF Tables
<1>7. /\ mmap' \in MemoryMaps /\ stray' = FALSE /\ Tables'
      /\ cr3' = cr3 /\ cr3' \in {NULL, g_pml4'}
      /\ cr3' # NULL => AllMapped'
      /\ Stays
  BY <1>1, <1>5, <1>6, MapPageTables
<1>8. /\ IsTree(mmap, mem, used) /\ Keeps(mem, mem')
  BY <1>1, <1>5, <1>6 DEF Maps, Tables
<1>9. ASSUME w.fault # "panic" PROVE DeviceJob'
  <2>1. job' = [job EXCEPT !.next = a + Page]
    BY <1>2, <1>3 DEF MapPage, DeviceJob
  <2>2. /\ job \in Job /\ job.request \in Devices
        /\ job.huge = FALSE /\ job.cache_disable = TRUE
        /\ job.end = LastPage(job.request[1], job.request[2])
        /\ AlignDown(job.request[1], Page) <= a
        /\ SmallMapped(mem, AlignDown(job.request[1], Page), a)
    BY <1>2, <1>3 DEF DeviceJob
  <2>3. /\ job' \in Job /\ job'.request = job.request /\ job'.end = job.end
        /\ job'.huge = FALSE /\ job'.cache_disable = TRUE /\ job'.next = a + Page
    BY <1>4, <2>1, <2>2, Sizes DEF Job
  <2>4. PICK from : from = AlignDown(job.request[1], Page)
    OBVIOUS
  <2>5. from \in Nat /\ from <= a + Page
    <3>1. job.request[1] \in Nat
      BY <2>2 DEF Job
    <3>2. from \in Nat
      BY <2>4, <3>1, Rounds, Sizes
    <3> QED BY <1>4, <2>2, <2>4, <3>2, Sizes
  <2>6. SmallMapped(mem', from, a + Page)
    <3> SUFFICES ASSUME NEW b \in Addresses, from \div Page <= b \div Page,
                        b \div Page < (a + Page) \div Page
                 PROVE  Leaf(mem', b) = SmallPage(b \div Page)
      BY DEF SmallMapped
    <3>1. b \in Nat
      BY PageNumbers
    <3>2. CASE b \div Page = a \div Page
      BY <1>5, <1>6, <1>9, <3>2 DEF Maps
    <3>3. CASE b \div Page < a \div Page
      <4>1. SmallMapped(mem', from, a)
        BY <1>8, <2>2, <2>4, MappedStays
      <4> QED BY <3>3, <4>1 DEF SmallMapped
    <3> QED BY <1>4, <3>1, <3>2, <3>3, OneMore, Sizes
  <2> QED BY <2>2, <2>3, <2>4, <2>5, <2>6 DEF DeviceJob
<1>10. pc' \in {"running", "panic"} /\ (pc' = "running" => w.fault # "panic")
  BY <1>5
<1> QED BY <1>1, <1>7, <1>9, <1>10 DEF IInv

LEMMA StepSwitch == ASSUME IInv, paging_switch PROVE IInv' /\ Stays
<1> DEFINE R == InitRegions(mmap)
<1>1. /\ pc = "paging_init" /\ job.next >= job.end /\ todo = << >>
      /\ cr3' = g_pml4 /\ job' = NoJob /\ pc' = "running"
      /\ UNCHANGED <<mmap, g_pml4, used, mem, todo, stray>>
  BY DEF paging_switch
<1>2. Tables /\ Building /\ mmap \in MemoryMaps
  BY <1>1 DEF IInv, NotYet
<1>3. Len(R) \in Nat /\ Len(R) > 0
  BY <1>2, RegionsAre, PagingAssumption
<1>4. Begun = Len(R)
  BY <1>1, <1>3 DEF Begun
<1>5. ASSUME NEW k \in 1..Len(R) PROVE LargeMapped(mem, R[k].next, R[k].end)
  <2>1. CASE k < Begun
    BY <1>2, <2>1 DEF Building
  <2>2. CASE k = Begun
    <3>1. InRegionJob(R[k])
      BY <1>2, <1>3, <1>4, <2>2 DEF Building
    <3>2. job.next \in Nat /\ job.end \in Nat /\ job.next <= job.end
      BY <3>1 DEF InRegionJob, Job
    <3>3. job.next = job.end
      BY <1>1, <3>2
    <3> QED BY <3>1, <3>3 DEF InRegionJob
  <2> QED BY <1>3, <1>4, <2>1, <2>2
<1>6. AllMapped'
  BY <1>1, <1>5 DEF AllMapped
<1>7. Tables' /\ Keeps(mem, mem') /\ g_pml4 # NULL
  BY <1>1, <1>2, KeepsSelf, Sizes DEF Tables, NULL
<1> QED BY <1>1, <1>2, <1>6, <1>7 DEF IInv, Stays

LEMMA StepRequest ==
  ASSUME IInv, NEW d \in Devices, paging_map_mmio_region(d[1], d[2])
  PROVE  IInv' /\ Stays
<1>1. /\ pc = "running"
      /\ job' = [next |-> AlignDown(d[1], Page), end |-> LastPage(d[1], d[2]),
                 huge |-> FALSE, cache_disable |-> TRUE, request |-> <<d[1], d[2]>>]
      /\ UNCHANGED <<mmap, pc, g_pml4, cr3, used, mem, todo, stray>>
  BY DEF paging_map_mmio_region
<1>2. d \in Nat \X Nat /\ d = <<d[1], d[2]>>
  BY PagingAssumption
<1>3. PICK from : from = AlignDown(d[1], Page)
  OBVIOUS
<1>4. from \in Nat /\ LastPage(d[1], d[2]) \in Nat
  <2>1. d[1] \in Nat /\ d[1] + d[2] \in Nat
    BY <1>2
  <2> QED BY <1>3, <2>1, Rounds, Sizes DEF LastPage
<1>5. SmallMapped(mem, from, from)
  <2>1. from \div Page \in Nat
    BY <1>4, DivMod, Sizes
  <2>2. ASSUME NEW a \in Addresses PROVE a \div Page \in Nat
    BY PageNumbers
  <2> QED BY <2>1, <2>2 DEF SmallMapped
<1>6. job' \in Job /\ job'.request = d
  BY <1>1, <1>2, <1>3, <1>4 DEF Job
<1>7. DeviceJob'
  BY <1>1, <1>3, <1>4, <1>5, <1>6 DEF DeviceJob
<1>8. Tables' /\ Keeps(mem, mem') /\ (AllMapped' <=> AllMapped)
  BY <1>1, KeepsSelf DEF IInv, NotYet, Tables, AllMapped
<1> QED BY <1>1, <1>7, <1>8 DEF IInv, Stays

LEMMA StepDone == ASSUME IInv, RegionDone PROVE IInv' /\ Stays
<1>1. /\ pc = "running" /\ job' = NoJob
      /\ UNCHANGED <<mmap, pc, g_pml4, cr3, used, mem, todo, stray>>
  BY DEF RegionDone
<1>2. Tables' /\ Keeps(mem, mem') /\ (AllMapped' <=> AllMapped)
  BY <1>1, KeepsSelf DEF IInv, NotYet, Tables, AllMapped
<1> QED BY <1>1, <1>2 DEF IInv, Stays

LEMMA StepInv ==
  ASSUME InReach, Apart, IInv, [Next]_vars
  PROVE  IInv' /\ Stays
<1>1. CASE paging_init
  BY <1>1, StepPagingInit
<1>2. CASE NextRegion
  BY <1>2, StepNextRegion
<1>3. CASE MapPage
  <2>1. pc = "paging_init" \/ pc = "running"
    BY <1>3 DEF IInv, NotYet, Tables, MapPage
  <2> QED BY <1>3, <2>1, StepMapLarge, StepMapSmall
<1>4. CASE paging_switch
  BY <1>4, StepSwitch
<1>5. CASE RegionDone
  BY <1>5, StepDone
<1>6. CASE \E d \in Devices : paging_map_mmio_region(d[1], d[2])
  BY <1>6, StepRequest
<1>7. CASE Halted \/ UNCHANGED vars
  BY <1>7, Unchanged DEF Halted
<1> QED BY <1>1, <1>2, <1>3, <1>4, <1>5, <1>6, <1>7 DEF Next

-----------------------------------------------------------------------------
(* What IInv says about translations.                                      *)
LEMMA LookupIsLeaf ==
  ASSUME NEW a, g_pml4 = PoolBase PROVE Lookup(a, g_pml4) = Leaf(mem, a)
BY DEF Lookup, Leaf

Translation(leaf, a) ==
  IF leaf.addr = NULL THEN NULL
  ELSE leaf.addr + (a % (IF leaf.huge THEN HugePage ELSE Page))

LEMMA TranslateIs ==
  ASSUME Tables, NEW a PROVE Translate(a) = Translation(Leaf(mem, a), a)
<1>1. g_pml4 # NULL
  BY Sizes DEF Tables, NULL
<1> QED BY <1>1, LookupIsLeaf DEF Tables, Translate, Translation

LEMMA Identity ==
  ASSUME NEW a \in Addresses
  PROVE  /\ Translation(Absent, a) = NULL
         /\ Translation(LargePage(a \div HugePage), a) = a
         /\ Translation(SmallPage(a \div Page), a) = a
<1>1. a \in Nat /\ a \div HugePage \in Nat /\ a \div Page \in Nat
  BY PageNumbers
<1>2. AlignDown(a, HugePage) + (a % HugePage) = a /\ AlignDown(a, Page) + (a % Page) = a
  BY <1>1, Rounds, Sizes
<1>3. LargePage(a \div HugePage).addr = AlignDown(a, HugePage)
  BY DEF LargePage, AlignDown
<1>4. SmallPage(a \div Page).addr = AlignDown(a, Page)
  BY DEF SmallPage, AlignDown
<1>5. LargePage(a \div HugePage).addr # NULL /\ SmallPage(a \div Page).addr # NULL
  BY <1>1, PagesPresent
<1>6. Translation(Absent, a) = NULL
  BY DEF Translation, Absent
<1>7. Translation(LargePage(a \div HugePage), a) = a
  BY <1>2, <1>3, <1>5, HugeOrNot DEF Translation
<1>8. Translation(SmallPage(a \div Page), a) = a
  BY <1>2, <1>4, <1>5, HugeOrNot DEF Translation
<1> QED BY <1>6, <1>7, <1>8

(* The kernel's image, with the pool, lies in what paging_init maps.       *)
LEMMA KernelInRegion ==
  ASSUME NEW a \in KernelStart..(KernelEnd - 1)
  PROVE  /\ a \in Nat /\ KernelStart \div HugePage <= a \div HugePage
         /\ a \div HugePage < (KernelStart + KernelSize) \div HugePage
         /\ a < KernelStart + KernelSize
<1>1. /\ KernelStart \in Nat /\ KernelEnd \in Nat /\ a \in Nat
      /\ KernelStart <= a /\ a < KernelEnd
  BY PagingAssumption
<1>2. /\ KernelSize \in Nat /\ a + HugePage <= KernelStart + KernelSize
      /\ KernelStart + KernelSize \in Nat /\ a + HugePage \in Nat
  BY <1>1, KernelSizeWhole, Sizes
<1>3. KernelStart \div HugePage <= a \div HugePage
  BY <1>1, DivMono, Sizes
<1>4. (a + HugePage) \div HugePage <= (KernelStart + KernelSize) \div HugePage
  BY <1>2, DivMono, Sizes
<1>5. (a + HugePage) \div HugePage = a \div HugePage + 1 /\ a \div HugePage \in Nat
  BY <1>1, DivNext, DivMod, Sizes
<1>6. (KernelStart + KernelSize) \div HugePage \in Nat
  BY <1>2, DivMod, Sizes
<1>7. a \div HugePage < (KernelStart + KernelSize) \div HugePage
  BY <1>4, <1>5, <1>6
<1> QED BY <1>1, <1>2, <1>3, <1>7, Sizes

LEMMA MappedToItself ==
  ASSUME Tables, NEW r, NEW a \in Addresses, LargeMapped(mem, r.next, r.end),
         r.next \div HugePage <= a \div HugePage, a \div HugePage < r.end \div HugePage
  PROVE  Translate(a) = a
BY TranslateIs, Identity DEF LargeMapped

LEMMA InvKernel == ASSUME InReach, IInv PROVE KernelStaysMapped
<1>1. CASE NotYet
  <2>1. \A a \in Addresses : Translate(a) = NULL
    BY <1>1 DEF NotYet, Translate
  <2> QED BY <1>1, <2>1 DEF NotYet, KernelStaysMapped
<1>2. CASE Tables
  <2>1. ASSUME NEW a \in Addresses PROVE Translate(a) \in {NULL, a}
    <3>1. IsTree(mmap, mem, used)
      BY <1>2 DEF Tables
    <3> QED BY <1>2, <3>1, LeafIs, TranslateIs, Identity
  <2>2. ASSUME cr3 # NULL
        PROVE  /\ \A a \in 0..(HugePage - 1) : Translate(a) = a
               /\ \A a \in KernelStart..(KernelEnd - 1) : Translate(a) = a
               /\ \A i \in 1..Len(mmap) :
                    \A a \in mmap[i][1]..(mmap[i][1] + mmap[i][2] - 1) : Translate(a) = a
    <3>1. /\ mmap \in MemoryMaps /\ mmap \in Seq(Nat \X Nat)
          /\ Len(mmap) \in Nat /\ AllMapped
      BY <2>2, PagingAssumption DEF IInv
    <3>2. /\ Len(InitRegions(mmap)) = Len(mmap) + 2
          /\ InitRegions(mmap)[1] = Region(0, HugePage)
          /\ InitRegions(mmap)[2] = Region(KernelStart, KernelSize)
          /\ \A i \in 1..Len(mmap) : InitRegions(mmap)[i + 2] = UsableRegion(mmap[i])
      BY <3>1, RegionsAre
    <3>3. ASSUME NEW k \in 1..(Len(mmap) + 2), NEW r, r = InitRegions(mmap)[k],
                 NEW a \in Nat, r.end \in Nat, a < r.end,
                 r.next \div HugePage <= a \div HugePage,
                 a \div HugePage < r.end \div HugePage
          PROVE  Translate(a) = a
      <4>1. Reach \in Nat /\ r.end <= Reach
        BY <3>1, <3>2, <3>3, Sizes DEF Reach, InReach
      <4>2. a \in Addresses
        BY <3>3, <4>1 DEF Addresses
      <4>3. LargeMapped(mem, r.next, r.end)
        BY <3>1, <3>2, <3>3 DEF AllMapped
      <4> QED BY <1>2, <3>3, <4>2, <4>3, MappedToItself
    <3>4. ASSUME NEW a \in 0..(HugePage - 1) PROVE Translate(a) = a
      <4>1. Region(0, HugePage).next = 0 /\ Region(0, HugePage).end = HugePage
        BY Sizes DEF Region
      <4>2. 0 \div HugePage = 0 /\ a \div HugePage = 0 /\ HugePage \div HugePage = 1
        BY DivUnique, Sizes, 0 * HugePage = 0, 1 * HugePage = HugePage,
           (0 + 1) * HugePage = HugePage, (1 + 1) * HugePage = HugePage + HugePage
      <4> QED BY <3>1, <3>2, <3>3, <4>1, <4>2, Sizes
    <3>5. ASSUME NEW a \in KernelStart..(KernelEnd - 1) PROVE Translate(a) = a
      <4>1. /\ Region(KernelStart, KernelSize).next = KernelStart
            /\ Region(KernelStart, KernelSize).end = KernelStart + KernelSize
            /\ KernelStart + KernelSize \in Nat
        <5>1. KernelStart \in Nat /\ KernelSize \in Nat /\ KernelSize % HugePage = 0
          BY KernelSizeWhole, PagingAssumption
        <5> QED BY <5>1, RegionWhole
      <4>2. PICK r : r = Region(KernelStart, KernelSize)
        OBVIOUS
      <4>3. /\ a \in Nat /\ a < r.end /\ r.end \in Nat
            /\ r.next \div HugePage <= a \div HugePage
            /\ a \div HugePage < r.end \div HugePage
        BY <4>1, <4>2, KernelInRegion
      <4>4. 2 \in 1..(Len(mmap) + 2) /\ r = InitRegions(mmap)[2]
        BY <3>1, <3>2, <4>2
      <4> QED BY <3>3, <4>3, <4>4
    <3>6. ASSUME NEW i \in 1..Len(mmap),
                 NEW a \in mmap[i][1]..(mmap[i][1] + mmap[i][2] - 1)
          PROVE  Translate(a) = a
      <4>1. PICK e \in Nat \X Nat : e = mmap[i]
        BY <3>1
      <4>2. PICK r : r = UsableRegion(e)
        OBVIOUS
      <4>3. /\ r.next = AlignDown(e[1], HugePage)
            /\ r.end = AlignUp(e[1] + e[2], HugePage)
        BY <4>2, UsableWhole
      <4>4. /\ a \in Nat /\ e[1] \in Nat /\ e[1] + e[2] \in Nat
            /\ e[1] <= a /\ a < e[1] + e[2]
        BY <4>1
      <4>5. r.next \div HugePage = e[1] \div HugePage
        BY <4>3, <4>4, Rounds, Sizes
      <4>6. e[1] \div HugePage <= a \div HugePage
        BY <4>4, DivMono, Sizes
      <4>7. /\ a \div HugePage < r.end \div HugePage
            /\ r.end \in Nat /\ r.end >= e[1] + e[2]
        BY <4>3, <4>4, Rounds, Sizes
      <4>8. i + 2 \in 1..(Len(mmap) + 2) /\ r = InitRegions(mmap)[i + 2]
        BY <3>1, <3>2, <4>1, <4>2
      <4>9. a < r.end
        BY <4>4, <4>7
      <4> QED BY <3>3, <4>4, <4>5, <4>6, <4>7, <4>8, <4>9
    <3> QED BY <3>4, <3>5, <3>6
  <2> QED BY <2>1, <2>2 DEF KernelStaysMapped
<1> QED BY <1>1, <1>2 DEF IInv

(* So does every address of a large page that paging_init maps.            *)
LEMMA RegionMapped ==
  ASSUME InReach, IInv, cr3 # NULL, NEW a \in Nat, InRegion(mmap, a \div HugePage)
  PROVE  a \in Addresses /\ Translate(a) = a
<1>1. /\ mmap \in MemoryMaps /\ AllMapped /\ Tables
  BY DEF IInv, NotYet
<1>2. PICK k \in 1..Len(InitRegions(mmap)) :
        /\ InitRegions(mmap)[k].next \div HugePage <= a \div HugePage
        /\ a \div HugePage < InitRegions(mmap)[k].end \div HugePage
  BY DEF InRegion
<1>3. PICK r : r = InitRegions(mmap)[k]
  OBVIOUS
<1>4. r.end \in Nat /\ r.end <= Reach /\ Reach \in Nat
  <2>1. WholeRegion(r)
    BY <1>1, <1>3, RegionsAre
  <2>2. r.end \in Nat
    BY <2>1 DEF WholeRegion, Job
  <2>3. r.end <= Reach
    BY <1>1, <1>3 DEF InReach
  <2>4. Reach \in Nat
    BY Sizes DEF Reach
  <2> QED BY <2>2, <2>3, <2>4
<1>5. a < r.end
  <2>1. a \div HugePage \in Nat /\ r.end \div HugePage \in Nat
    BY <1>4, DivMod, Sizes
  <2> SUFFICES ASSUME r.end <= a PROVE FALSE
    BY <1>4
  <2>2. r.end \div HugePage <= a \div HugePage
    BY <1>4, DivMono, Sizes
  <2> QED BY <1>2, <1>3, <2>1, <2>2
<1>6. a \in Addresses
  BY <1>4, <1>5 DEF Addresses
<1>7. LargeMapped(mem, r.next, r.end)
  BY <1>1, <1>3 DEF AllMapped
<1> QED BY <1>1, <1>2, <1>3, <1>6, <1>7, MappedToItself

-----------------------------------------------------------------------------
(* The parents of a table are one entry.                                   *)
LEMMA PoolInKernel ==
  ASSUME NEW mm \in MemoryMaps, NEW n \in 1..PoolSize, NEW t \in Pool(n)
  PROVE  InRegion(mm, t \div HugePage)
<1>1. PICK k \in 0..(n - 1) : t = PoolBase + k * Page
  BY DEF Pool
<1>2. (k + 1) * Page <= PoolSize * Page
  BY MulMono, Sizes, k + 1 <= PoolSize, k + 1 \in Nat
<1>3. (k + 1) * Page = k * Page + Page /\ k * Page \in Nat /\ PoolSize * Page \in Nat
  BY Sizes
<1>4. t \in KernelStart..(KernelEnd - 1)
  <2>1. PICK p \in Nat, q \in Nat : p = k * Page /\ q = PoolSize * Page
    BY <1>3
  <2>2. p + Page <= q /\ t = PoolBase + p
    BY <1>1, <1>2, <1>3, <2>1
  <2>3. /\ KernelStart \in Nat /\ KernelEnd \in Nat /\ KernelStart <= PoolBase
        /\ PoolBase + q <= KernelEnd
    BY <2>1, PagingAssumption
  <2> QED BY <2>2, <2>3, Sizes
<1>5. /\ KernelStart \div HugePage <= t \div HugePage
      /\ t \div HugePage < (KernelStart + KernelSize) \div HugePage
  BY <1>4, KernelInRegion
<1>6. /\ InitRegions(mm)[2] = Region(KernelStart, KernelSize)
      /\ 2 \in 1..Len(InitRegions(mm))
  BY RegionsAre, PagingAssumption
<1>7. /\ Region(KernelStart, KernelSize).next = KernelStart
      /\ Region(KernelStart, KernelSize).end = KernelStart + KernelSize
  <2>1. KernelStart \in Nat /\ KernelSize \in Nat /\ KernelSize % HugePage = 0
    BY KernelSizeWhole, PagingAssumption
  <2> QED BY <2>1, RegionWhole
<1> QED BY <1>5, <1>6, <1>7 DEF InRegion

LEMMA SmallPageNumber ==
  ASSUME NEW x \in Nat, NEW i \in Indices
  PROVE  (Sub(x, i) * Page) \div HugePage = x
<1> DEFINE y == Sub(x, i)
<1>1. y \in Nat /\ y = x * Fan + i /\ i \in 0..(Fan - 1)
  BY SubNat DEF Sub, Indices
<1> HIDE DEF y
<1>2. (y * Page) \div Page = y /\ y * Page \in Nat
  BY <1>1, DivExact, Sizes
<1>3. y \div Fan = x
  <2>1. (x + 1) * Fan = x * Fan + Fan /\ x * Fan \in Nat
    BY Sizes
  <2>2. x * Fan <= y /\ y < (x + 1) * Fan
    BY <1>1, <2>1, Sizes
  <2> QED BY <1>1, <2>2, DivUnique, Sizes
<1>4. (y * Page) \div (Page * Fan) = ((y * Page) \div Page) \div Fan
  BY <1>2, DivDiv, Sizes
<1>5. (y * Page) \div HugePage = x
  BY <1>2, <1>3, <1>4 DEF HugePage
<1> QED BY <1>5 DEF y

Parents(t) ==
  {e \in (DOMAIN mem) \X (0..(Fan - 1)) :
     mem[e[1]][e[2]].addr = t /\ ~mem[e[1]][e[2]].huge}

LEMMA ParentsAre ==
  ASSUME mmap \in MemoryMaps, NEW g, Tree(mmap, mem, used, g), NEW t \in DOMAIN mem
  PROVE  Parents(t) = IF t = PoolBase THEN {} ELSE {<<g[t].parent, g[t].index>>}
<1>1. /\ used \in 1..PoolSize /\ DOMAIN mem = Pool(used) /\ NULL \notin DOMAIN mem
      /\ \A u \in DOMAIN mem : g[u] \in Node
  BY TreeShape, Sizes DEF Tree
<1>2. ASSUME NEW u \in DOMAIN mem, NEW i \in Indices,
             mem[u][i].addr = t, ~mem[u][i].huge
      PROVE  t # PoolBase /\ u = g[t].parent /\ i = g[t].index
  <2>1. mem[u][i] # Absent
    BY <1>1, <1>2 DEF Absent
  <2>2. ~Large(mmap, mem, g, u, i)
    BY <1>2, HugeOrNot DEF Large
  <2>3. ~Small(mem, g, u, i)
    <3> SUFFICES ASSUME Small(mem, g, u, i) PROVE FALSE OBVIOUS
    <3>1. t = Sub(g[u].number, i) * Page /\ g[u].level = 1 /\ g[u].number \in Nat
      BY <1>1, <1>2 DEF Small, SmallPage, Node
    <3>2. t \div HugePage = g[u].number
      BY <3>1, SmallPageNumber
    <3>3. InRegion(mmap, t \div HugePage)
      BY <1>1, PoolInKernel
    <3> QED BY <3>1, <3>2, <3>3 DEF Tree
  <2>4. Link(mem, g, u, i)
    BY <2>1, <2>2, <2>3 DEF Tree, EntriesKnown
  <2> QED BY <1>2, <2>4 DEF Link
<1>3. ASSUME t # PoolBase
      PROVE  /\ g[t].parent \in DOMAIN mem /\ g[t].index \in Indices
             /\ mem[g[t].parent][g[t].index].addr = t
             /\ ~mem[g[t].parent][g[t].index].huge
  <2>1. HasParent(mem, g, t)
    BY <1>3 DEF Tree
  <2>2. g[t].index \in Indices
    BY <1>1 DEF Node
  <2> QED BY <2>1, <2>2, HugeOrNot DEF HasParent, LinkTo
<1>4. CASE t = PoolBase
  <2>1. ASSUME NEW e \in Parents(t) PROVE FALSE
    <3>1. /\ e[1] \in DOMAIN mem /\ e[2] \in Indices
          /\ mem[e[1]][e[2]].addr = t /\ ~mem[e[1]][e[2]].huge
      BY DEF Parents, Indices
    <3> QED BY <1>2, <1>4, <3>1
  <2> QED BY <1>4, <2>1
<1>5. CASE t # PoolBase
  <2>1. <<g[t].parent, g[t].index>> \in Parents(t)
    BY <1>3, <1>5 DEF Parents, Indices
  <2>2. ASSUME NEW e \in Parents(t) PROVE e = <<g[t].parent, g[t].index>>
    <3>1. /\ e[1] \in DOMAIN mem /\ e[2] \in Indices /\ e = <<e[1], e[2]>>
          /\ mem[e[1]][e[2]].addr = t /\ ~mem[e[1]][e[2]].huge
      BY DEF Parents, Indices
    <3> QED BY <1>2, <3>1
  <2> QED BY <1>5, <2>1, <2>2
<1> QED BY <1>4, <1>5

LEMMA InvTree == ASSUME IInv PROVE TablesFormTree
<1>1. CASE NotYet
  BY <1>1 DEF NotYet, IInv, TablesFormTree
<1>2. CASE Tables
  <2>1. PICK g : Tree(mmap, mem, used, g)
    BY <1>2 DEF Tables, IsTree
  <2>2. ASSUME NEW t \in DOMAIN mem
        PROVE  Cardinality(Parents(t)) = IF t = g_pml4 THEN 0 ELSE 1
    <3>1. Parents(t) = IF t = PoolBase THEN {} ELSE {<<g[t].parent, g[t].index>>}
      BY <2>1, ParentsAre DEF IInv
    <3>2. Cardinality({}) = 0 /\ Cardinality({<<g[t].parent, g[t].index>>}) = 1
      BY FS_EmptySet, FS_Singleton
    <3> QED BY <1>2, <3>1, <3>2 DEF Tables
  <2> QED BY <2>2 DEF TablesFormTree, Parents, IInv
<1> QED BY <1>1, <1>2 DEF IInv

-----------------------------------------------------------------------------
(* The action properties.                                                  *)
LEMMA StepMappings ==
  ASSUME InReach, Apart, IInv, [Next]_vars
  PROVE  /\ \A a \in Addresses : Translate(a) # NULL => Translate(a)' = Translate(a)
         /\ (MapPage /\ ~job.huge /\ Lookup(job.next, g_pml4).cache_disable)
              => UNCHANGED <<mem, used>>
<1>1. ASSUME NEW a \in Addresses, Translate(a) # NULL PROVE Translate(a)' = Translate(a)
  <2>1. g_pml4 # NULL
    BY <1>1 DEF Translate
  <2>2. Tables
    BY <2>1 DEF IInv, NotYet
  <2>3. g_pml4' = g_pml4 /\ Keeps(mem, mem')
    BY <2>1, StepInv DEF Stays
  <2>4. Leaf(mem, a).addr # NULL
    BY <1>1, <2>2, TranslateIs DEF Translation
  <2>5. Leaf(mem', a) = Leaf(mem, a)
    BY <2>2, <2>3, <2>4, LeafStays DEF Tables
  <2>6. Translate(a) = Translation(Leaf(mem, a), a)
    BY <2>2, TranslateIs
  <2>7. Translate(a)' = Translation(Leaf(mem', a), a)
    <3>1. (Lookup(a, g_pml4))' = Leaf(mem', a)
      BY <2>2, <2>3 DEF Tables, Lookup, Leaf
    <3> QED BY <2>1, <2>3, <3>1 DEF Translate, Translation
  <2> QED BY <2>5, <2>6, <2>7
<1>2. ASSUME MapPage, ~job.huge, Lookup(job.next, g_pml4).cache_disable
      PROVE  mem' = mem /\ used' = used
  <2>1. pc = "paging_init" \/ pc = "running"
    BY <1>2 DEF IInv, NotYet, Tables, MapPage
  <2>2. pc # "paging_init"
    BY <1>2 DEF IInv, Building, InRegionJob, MapPage
  <2>3. Tables /\ DeviceJob /\ job.next < job.end
    BY <1>2, <2>1, <2>2 DEF IInv, NotYet, MapPage
  <2>4. PICK a : a = job.next
    OBVIOUS
  <2>5. a \in Addresses /\ ~InRegion(mmap, a \div HugePage)
    BY <2>3, <2>4, DeviceFits
  <2>6. Leaf(mem, a).cache_disable
    BY <1>2, <2>3, <2>4, LookupIsLeaf DEF Tables
  <2>7. map_page_4kb(a, TRUE).mem = mem /\ map_page_4kb(a, TRUE).used = used
    BY <2>3, <2>5, <2>6, MapsSmall DEF Tables
  <2> QED BY <1>2, <2>3, <2>4, <2>7, NextPage DEF DeviceJob
<1> QED BY <1>1, <1>2

LEMMA StepDevice ==
  ASSUME InReach, IInv, RegionDone
  PROVE  \A a \in job.request[1]..(job.request[1] + job.request[2] - 1) :
           Translate(a) = a /\ Lookup(a, g_pml4).cache_disable
<1>1. Tables /\ DeviceJob /\ job.next >= job.end
  BY DEF IInv, NotYet, RegionDone
<1>2. PICK d \in Devices : d = job.request
  BY <1>1 DEF DeviceJob
<1>3. d \in Nat \X Nat /\ job.next \in Nat /\ job.end \in Nat
  BY <1>1, <1>2, PagingAssumption DEF DeviceJob, Job
<1>4. ASSUME NEW a \in d[1]..(d[1] + d[2] - 1)
      PROVE  Translate(a) = a /\ Lookup(a, g_pml4).cache_disable
  <2>1. /\ a \in Nat /\ d[1] \in Nat /\ d[1] + d[2] \in Nat
        /\ d[1] <= a /\ a < d[1] + d[2]
    BY <1>3
  <2>2. job.end = AlignUp(d[1] + d[2], Page) /\ job.end <= Reach /\ Reach \in Nat
    BY <1>1, <1>2, Sizes DEF DeviceJob, LastPage, InReach, Reach
  <2>3. /\ a \div Page < job.end \div Page /\ job.end >= d[1] + d[2]
        /\ AlignDown(d[1], Page) \div Page = d[1] \div Page
    BY <2>1, <2>2, Rounds, Sizes
  <2>4. d[1] \div Page <= a \div Page /\ job.end \div Page <= job.next \div Page
    BY <1>1, <1>3, <2>1, DivMono, Sizes
  <2>5. a \in Addresses
    BY <1>3, <2>1, <2>2, <2>3 DEF Addresses
  <2>6. a \div Page \in Nat /\ job.end \div Page \in Nat /\ job.next \div Page \in Nat
    BY <1>3, <2>1, DivMod, Sizes
  <2>7. SmallMapped(mem, AlignDown(d[1], Page), job.next)
    BY <1>1, <1>2 DEF DeviceJob
  <2>8. a \div Page < job.next \div Page
    BY <2>3, <2>4, <2>6
  <2>9. Leaf(mem, a) = SmallPage(a \div Page)
    BY <2>3, <2>4, <2>5, <2>7, <2>8 DEF SmallMapped
  <2> QED BY <1>1, <2>5, <2>9, TranslateIs, Identity, LookupIsLeaf, HugeOrNot DEF Tables
<1> QED BY <1>2, <1>4

(* What a driver may count on: its registers have indices, its request is  *)
(* under way until it is done, and the tables are in force.                *)
LEMMA DeviceReach ==
  ASSUME InReach, NEW d \in Devices, NEW a \in d[1]..(d[1] + d[2] - 1)
  PROVE  a \in Addresses /\ a # NULL
<1>1. /\ d[1] \in Nat /\ d[2] \in Nat
  BY PagingAssumption
<1>2. a \in Nat /\ a < d[1] + d[2] /\ d[1] + d[2] \in Nat
  BY <1>1
<1>3. LastPage(d[1], d[2]) <= Reach /\ Reach \in Nat
  BY Sizes DEF InReach, Reach
<1>4. LastPage(d[1], d[2]) \in Nat /\ LastPage(d[1], d[2]) >= d[1] + d[2]
  BY <1>2, Rounds, Sizes DEF LastPage
<1>5. a < Reach
  BY <1>2, <1>3, <1>4
<1> QED BY <1>2, <1>3, <1>5 DEF Addresses, NULL

LEMMA RequestGoesOn ==
  ASSUME IInv, pc = "running", job # NoJob, MapPage
  PROVE  job' # NoJob /\ job'.request = job.request
<1>1. job \in Job /\ job.cache_disable = TRUE
  BY DEF IInv, DeviceJob
<1>2. job' = [job EXCEPT !.next = @ + (IF job.huge THEN HugePage ELSE Page)]
  BY DEF MapPage
<1>3. job'.request = job.request /\ job'.cache_disable = TRUE
  BY <1>1, <1>2 DEF Job
<1> QED BY <1>3

LEMMA InForce == ASSUME IInv PROVE pc = "running" => cr3 # NULL
BY DEF IInv

-----------------------------------------------------------------------------
(* IInv holds of every state, and every step is one of those above.        *)
THEOREM Invariance == ASSUME InReach, Apart PROVE Spec => []IInv
<1>1. Init => IInv
  BY InitInv
<1>2. IInv /\ [Next]_vars => IInv'
  BY StepInv
<1> QED BY <1>1, <1>2, PTL DEF Spec

(* What is mapped is mapped to itself, and from the moment cr3 is loaded   *)
(* low memory, the kernel with its page tables and all usable memory are   *)
(* mapped (paging_init), whatever drivers map later.                       *)
THEOREM KernelStaysMappedHolds == ASSUME InReach, Apart PROVE Spec => []KernelStaysMapped
<1>1. IInv => KernelStaysMapped
  BY InvKernel
<1> QED BY <1>1, Invariance, PTL

(* Every table but the top one hangs under exactly one entry and no page   *)
(* is written as a table (map_page_4kb, map_page_2mb, alloc_page_table).   *)
THEOREM TablesFormTreeHolds == ASSUME InReach, Apart PROVE Spec => []TablesFormTree
<1>1. IInv => TablesFormTree
  BY InvTree
<1> QED BY <1>1, Invariance, PTL

(* No mapping is removed or moved, and registers mapped again by another   *)
(* CPU change no table.                                                    *)
THEOREM MappingsStayHolds == ASSUME InReach, Apart PROVE Spec => MappingsStay
<1>1. IInv /\ [Next]_vars =>
        [/\ \A a \in Addresses : Translate(a) # NULL => Translate(a)' = Translate(a)
         /\ (MapPage /\ ~job.huge /\ Lookup(job.next, g_pml4).cache_disable)
              => UNCHANGED <<mem, used>>]_vars
  BY StepMappings
<1> QED BY <1>1, Invariance, PTL DEF Spec, MappingsStay

(* When paging_map_mmio_region returns, the registers it was asked for are *)
(* mapped, uncached.                                                       *)
THEOREM DeviceMappedHolds == ASSUME InReach, Apart PROVE Spec => DeviceMapped
<1>1. IInv /\ [Next]_vars =>
        [RegionDone =>
           \A a \in job.request[1]..(job.request[1] + job.request[2] - 1) :
             Translate(a) = a /\ Lookup(a, g_pml4).cache_disable]_vars
  BY StepDevice
<1> QED BY <1>1, Invariance, PTL DEF Spec, DeviceMapped
=============================================================================
