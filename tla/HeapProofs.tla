----------------------------- MODULE HeapProofs -----------------------------
(***************************************************************************)
(* TLAPS proofs about Heap, for any widths of the page tables, any size     *)
(* of memory and any list of benchmarks.  First the free list: it stays a   *)
(* list of pages of the heap that no page table in use occupies.  Then,     *)
(* as long as it is not empty, what the tables translate, and with it the   *)
(* refinement of AddressSpace.  Last the number of pages taken, which       *)
(* says how much memory is enough for the list never to be empty.           *)
(***************************************************************************)
EXTENDS Heap, LeastNumber, FiniteSetTheorems

-----------------------------------------------------------------------------
(* The invariant. *)

Word == [addr : Int, present : BOOLEAN]

\* Which tables are in cr3 and start_cr3.
Building == pc = "install_pages" \/ (pc = "walk" /\ ret = "install_pages")
Switched == pc \in {"alloc_vpages", "install_io", "cleanup"} \/ (pc = "walk" /\ ret = "install_io")

ControlInv ==
    /\ pc \in {"link", "next", "install_pages", "walk", "alloc_vpages", "install_io", "cleanup"}
    /\ ret \in {"install_pages", "install_io"}
    /\ pc \in {"link", "next"} \/ Building => cr3 = BootCr3
    /\ Switched => start_cr3 = BootCr3
    /\ job \in Nat \ {0} /\ (pc \notin {"link", "next"} => job <= Len(Jobs))
    /\ virt \in Int /\ phys \in Int /\ vfree_top \in Int

\* The free list is what is left of the heap, from freelist to its end, in the
\* order of the addresses: pages are only ever taken from its head.
Chain ==
    /\ pc = "link" =>
          /\ cursor \in HeapBase .. end - 1 /\ freelist = HeapBase
          /\ \A q \in HeapBase .. cursor - 1 : mem[q][0].addr = q + 1
    /\ pc # "link" =>
          \A q \in freelist .. end - 1 : mem[q][0].addr = IF q + 1 = end THEN 0 ELSE q + 1

\* lev gives each page in use as a table its level, and 0 to the other pages.
\* A page has one level only, so the walk never takes an entry that maps a page
\* for one that leads to a table.
Ranked(lev) ==
    /\ lev \in [Page -> 0 .. Levels]
    /\ \A q \in Page : lev[q] > 0 => q \in HeapBase .. freelist - 1
    /\ \A q \in Page, o \in Offset :
          lev[q] > 1 /\ mem[q][o].present =>
              mem[q][o].addr \in Page /\ lev[mem[q][o].addr] = lev[q] - 1
    /\ cr3 # BootCr3 => cr3 \in Page /\ lev[cr3] = Levels
    /\ pc = "alloc_vpages" => cr3 # BootCr3
    /\ pc \in {"install_pages", "install_io", "walk"} => root \in Page /\ lev[root] = Levels
    /\ pc = "walk" => pt \in Page /\ level \in 1 .. Levels /\ lev[pt] = level

HeapInv ==
    /\ mem \in [Page -> [Offset -> Word]]
    /\ end \in HeapBase + 1 .. Gib4 /\ freelist \in HeapBase .. end - 1
    /\ Chain
    /\ \E lev : Ranked(lev)

\* Once the list is empty it stays empty, and nothing is said of the tables:
\* install_pte() goes on with page 0.
IInv == ControlInv /\ (freelist # 0 => HeapInv)

-----------------------------------------------------------------------------
(* Offsets. *)

\* The constants.
LEMMA Constants ==
    /\ Fan \in Nat /\ Fan > 1 /\ Levels \in Nat /\ Levels > 0 /\ Gib4 \in Nat
    /\ HeapBase \in Nat /\ HeapBase > 0 /\ 0 \in Offset /\ Len(Jobs) \in Nat
    /\ \A e \in HeapEnds : e \in HeapBase + 1 .. Gib4
  BY HeapAssumption DEF Offset

\* Span satisfies its recursion.
LEMMA SpanStep ==
    \A l \in 0 .. Levels : Span[l] = IF l = 0 THEN 1 ELSE Fan * Span[l - 1]
  <1>0. Fan \in Nat \ {0} /\ Levels \in Nat
    BY Constants
  <1> DEFINE eq(f) == f = [l \in 0 .. Levels |-> IF l = 0 THEN 1 ELSE Fan * f[l - 1]]
  <1>1. \E f : eq(f)
    <2> DEFINE G == [x \in Nat \X (Nat \ {0}) |-> Fan * x[2]]
    <2>1. G \in [Nat \X (Nat \ {0}) -> Nat \ {0}]
      <3>1. \A x \in Nat \X (Nat \ {0}) : Fan * x[2] \in Nat \ {0}
        <4>1. \A y \in Nat \ {0} : Fan * y \in Nat \ {0}
          BY <1>0
        <4> QED  BY <4>1
      <3> QED  BY <3>1
    <2>2. \A n \in Nat, y \in Nat \ {0} : G[<<n, y>>] = Fan * y
      OBVIOUS
    <2> HIDE DEF G
    <2>3. 1 \in Nat \ {0}
      OBVIOUS
    <2>4. PICK h : Recurses(h, Nat \ {0}, 1, G)
      BY <2>1, <2>3, Recursion
    <2>5. \A n \in Nat : h[n + 1] = Fan * h[n]
      BY <2>2, <2>4 DEF Recurses
    <2> DEFINE f == [l \in 0 .. Levels |-> h[l]]
    <2>6. ASSUME NEW l \in 0 .. Levels
          PROVE  f[l] = IF l = 0 THEN 1 ELSE Fan * f[l - 1]
      <3>1. CASE l = 0
        BY <3>1, <2>4, <1>0 DEF Recurses
      <3>2. CASE l # 0
        <4>1. l - 1 \in Nat /\ l - 1 \in 0 .. Levels /\ l - 1 + 1 = l
          BY <3>2, <1>0
        <4>2. h[l - 1 + 1] = Fan * h[l - 1]
          BY <4>1, <2>5
        <4>3. f[l] = h[l] /\ f[l - 1] = h[l - 1]
          BY <4>1
        <4> QED  BY <3>2, <4>1, <4>2, <4>3
      <3> QED  BY <3>1, <3>2
    <2>7. f = [l \in 0 .. Levels |-> f[l]]
      OBVIOUS
    <2> HIDE DEF f
    <2>8. eq(f)
      BY <2>6, <2>7
    <2> QED  BY <2>8
  <1>2. eq(Span)
    BY <1>1 DEF Span
  <1> HIDE DEF eq
  <1> QED
    BY <1>2 DEF eq

\* It is positive.
LEMMA SpanPositive == \A l \in 0 .. Levels : Span[l] \in Nat \ {0}
  <1>0. Fan \in Nat \ {0} /\ Levels \in Nat
    BY Constants
  <1>3. ASSUME NEW l \in 0 .. Levels
        PROVE  Span[l] = IF l = 0 THEN 1 ELSE Fan * Span[l - 1]
    BY SpanStep
  <1> DEFINE T == {n \in Nat : n =< Levels => Span[n] \in Nat \ {0}}
  <1>4. 0 \in T
    BY <1>0, <1>3
  <1>5. ASSUME NEW n \in Nat, n \in T
        PROVE  n + 1 \in T
    <2>1. CASE n + 1 =< Levels
      <3>1. Span[n + 1] = Fan * Span[n]
        <4>1. n + 1 \in 0 .. Levels /\ n + 1 # 0 /\ n + 1 - 1 = n
          BY <2>1, <1>0
        <4> QED  BY <4>1, <1>3
      <3>2. Span[n] \in Nat \ {0}
        BY <1>0, <1>5, <2>1
      <3>3. Fan * Span[n] \in Nat \ {0}
        BY <1>0, <3>2
      <3> QED  BY <3>1, <3>3
    <2>2. CASE ~(n + 1 =< Levels)
      BY <2>2
    <2> QED  BY <2>1, <2>2
  <1> HIDE DEF T
  <1>6. Nat \subseteq T
    BY <1>4, <1>5, SetInduction
  <1> QED
    BY <1>0, <1>6 DEF T

\* The offset of an address in a table is one of its entries.
LEMMA OffsetInTable ==
    ASSUME NEW v \in Int, NEW l \in 1 .. Levels
    PROVE  PGDIR_OFFSET(v, l) \in Offset
  <1>1. l - 1 \in 0 .. Levels
    BY Constants
  <1>2. Span[l - 1] \in Nat \ {0}
    BY <1>1, SpanPositive
  <1>3. \A q \in Nat \ {0} : (v \div q) % Fan \in 0 .. Fan - 1
    BY Constants
  <1> QED
    BY <1>2, <1>3 DEF PGDIR_OFFSET, Offset

-----------------------------------------------------------------------------
(* The free list as FreeAt reads it. *)

\* The recursion of FreeAt.
FreeEq(n) ==
    n = [k \in 0 .. Gib4 |->
           IF k = 0 THEN freelist
           ELSE LET prev == n[k - 1] IN IF prev = 0 THEN 0 ELSE mem[prev][0].addr]

\* One step of it.
LEMMA FreeStep ==
    ASSUME NEW f, FreeEq(f), NEW k \in Nat, k + 1 =< Gib4
    PROVE  f[k + 1] = IF f[k] = 0 THEN 0 ELSE mem[f[k]][0].addr
  <1> DEFINE g(x) == IF x = 0 THEN 0 ELSE mem[x][0].addr
             e(j) == g(f[j - 1])
  <1>1. f = [j \in 0 .. Gib4 |-> IF j = 0 THEN freelist ELSE e(j)]
    BY Zenon DEF FreeEq
  <1>2. e(k + 1) = g(f[k])
    <2> HIDE DEF g
    <2>1. k + 1 - 1 = k
      OBVIOUS
    <2> QED  BY <2>1
  <1> HIDE DEF e
  <1>3. k + 1 \in 0 .. Gib4 /\ k + 1 # 0
    BY Constants
  <1>4. f[k + 1] = e(k + 1)
    BY <1>1, <1>3
  <1> QED
    BY <1>2, <1>4

\* Two functions that satisfy it are the same.
LEMMA FreeEqUnique ==
    ASSUME NEW f, NEW g, FreeEq(f), FreeEq(g)
    PROVE  \A k \in 0 .. Gib4 : f[k] = g[k]
  <1> DEFINE T == {k \in Nat : k =< Gib4 => f[k] = g[k]}
  <1>0. Gib4 \in Nat
    BY Constants
  <1>1. 0 \in T
    BY <1>0 DEF FreeEq
  <1>2. ASSUME NEW k \in Nat, k \in T
        PROVE  k + 1 \in T
    <2>1. CASE k + 1 =< Gib4
      <3>2. f[k + 1] = (IF f[k] = 0 THEN 0 ELSE mem[f[k]][0].addr)
        BY <2>1, FreeStep
      <3>3. g[k + 1] = (IF g[k] = 0 THEN 0 ELSE mem[g[k]][0].addr)
        BY <2>1, FreeStep
      <3>4. f[k] = g[k]
        BY <1>2, <2>1, <1>0
      <3> QED  BY <3>2, <3>3, <3>4
    <2>2. CASE ~(k + 1 =< Gib4)
      BY <2>2
    <2> QED  BY <2>1, <2>2
  <1> HIDE DEF T
  <1>3. Nat \subseteq T
    BY <1>1, <1>2, SetInduction
  <1> QED
    BY <1>0, <1>3 DEF T

\* A function that satisfies it is FreeAt.
LEMMA FreeAtIs ==
    ASSUME NEW f, FreeEq(f)
    PROVE  \A k \in 0 .. Gib4 : FreeAt[k] = f[k]
  <1>1. FreeAt = CHOOSE n : FreeEq(n)
    BY Zenon DEF FreeAt, FreeEq
  <1>2. FreeEq(FreeAt)
    BY <1>1, Zenon
  <1> QED
    BY <1>2, FreeEqUnique

\* An empty list has no pages.
LEMMA EmptyList ==
    ASSUME freelist = 0
    PROVE  FreeAt[Gib4] = 0 /\ Free = {}
  <1> DEFINE f == [k \in 0 .. Gib4 |-> 0]
  <1>0. Gib4 \in 0 .. Gib4
    BY Constants
  <1>1. \A k \in 0 .. Gib4 : k # 0 => k - 1 \in 0 .. Gib4
    BY Constants
  <1>2. FreeEq(f)
    BY <1>1 DEF FreeEq
  <1>3. \A k \in 0 .. Gib4 : f[k] = 0
    OBVIOUS
  <1> HIDE DEF f
  <1>4. \A k \in 0 .. Gib4 : FreeAt[k] = 0
    BY <1>2, <1>3, FreeAtIs
  <1> QED
    BY <1>0, <1>4 DEF Free

\* A list that is the rest of the heap has its pages.
LEMMA ListIsRest ==
    ASSUME HeapInv, pc # "link"
    PROVE  FreeAt[Gib4] = 0 /\ Free = freelist .. end - 1
  <1> DEFINE f == [k \in 0 .. Gib4 |-> IF freelist + k < end THEN freelist + k ELSE 0]
  <1>0. /\ Gib4 \in Nat /\ HeapBase \in Nat /\ HeapBase > 0
        /\ end \in Nat /\ end <= Gib4 /\ freelist \in Nat /\ freelist >= HeapBase /\ freelist < end
    BY Constants DEF HeapInv
  <1>1. \A q \in freelist .. end - 1 : mem[q][0].addr = IF q + 1 = end THEN 0 ELSE q + 1
    BY DEF HeapInv, Chain
  <1>2. ASSUME NEW k \in 0 .. Gib4
        PROVE  f[k] = IF k = 0 THEN freelist
                      ELSE LET prev == f[k - 1] IN IF prev = 0 THEN 0 ELSE mem[prev][0].addr
    <2>1. CASE k = 0
      BY <2>1, <1>0
    <2>2. CASE k # 0
      <3>1. k - 1 \in 0 .. Gib4 /\ k - 1 + 1 = k
        BY <2>2, <1>0
      <3> DEFINE prev == f[k - 1]
      <3>2. prev = IF freelist + (k - 1) < end THEN freelist + (k - 1) ELSE 0
        BY <3>1
      <3>3. f[k] = IF freelist + k < end THEN freelist + k ELSE 0
        OBVIOUS
      <3> HIDE DEF f, prev
      <3>4. CASE freelist + (k - 1) < end
        <4>1. /\ prev = freelist + (k - 1) /\ prev # 0 /\ prev \in freelist .. end - 1
              /\ (prev + 1 = end <=> ~(freelist + k < end)) /\ prev + 1 = freelist + k
          BY <3>1, <3>2, <3>4, <1>0
        <4>2. mem[prev][0].addr = IF prev + 1 = end THEN 0 ELSE prev + 1
          BY <4>1, <1>1
        <4>3. f[k] = mem[prev][0].addr
          BY <4>1, <4>2, <3>3
        <4> QED  BY <2>2, <4>1, <4>3 DEF prev
      <3>5. CASE ~(freelist + (k - 1) < end)
        <4>1. prev = 0 /\ f[k] = 0
          BY <3>1, <3>2, <3>3, <3>5, <1>0
        <4> QED  BY <2>2, <4>1 DEF prev
      <3> QED  BY <3>4, <3>5
    <2> QED  BY <2>1, <2>2
  <1>3. f = [k \in 0 .. Gib4 |-> f[k]]
    OBVIOUS
  <1>4. \A k \in 0 .. Gib4 : f[k] = 0 \/ f[k] \in freelist .. end - 1
    BY <1>0
  <1>5. f[Gib4] = 0 /\ Gib4 \in 0 .. Gib4
    BY <1>0
  <1>6. ASSUME NEW q \in freelist .. end - 1
        PROVE  \E k \in 0 .. Gib4 : f[k] = q
    <2>1. q - freelist \in 0 .. Gib4 /\ freelist + (q - freelist) = q /\ q < end
      BY <1>0
    <2>2. f[q - freelist] = q
      BY <2>1
    <2> QED  BY <2>1, <2>2
  <1> HIDE DEF f
  <1>7. FreeEq(f)
    BY <1>2, <1>3 DEF FreeEq
  <1>8. \A k \in 0 .. Gib4 : FreeAt[k] = f[k]
    BY <1>7, FreeAtIs
  <1>9. 0 \notin freelist .. end - 1
    BY <1>0
  <1>10. \A q \in freelist .. end - 1 : \E k \in 0 .. Gib4 : FreeAt[k] = q
    BY <1>6, <1>8
  <1>11. \A k \in 0 .. Gib4 : FreeAt[k] = 0 \/ FreeAt[k] \in freelist .. end - 1
    BY <1>4, <1>8
  <1>12. Free = freelist .. end - 1
    BY <1>9, <1>10, <1>11 DEF Free
  <1> QED
    BY <1>5, <1>8, <1>12

-----------------------------------------------------------------------------
(* The tables reached from a root. *)

\* The tables that the entries of tables X lead to.
Below(X) ==
    {mem[x[1]][x[2]].addr : x \in {y \in X \X Offset : mem[y[1]][y[2]].present}}

\* The pages of level l.
OfLevel(lev, l) == {q \in Page : lev[q] = l}

\* The recursion of TablesOf.
TablesEq(s, r) == s = [l \in 1 .. Levels |-> IF l = Levels THEN {r} ELSE Below(s[l + 1])]

\* Entries lead one level down.
LEMMA OneDown ==
    ASSUME NEW lev, Ranked(lev), NEW l \in Nat, l > 1, NEW X, X \subseteq OfLevel(lev, l)
    PROVE  Below(X) \subseteq OfLevel(lev, l - 1)
  <1> SUFFICES ASSUME NEW y \in X \X Offset, mem[y[1]][y[2]].present
               PROVE  mem[y[1]][y[2]].addr \in OfLevel(lev, l - 1)
    BY DEF Below
  <1>1. y[1] \in Page /\ lev[y[1]] = l /\ y[2] \in Offset
    BY DEF OfLevel
  <1>2. mem[y[1]][y[2]].addr \in Page /\ lev[mem[y[1]][y[2]].addr] = lev[y[1]] - 1
    BY <1>1 DEF Ranked
  <1> QED
    BY <1>1, <1>2 DEF OfLevel

\* Every solution has tables of level l at level l.
LEMMA SolutionRanked ==
    ASSUME NEW r \in Page, NEW lev, Ranked(lev), lev[r] = Levels, NEW s, TablesEq(s, r)
    PROVE  \A l \in 1 .. Levels : s[l] \subseteq OfLevel(lev, l)
  <1>0. Levels \in Nat /\ Levels > 0
    BY Constants
  <1> DEFINE T == {m \in Nat : m < Levels => s[Levels - m] \subseteq OfLevel(lev, Levels - m)}
  <1>1. \A l \in 1 .. Levels : s[l] = IF l = Levels THEN {r} ELSE Below(s[l + 1])
    BY DEF TablesEq
  <1>2. 0 \in T
    <2>1. s[Levels] = {r} /\ Levels - 0 = Levels
      BY <1>0, <1>1
    <2>2. {r} \subseteq OfLevel(lev, Levels)
      BY DEF OfLevel
    <2> QED  BY <2>1, <2>2
  <1>3. ASSUME NEW m \in Nat, m \in T
        PROVE  m + 1 \in T
    <2>1. CASE m + 1 < Levels
      <3> DEFINE l == Levels - m
      <3>1. l \in Nat /\ l > 1 /\ l - 1 \in 1 .. Levels /\ l - 1 # Levels /\ l - 1 + 1 = l
            /\ Levels - (m + 1) = l - 1 /\ m < Levels
        BY <1>0, <2>1
      <3>2. s[l] \subseteq OfLevel(lev, l)
        BY <1>3, <3>1
      <3> HIDE DEF l
      <3>3. s[l - 1] = Below(s[l])
        BY <1>1, <3>1
      <3>4. Below(s[l]) \subseteq OfLevel(lev, l - 1)
        BY <3>1, <3>2, OneDown
      <3> QED  BY <3>1, <3>3, <3>4
    <2>2. CASE ~(m + 1 < Levels)
      BY <2>2
    <2> QED  BY <2>1, <2>2
  <1> HIDE DEF T
  <1>4. Nat \subseteq T
    BY <1>2, <1>3, SetInduction
  <1>5. ASSUME NEW l \in 1 .. Levels
        PROVE  s[l] \subseteq OfLevel(lev, l)
    <2>1. Levels - l \in Nat /\ Levels - l < Levels /\ Levels - (Levels - l) = l
      BY <1>0
    <2>2. Levels - l \in T
      BY <1>4, <2>1
    <2> QED  BY <2>1, <2>2 DEF T
  <1> QED
    BY <1>5

\* There is a solution.
LEMMA TablesEqExists ==
    ASSUME NEW r \in Page, NEW lev, Ranked(lev), lev[r] = Levels
    PROVE  \E s : TablesEq(s, r)
  <1>0. Levels \in Nat /\ Levels > 0
    BY Constants
  <1> DEFINE G == [z \in Nat \X SUBSET Page |-> Below(z[2]) \cap Page]
  <1>1. G \in [Nat \X SUBSET Page -> SUBSET Page]
    OBVIOUS
  <1>2. \A n \in Nat, X \in SUBSET Page : G[<<n, X>>] = Below(X) \cap Page
    OBVIOUS
  <1> HIDE DEF G
  <1>3. {r} \in SUBSET Page
    OBVIOUS
  <1>4. PICK h : Recurses(h, SUBSET Page, {r}, G)
    BY <1>1, <1>3, Recursion
  <1>5. /\ h \in [Nat -> SUBSET Page] /\ h[0] = {r}
        /\ \A n \in Nat : h[n + 1] = Below(h[n]) \cap Page
    BY <1>2, <1>4 DEF Recurses
  <1> DEFINE T == {m \in Nat : m < Levels => h[m] \subseteq OfLevel(lev, Levels - m)}
  <1>6. 0 \in T
    BY <1>0, <1>5 DEF OfLevel
  <1>7. ASSUME NEW m \in Nat, m \in T
        PROVE  m + 1 \in T
    <2>1. CASE m + 1 < Levels
      <3>1. Levels - m \in Nat /\ Levels - m > 1 /\ Levels - (m + 1) = Levels - m - 1 /\ m < Levels
        BY <1>0, <2>1
      <3>2. h[m] \subseteq OfLevel(lev, Levels - m)
        BY <1>7, <3>1
      <3>3. Below(h[m]) \subseteq OfLevel(lev, Levels - m - 1)
        BY <3>1, <3>2, OneDown
      <3> QED  BY <1>5, <3>1, <3>3
    <2>2. CASE ~(m + 1 < Levels)
      BY <2>2
    <2> QED  BY <2>1, <2>2
  <1> HIDE DEF T
  <1>8. Nat \subseteq T
    BY <1>6, <1>7, SetInduction
  <1>9. ASSUME NEW m \in Nat, m + 1 < Levels
        PROVE  h[m + 1] = Below(h[m])
    <2>1. Levels - m \in Nat /\ Levels - m > 1 /\ m < Levels
      BY <1>0, <1>9
    <2>2. h[m] \subseteq OfLevel(lev, Levels - m)
      BY <1>8, <2>1 DEF T
    <2>3. Below(h[m]) \subseteq Page
      BY <2>1, <2>2, OneDown DEF OfLevel
    <2> QED  BY <1>5, <2>3
  <1> DEFINE s == [l \in 1 .. Levels |-> h[Levels - l]]
  <1>10. ASSUME NEW l \in 1 .. Levels
         PROVE  s[l] = IF l = Levels THEN {r} ELSE Below(s[l + 1])
    <2>1. CASE l = Levels
      BY <2>1, <1>0, <1>5
    <2>2. CASE l # Levels
      <3> DEFINE m == Levels - (l + 1)
      <3>1. m \in Nat /\ m + 1 < Levels /\ m + 1 = Levels - l /\ l + 1 \in 1 .. Levels
        BY <2>2, <1>0
      <3>2. s[l] = h[m + 1] /\ s[l + 1] = h[m]
        BY <3>1
      <3> HIDE DEF s, m
      <3>3. h[m + 1] = Below(h[m])
        BY <3>1, <1>9
      <3> QED  BY <2>2, <3>2, <3>3
    <2> QED  BY <2>1, <2>2
  <1>11. s = [l \in 1 .. Levels |-> s[l]]
    OBVIOUS
  <1> HIDE DEF s
  <1>12. TablesEq(s, r)
    BY <1>10, <1>11 DEF TablesEq
  <1> QED
    BY <1>12

\* The tables of a root are pages with a level.
LEMMA TablesRanked ==
    ASSUME NEW r \in Page, NEW lev, Ranked(lev), lev[r] = Levels
    PROVE  TablesOf(r) \subseteq HeapBase .. freelist - 1
  <1> DEFINE s == CHOOSE s : TablesEq(s, r)
  <1>1. TablesEq(s, r)
    BY TablesEqExists, Zenon
  <1>2. TablesOf(r) = UNION {s[l] : l \in 1 .. Levels}
    BY Zenon DEF TablesOf, TablesEq, Below
  <1> HIDE DEF s
  <1>3. \A l \in 1 .. Levels : s[l] \subseteq OfLevel(lev, l)
    BY <1>1, SolutionRanked
  <1>4. ASSUME NEW l \in 1 .. Levels, NEW q \in s[l]
        PROVE  q \in HeapBase .. freelist - 1
    <2>1. q \in Page /\ lev[q] = l
      BY <1>3 DEF OfLevel
    <2>2. lev[q] > 0
      BY <2>1, Constants
    <2> QED  BY <2>1, <2>2 DEF Ranked
  <1> QED
    BY <1>2, <1>4

\* The invariant has the property.
LEMMA FreeListFromInv == ASSUME IInv PROVE FreeListSound
  <1> SUFFICES ASSUME pc # "link" PROVE FreeListSound
    BY DEF FreeListSound
  <1>1. CASE freelist = 0
    BY <1>1, EmptyList DEF FreeListSound
  <1>2. CASE freelist # 0
    <2>1. HeapInv
      BY <1>2 DEF IInv
    <2>2. FreeAt[Gib4] = 0 /\ Free \subseteq freelist .. end - 1
      BY <2>1, ListIsRest
    <2>3. /\ HeapBase \in Nat /\ end \in Nat /\ freelist \in Nat /\ freelist >= HeapBase
      BY <2>1, Constants DEF HeapInv
    <2>4. Free \subseteq HeapBase .. end - 1
      BY <2>2, <2>3
    <2>5. PICK lev : Ranked(lev)
      BY <2>1 DEF HeapInv
    <2>6. ASSUME NEW r \in Roots
          PROVE  TablesOf(r) \cap Free = {}
      <3>1. r \in Page /\ lev[r] = Levels
        BY <2>5 DEF Roots, Ranked
      <3>2. TablesOf(r) \subseteq HeapBase .. freelist - 1
        BY <3>1, <2>5, TablesRanked
      <3>3. (HeapBase .. freelist - 1) \cap (freelist .. end - 1) = {}
        BY <2>3
      <3> QED  BY <3>2, <3>3, <2>2
    <2> QED  BY <2>2, <2>4, <2>6 DEF FreeListSound
  <1> QED
    BY <1>1, <1>2

-----------------------------------------------------------------------------
(* Initially, and a list that is empty. *)

\* The invariant holds when early_mem_init() calls get_free_pages().
LEMMA InitInv == ASSUME Init PROVE IInv
  <1>1. ControlInv
    BY DEF Init, ControlInv, Building, Switched
  <1>2. mem \in [Page -> [Offset -> Word]]
    BY DEF Init, Word, Junk
  <1>3. end \in HeapBase + 1 .. Gib4 /\ freelist \in HeapBase .. end - 1
    BY Constants DEF Init
  <1>4. Chain
    <2>1. cursor \in HeapBase .. end - 1 /\ freelist = HeapBase /\ HeapBase .. cursor - 1 = {}
      BY <1>3, Constants DEF Init
    <2>2. pc = "link"
      BY DEF Init
    <2> QED  BY <2>1, <2>2 DEF Chain
  <1>5. Ranked([q \in Page |-> 0])
    BY Constants DEF Init, Ranked
  <1> QED
    BY <1>1, <1>2, <1>3, <1>4, <1>5 DEF IInv, HeapInv

\* heap_alloc_page() of an empty list leaves it empty.
LEMMA StaysEmpty == ASSUME freelist = 0, [Next]_vars PROVE freelist' = 0
  <1>1. heap_alloc_page(mem, freelist).freelist = 0
    BY DEF heap_alloc_page
  <1> QED
    BY <1>1 DEF Next, vars, heapVars, LinkPage, LinkLast, SkipJob, SetupMmu, InstallPages,
        InstallIo, StartWalk, WalkLevel, WritePte, WriteCr3, AllocVpages, IoInstalled,
        SwitchToStart, AllDone

\* Where the control goes, and what it does to cr3.
LEMMA ControlKept == ASSUME ControlInv, [Next]_vars PROVE ControlInv'
  <1> USE DEF ControlInv, Building, Switched
  <1>1. CASE UNCHANGED vars
    BY <1>1 DEF vars, mmuVars, callVars, walkVars
  <1>2. CASE LinkPage
    BY <1>2 DEF LinkPage, mmuVars, callVars, walkVars
  <1>3. CASE LinkLast
    BY <1>3 DEF LinkLast, mmuVars, callVars, walkVars
  <1>4. CASE SkipJob
    BY <1>4 DEF SkipJob, mmuVars, callVars, walkVars
  <1>5. CASE SetupMmu
    BY <1>5, Constants DEF SetupMmu, mmuVars, walkVars
  <1>6. CASE InstallPages
    BY <1>6 DEF InstallPages, StartWalk, mmuVars, callVars
  <1>7. CASE InstallIo
    BY <1>7 DEF InstallIo, StartWalk, mmuVars, callVars
  <1>8. CASE WalkLevel
    BY <1>8 DEF WalkLevel, mmuVars, callVars
  <1>9. CASE WritePte
    BY <1>9 DEF WritePte, mmuVars, walkVars
  <1>10. CASE WriteCr3
    BY <1>10 DEF WriteCr3, callVars, walkVars
  <1>11. CASE AllocVpages
    <2>1. job \in 1 .. Len(Jobs) /\ VPages \in Nat \ {0} /\ IoRam \in Int
      BY <1>11, Constants, SpanPositive DEF AllocVpages, VPages, IoRam
    <2>2. Jobs[job].vpages \in Nat
      BY <2>1, HeapAssumption DEF IsBenchmark
    <2>3. vfree_top' \in Int
      BY <2>1, <2>2, <1>11 DEF AllocVpages
    <2> QED
      BY <2>1, <2>3, <1>11 DEF AllocVpages, mmuVars, walkVars
  <1>12. CASE IoInstalled
    BY <1>12 DEF IoInstalled, mmuVars, callVars, walkVars
  <1>13. CASE SwitchToStart
    BY <1>13 DEF SwitchToStart, callVars, walkVars
  <1>14. CASE AllDone
    BY <1>14, <1>1 DEF AllDone
  <1> QED
    BY <1>1, <1>2, <1>3, <1>4, <1>5, <1>6, <1>7, <1>8, <1>9, <1>10, <1>11, <1>12, <1>13, <1>14
       DEF Next

-----------------------------------------------------------------------------
(* Steps that keep the memory. *)

\* They keep the list, and the levels need a look at the registers only.
LEMMA MemoryKept ==
    ASSUME HeapInv, UNCHANGED <<mem, freelist, end, cursor>>, (pc = "link") = (pc' = "link"),
           NEW lev, Ranked(lev)'
    PROVE  HeapInv'
  <1>1. Chain'
    BY DEF HeapInv, Chain
  <1> QED
    BY <1>1 DEF HeapInv

\* What the levels say of the memory depends on nothing else.
LEMMA RanksKept ==
    ASSUME NEW lev, Ranked(lev), UNCHANGED <<mem, freelist>>,
           cr3' # BootCr3 => cr3' \in Page /\ lev[cr3'] = Levels,
           pc' = "alloc_vpages" => cr3' # BootCr3,
           pc' \in {"install_pages", "install_io", "walk"} => root' \in Page /\ lev[root'] = Levels,
           pc' = "walk" => pt' \in Page /\ level' \in 1 .. Levels /\ lev[pt'] = level'
    PROVE  Ranked(lev)'
  BY DEF Ranked

\* The steps that only move the control or change cr3.
LEMMA RegisterSteps ==
    ASSUME ControlInv, HeapInv,
           \/ SkipJob \/ InstallPages \/ InstallIo \/ WriteCr3 \/ AllocVpages
           \/ IoInstalled \/ SwitchToStart
    PROVE  HeapInv'
  <1>0. PICK lev : Ranked(lev)
    BY DEF HeapInv
  <1>1. /\ cr3 # BootCr3 => cr3 \in Page /\ lev[cr3] = Levels
        /\ pc = "alloc_vpages" => cr3 # BootCr3
        /\ pc \in {"install_pages", "install_io", "walk"} => root \in Page /\ lev[root] = Levels
        /\ \A q \in Page : lev[q] > 0 => q \in HeapBase .. freelist - 1
    BY <1>0 DEF Ranked
  <1>2. Levels \in 1 .. Levels
    BY Constants
  <1>3. CASE SkipJob
    <2>1. UNCHANGED <<mem, freelist, end, cursor, pc, cr3, root, pt, level>> /\ pc = "next"
      BY <1>3 DEF SkipJob, heapVars, mmuVars, callVars, walkVars
    <2>2. Ranked(lev)'
      BY <1>0, <1>1, <2>1, RanksKept
    <2> QED  BY <2>1, <2>2, MemoryKept
  <1>4. CASE InstallPages \/ InstallIo
    <2>1. /\ UNCHANGED <<mem, freelist, end, cursor, cr3, root>> /\ pc' = "walk"
          /\ pc \in {"install_pages", "install_io"} /\ pt' = root /\ level' = Levels
      BY <1>4 DEF InstallPages, InstallIo, StartWalk, heapVars, mmuVars, callVars
    <2>2. Ranked(lev)'
      BY <1>0, <1>1, <1>2, <2>1, RanksKept
    <2> QED  BY <2>1, <2>2, MemoryKept
  <1>5. CASE WriteCr3
    <2>1. /\ UNCHANGED <<mem, freelist, end, cursor, root, pt, level>> /\ cr3' = root
          /\ pc = "install_pages" /\ pc' \in {"alloc_vpages", "cleanup"}
      BY <1>5 DEF WriteCr3, heapVars, callVars, walkVars
    <2>2. root # BootCr3
      <3>1. root \in HeapBase .. freelist - 1
        BY <1>1, <1>2, <2>1
      <3> QED  BY <3>1, Constants DEF BootCr3
    <2>3. Ranked(lev)'
      BY <1>0, <1>1, <2>1, <2>2, RanksKept
    <2> QED  BY <2>1, <2>3, MemoryKept
  <1>6. CASE AllocVpages
    <2>1. /\ UNCHANGED <<mem, freelist, end, cursor, cr3, pt, level>> /\ root' = cr3
          /\ pc = "alloc_vpages" /\ pc' = "install_io"
      BY <1>6 DEF AllocVpages, heapVars, mmuVars, walkVars
    <2>2. Ranked(lev)'
      BY <1>0, <1>1, <2>1, RanksKept
    <2> QED  BY <2>1, <2>2, MemoryKept
  <1>7. CASE IoInstalled
    <2>1. /\ UNCHANGED <<mem, freelist, end, cursor, cr3, root, pt, level>>
          /\ pc = "install_io" /\ pc' = "cleanup"
      BY <1>7 DEF IoInstalled, heapVars, mmuVars, callVars, walkVars
    <2>2. Ranked(lev)'
      BY <1>0, <1>1, <2>1, RanksKept
    <2> QED  BY <2>1, <2>2, MemoryKept
  <1>8. CASE SwitchToStart
    <2>1. /\ UNCHANGED <<mem, freelist, end, cursor, root, pt, level>> /\ cr3' = start_cr3
          /\ pc = "cleanup" /\ pc' = "next"
      BY <1>8 DEF SwitchToStart, heapVars, callVars, walkVars
    <2>2. start_cr3 = BootCr3
      BY <2>1 DEF ControlInv, Switched
    <2>3. Ranked(lev)'
      BY <1>0, <2>1, <2>2, RanksKept
    <2> QED  BY <2>1, <2>3, MemoryKept
  <1> QED
    BY <1>3, <1>4, <1>5, <1>6, <1>7, <1>8

-----------------------------------------------------------------------------
(* Steps that write to memory. *)

\* The link loop.
LEMMA LinkSteps == ASSUME HeapInv, LinkPage \/ LinkLast PROVE HeapInv'
  <1>0. PICK lev : Ranked(lev)
    BY DEF HeapInv
  <1>1. /\ pc = "link" /\ cursor \in HeapBase .. end - 1 /\ freelist = HeapBase
        /\ \A q \in HeapBase .. cursor - 1 : mem[q][0].addr = q + 1
    BY DEF HeapInv, Chain, LinkPage, LinkLast
  <1>2. /\ Gib4 \in Nat /\ HeapBase \in Nat /\ end \in Nat /\ end <= Gib4 /\ cursor \in Nat
        /\ cursor >= HeapBase /\ cursor < end /\ 0 \in Offset
    BY <1>1, Constants DEF HeapInv
  <1>3. cursor \in Page /\ mem \in [Page -> [Offset -> Word]]
    BY <1>2 DEF Page, HeapInv
  <1>4. \A q \in Page : lev[q] = 0
    <2>1. \A q \in Page : lev[q] \in 0 .. Levels /\ ~(lev[q] > 0)
      BY <1>0, <1>1, <1>2 DEF Ranked
    <2> QED  BY <2>1, Constants
  <1>5. UNCHANGED <<freelist, end, cr3, root, pt, level>> /\ pc' \in {"link", "next"}
    BY <1>1 DEF LinkPage, LinkLast, mmuVars, callVars, walkVars
  <1>6. Ranked(lev)'
    <2>1. cr3 # BootCr3 => cr3 \in Page /\ lev[cr3] = Levels
      BY <1>0 DEF Ranked
    <2>2. lev \in [Page -> 0 .. Levels] /\ \A q \in Page : ~(lev[q] > 0) /\ ~(lev[q] > 1)
      BY <1>0, <1>4 DEF Ranked
    <2> QED  BY <1>5, <2>1, <2>2 DEF Ranked
  <1>7. PICK w \in Word : mem' = [mem EXCEPT ![cursor][0] = w]
                          /\ (LinkPage => w.addr = cursor + 1) /\ (LinkLast => w.addr = 0)
    <2>1. CASE LinkPage
      <3>1. cursor + 1 # end /\ ~LinkLast
        BY <2>1 DEF LinkPage, LinkLast
      <3>2. [addr |-> cursor + 1, present |-> FALSE] \in Word
        BY <1>2 DEF Word
      <3> QED  BY <2>1, <3>1, <3>2 DEF LinkPage
    <2>2. CASE LinkLast
      <3>1. ~LinkPage
        BY <2>2 DEF LinkPage, LinkLast
      <3>2. Zero \in Word /\ Zero.addr = 0
        BY DEF Word, Zero
      <3> QED  BY <2>2, <3>1, <3>2 DEF LinkLast
    <2> QED  BY <2>1, <2>2
  <1>8. /\ mem' \in [Page -> [Offset -> Word]] /\ mem'[cursor][0] = w
        /\ \A q \in Page : q # cursor => mem'[q] = mem[q]
    BY <1>2, <1>3, <1>7
  <1>9. \A q \in HeapBase .. cursor - 1 : mem'[q][0].addr = q + 1
    <2>1. \A q \in HeapBase .. cursor - 1 : q \in Page /\ q # cursor
      BY <1>2 DEF Page
    <2> QED  BY <1>1, <1>8, <2>1
  <1>10. Chain'
    <2>1. CASE LinkPage
      <3>1. pc' = "link" /\ cursor' = cursor + 1 /\ w.addr = cursor + 1 /\ cursor + 1 # end
        BY <2>1, <1>1, <1>7 DEF LinkPage
      <3>2. cursor + 1 \in HeapBase .. end - 1
        BY <1>2, <3>1
      <3>3. \A q \in HeapBase .. cursor + 1 - 1 : q \in HeapBase .. cursor - 1 \/ q = cursor
        BY <1>2
      <3>4. \A q \in HeapBase .. cursor + 1 - 1 : mem'[q][0].addr = q + 1
        BY <1>8, <1>9, <3>1, <3>3
      <3> QED  BY <1>1, <1>5, <3>1, <3>2, <3>4 DEF Chain
    <2>2. CASE LinkLast
      <3>1. pc' = "next" /\ w.addr = 0 /\ cursor + 1 = end
        BY <2>2, <1>7 DEF LinkLast
      <3>2. ASSUME NEW q \in freelist .. end - 1
            PROVE  mem'[q][0].addr = IF q + 1 = end THEN 0 ELSE q + 1
        <4>1. CASE q = cursor
          BY <4>1, <1>8, <3>1
        <4>2. CASE q # cursor
          <5>1. q \in HeapBase .. cursor - 1 /\ q + 1 # end
            BY <4>2, <1>1, <1>2, <3>1
          <5> QED  BY <5>1, <1>9
        <4> QED  BY <4>1, <4>2
      <3> QED  BY <1>5, <3>1, <3>2 DEF Chain
    <2> QED  BY <2>1, <2>2
  <1> QED
    BY <1>5, <1>6, <1>8, <1>10 DEF HeapInv

\* The entry of a page.
LEMMA WritePteStep == ASSUME ControlInv, HeapInv, WritePte PROVE HeapInv'
  <1>0. PICK lev : Ranked(lev)
    BY DEF HeapInv
  <1> DEFINE o == PGDIR_OFFSET(virt, 1)
             w == [addr |-> phys, present |-> TRUE]
  <1>1. /\ pc = "walk" /\ level = 1 /\ UNCHANGED <<freelist, end, cursor, cr3, root, pt, level>>
        /\ mem' = [mem EXCEPT ![pt][o] = w] /\ pc' = ret
    BY DEF WritePte, mmuVars, walkVars
  <1>2. pc' \in {"install_pages", "install_io"}
    BY <1>1 DEF ControlInv
  <1>3. w \in Word
    BY DEF ControlInv, Word
  <1>4. o \in Offset
    <2>1. 1 \in 1 .. Levels /\ virt \in Int
      BY Constants DEF ControlInv
    <2> QED  BY <2>1, OffsetInTable
  <1>5. pt \in Page /\ lev[pt] = 1 /\ lev[pt] > 0 /\ ~(lev[pt] > 1) /\ freelist \in Nat
    BY <1>0, <1>1, Constants DEF Ranked, HeapInv
  <1>6. pt < freelist
    <2>1. pt \in HeapBase .. freelist - 1
      BY <1>0, <1>5 DEF Ranked
    <2> QED  BY <2>1, <1>5, Constants
  <1> HIDE DEF o, w
  <1>7. /\ mem' \in [Page -> [Offset -> Word]] /\ Chain'
        /\ \A x \in Page, y \in Offset : mem'[x][y] = IF x = pt /\ y = o THEN w ELSE mem[x][y]
    <2>1. mem \in [Page -> [Offset -> Word]] /\ pc # "link"
      BY <1>1 DEF HeapInv
    <2>2. mem' \in [Page -> [Offset -> Word]]
      BY <1>1, <1>3, <1>4, <1>5, <2>1
    <2>3. \A x \in Page, y \in Offset : mem'[x][y] = IF x = pt /\ y = o THEN w ELSE mem[x][y]
      BY <1>1, <1>3, <1>4, <1>5, <2>1
    <2>4. \A x \in freelist .. end - 1 : x \in Page /\ x # pt
      BY <1>5, <1>6, Constants DEF HeapInv, Page
    <2>5. \A x \in freelist .. end - 1 : mem[x][0].addr = IF x + 1 = end THEN 0 ELSE x + 1
      BY <2>1 DEF HeapInv, Chain
    <2>6. \A x \in freelist .. end - 1 : mem'[x][0] = mem[x][0]
      BY <2>3, <2>4, Constants
    <2>7. Chain'
      <3>1. freelist' = freelist /\ end' = end /\ pc' # "link"
        BY <1>1, <1>2
      <3> QED  BY <2>5, <2>6, <3>1 DEF Chain
    <2> QED  BY <2>2, <2>3, <2>7
  <1>8. Ranked(lev)'
    <2>1. ASSUME NEW q \in Page, NEW y \in Offset, lev[q] > 1, mem'[q][y].present
          PROVE  mem'[q][y].addr \in Page /\ lev[mem'[q][y].addr] = lev[q] - 1
      <3>1. mem'[q][y] = mem[q][y]
        BY <1>5, <1>7, <2>1
      <3> QED  BY <1>0, <2>1, <3>1 DEF Ranked
    <2>2. /\ lev \in [Page -> 0 .. Levels]
          /\ \A q \in Page : lev[q] > 0 => q \in HeapBase .. freelist' - 1
          /\ cr3' # BootCr3 => cr3' \in Page /\ lev[cr3'] = Levels
          /\ root' \in Page /\ lev[root'] = Levels
      BY <1>0, <1>1 DEF Ranked
    <2> QED  BY <1>2, <2>1, <2>2 DEF Ranked
  <1> QED
    BY <1>1, <1>7, <1>8 DEF HeapInv

Taken(lev, lev2, l, n, m, f) ==
    /\ f = n + 1 /\ f \in HeapBase .. end - 1 /\ n \in Page /\ lev[n] = 0
    /\ m \in [Page -> [Offset -> Word]]
    /\ \A q \in f .. end - 1 : q \in Page /\ m[q][0].addr = IF q + 1 = end THEN 0 ELSE q + 1
    /\ lev2 \in [Page -> 0 .. Levels]
    /\ \A q \in Page : lev2[q] = IF q = n THEN l ELSE lev[q]
    /\ \A q \in Page : lev2[q] > 0 => q \in HeapBase .. f - 1
    /\ \A q \in Page, o \in Offset :
          lev2[q] > 1 /\ m[q][o].present =>
              m[q][o].addr \in Page /\ lev2[m[q][o].addr] = lev2[q] - 1
    /\ \A q \in Page : lev[q] > 0 => q # n /\ lev2[q] = lev[q] /\ m[q] = mem[q]

\* The levels after page n = freelist has become a table of level l.  m is the
\* memory with the page zeroed.
LEMMA PageTaken ==
    ASSUME HeapInv, pc # "link", NEW lev, Ranked(lev), NEW l \in 1 .. Levels,
           NEW n, n = freelist, NEW m, m = [mem EXCEPT ![n] = ZeroPage],
           NEW lev2, lev2 = [lev EXCEPT ![n] = l],
           NEW f, f = mem[n][0].addr, f # 0
    PROVE  Taken(lev, lev2, l, n, m, f)
  <1>1. /\ Gib4 \in Nat /\ HeapBase \in Nat /\ HeapBase > 0 /\ end \in Nat /\ end <= Gib4
        /\ n \in Nat /\ n >= HeapBase /\ n < end /\ mem \in [Page -> [Offset -> Word]]
        /\ Levels \in Nat
    BY Constants DEF HeapInv
  <1>2. n \in Page
    BY <1>1 DEF Page
  <1>3. \A q \in n .. end - 1 : mem[q][0].addr = IF q + 1 = end THEN 0 ELSE q + 1
    BY DEF HeapInv, Chain
  <1>4. f = n + 1 /\ n + 1 < end
    <2>1. n \in n .. end - 1
      BY <1>1
    <2>2. f = IF n + 1 = end THEN 0 ELSE n + 1
      BY <1>3, <2>1
    <2> QED  BY <1>1, <2>2
  <1>5. lev \in [Page -> 0 .. Levels] /\ \A q \in Page : lev[q] > 0 => q \in HeapBase .. n - 1
    BY DEF Ranked
  <1>6. lev[n] = 0
    <2>1. lev[n] \in 0 .. Levels /\ n \notin HeapBase .. n - 1
      BY <1>1, <1>2, <1>5
    <2> QED  BY <1>1, <1>2, <1>5, <2>1
  <1>7. ZeroPage \in [Offset -> Word] /\ \A o \in Offset : ZeroPage[o].present = FALSE
    BY DEF ZeroPage, Zero, Word
  <1>8. m \in [Page -> [Offset -> Word]] /\ \A q \in Page : q # n => m[q] = mem[q]
    BY <1>1, <1>7
  <1>9. m[n] = ZeroPage
    BY <1>1, <1>2
  <1>10. ASSUME NEW q \in f .. end - 1
         PROVE  q \in Page /\ m[q][0].addr = IF q + 1 = end THEN 0 ELSE q + 1
    <2>1. q \in n .. end - 1 /\ q # n /\ q \in Page
      BY <1>1, <1>4 DEF Page
    <2> QED  BY <2>1, <1>3, <1>8
  <1>11. lev2 \in [Page -> 0 .. Levels]
    <2>1. l \in 0 .. Levels
      BY <1>1
    <2> QED  BY <2>1, <1>5
  <1>12. \A q \in Page : lev2[q] = IF q = n THEN l ELSE lev[q]
    BY <1>5
  <1>13. ASSUME NEW q \in Page, lev2[q] > 0
         PROVE  q \in HeapBase .. f - 1
    <2>1. CASE q = n
      BY <2>1, <1>1, <1>4
    <2>2. CASE q # n
      <3>1. q \in HeapBase .. n - 1
        BY <2>2, <1>5, <1>12, <1>13
      <3> QED  BY <3>1, <1>1, <1>4
    <2> QED  BY <2>1, <2>2
  <1>14. ASSUME NEW q \in Page, NEW o \in Offset, lev2[q] > 1, m[q][o].present
         PROVE  m[q][o].addr \in Page /\ lev2[m[q][o].addr] = lev2[q] - 1
    <2>1. q # n
      BY <1>7, <1>9, <1>14
    <2>2. lev2[q] = lev[q] /\ m[q] = mem[q]
      BY <2>1, <1>8, <1>12
    <2>3. mem[q][o].addr \in Page /\ lev[mem[q][o].addr] = lev[q] - 1
      BY <2>2, <1>14 DEF Ranked
    <2>4. lev[q] \in 0 .. Levels
      BY <1>5
    <2>5. lev[mem[q][o].addr] # 0
      BY <2>2, <2>3, <2>4, <1>1, <1>14
    <2>6. mem[q][o].addr # n
      BY <2>5, <1>6
    <2> QED  BY <2>2, <2>3, <2>6, <1>12
  <1>15. ASSUME NEW q \in Page, lev[q] > 0
         PROVE  q # n /\ lev2[q] = lev[q] /\ m[q] = mem[q]
    <2>1. q # n
      BY <1>6, <1>15
    <2> QED  BY <2>1, <1>8, <1>12
  <1>16. f \in HeapBase .. end - 1
    BY <1>1, <1>4
  <1> QED
    BY <1>2, <1>4, <1>6, <1>8, <1>10, <1>11, <1>12, <1>13, <1>14, <1>15, <1>16 DEF Taken

\* The root of new tables.
LEMMA SetupMmuStep == ASSUME ControlInv, HeapInv, SetupMmu, freelist' # 0 PROVE HeapInv'
  <1>0. PICK lev : Ranked(lev)
    BY DEF HeapInv
  <1>1. PICK n : n = freelist
    OBVIOUS
  <1>2. PICK m : m = [mem EXCEPT ![n] = ZeroPage]
    OBVIOUS
  <1>3. PICK f : f = mem[n][0].addr
    OBVIOUS
  <1>4. PICK lev2 : lev2 = [lev EXCEPT ![n] = Levels]
    OBVIOUS
  <1>5. n # 0
    BY <1>1, Constants DEF HeapInv
  <1>6. heap_alloc_page(mem, freelist) = [page |-> n, mem |-> m, freelist |-> f]
    BY <1>1, <1>2, <1>3, <1>5 DEF heap_alloc_page
  <1>7. /\ pc = "next" /\ pc' = "install_pages" /\ mem' = m /\ freelist' = f /\ root' = n
        /\ UNCHANGED <<cr3, end, cursor>>
    BY <1>6 DEF SetupMmu, mmuVars
  <1>8. Levels \in 1 .. Levels /\ f # 0 /\ pc # "link"
    BY <1>7, Constants
  <1>9. /\ f = n + 1 /\ f \in HeapBase .. end - 1 /\ n \in Page /\ lev[n] = 0
        /\ m \in [Page -> [Offset -> Word]]
        /\ \A q \in f .. end - 1 : q \in Page /\ m[q][0].addr = IF q + 1 = end THEN 0 ELSE q + 1
        /\ lev2 \in [Page -> 0 .. Levels]
        /\ \A q \in Page : lev2[q] = IF q = n THEN Levels ELSE lev[q]
        /\ \A q \in Page : lev2[q] > 0 => q \in HeapBase .. f - 1
        /\ \A q \in Page, o \in Offset :
              lev2[q] > 1 /\ m[q][o].present =>
                  m[q][o].addr \in Page /\ lev2[m[q][o].addr] = lev2[q] - 1
        /\ \A q \in Page : lev[q] > 0 => q # n /\ lev2[q] = lev[q] /\ m[q] = mem[q]
    <2>1. Taken(lev, lev2, Levels, n, m, f)
      BY <1>0, <1>1, <1>2, <1>3, <1>4, <1>8, PageTaken
    <2> QED  BY <2>1, Zenon DEF Taken
  <1>10. Chain'
    BY <1>7, <1>9 DEF Chain
  <1>11. cr3 = BootCr3
    BY <1>7 DEF ControlInv
  <1>12. Ranked(lev2)'
    BY <1>7, <1>9, <1>11 DEF Ranked
  <1> QED
    BY <1>7, <1>9, <1>10, <1>12 DEF HeapInv

\* A level of the walk.
LEMMA WalkLevelStep == ASSUME ControlInv, HeapInv, WalkLevel, freelist' # 0 PROVE HeapInv'
  <1>0. PICK lev : Ranked(lev)
    BY DEF HeapInv
  <1>1. PICK o : o = PGDIR_OFFSET(virt, level)
    OBVIOUS
  <1>2. /\ pc = "walk" /\ level > 1 /\ pt \in Page /\ level \in 1 .. Levels /\ lev[pt] = level
        /\ root \in Page /\ lev[root] = Levels
        /\ cr3 # BootCr3 => cr3 \in Page /\ lev[cr3] = Levels
    BY <1>0 DEF WalkLevel, Ranked
  <1>3. o \in Offset
    BY <1>1, <1>2, OffsetInTable DEF ControlInv
  <1>4. /\ UNCHANGED <<pc, end, cursor, cr3, root>> /\ level' = level - 1
    BY DEF WalkLevel, mmuVars, callVars
  <1>5. level - 1 \in 1 .. Levels /\ level - 1 > 0 /\ Levels > 0
    BY <1>2, Constants
  <1>6. CASE mem[pt][o].present
    <2>1. UNCHANGED <<mem, freelist>> /\ pt' = mem[pt][o].addr
      BY <1>1, <1>6 DEF WalkLevel, heapVars
    <2>2. mem[pt][o].addr \in Page /\ lev[mem[pt][o].addr] = level - 1
      BY <1>0, <1>2, <1>3, <1>6 DEF Ranked
    <2>3. Ranked(lev)'
      BY <1>0, <1>2, <1>4, <1>5, <2>1, <2>2, RanksKept
    <2> QED  BY <2>1, <2>3, <1>4, MemoryKept
  <1>7. CASE ~mem[pt][o].present
    <2>1. PICK n : n = freelist
      OBVIOUS
    <2>2. PICK m : m = [mem EXCEPT ![n] = ZeroPage]
      OBVIOUS
    <2>3. PICK f : f = mem[n][0].addr
      OBVIOUS
    <2>4. PICK lev2 : lev2 = [lev EXCEPT ![n] = level - 1]
      OBVIOUS
    <2>5. PICK w : w = [addr |-> n, present |-> TRUE]
      OBVIOUS
    <2>6. n # 0
      BY <2>1, Constants DEF HeapInv
    <2>7. heap_alloc_page(mem, freelist) = [page |-> n, mem |-> m, freelist |-> f]
      BY <2>1, <2>2, <2>3, <2>6 DEF heap_alloc_page
    <2>8. /\ mem' = [m EXCEPT ![n] = ZeroPage, ![pt][o] = w] /\ freelist' = f /\ pt' = n
      BY <1>1, <1>7, <2>5, <2>7 DEF WalkLevel
    <2>9. f # 0 /\ pc # "link"
      BY <2>8, <1>2
    <2>10. /\ f = n + 1 /\ f \in HeapBase .. end - 1 /\ n \in Page /\ lev[n] = 0
           /\ m \in [Page -> [Offset -> Word]]
           /\ \A q \in f .. end - 1 : q \in Page /\ m[q][0].addr = IF q + 1 = end THEN 0 ELSE q + 1
           /\ lev2 \in [Page -> 0 .. Levels]
           /\ \A q \in Page : lev2[q] = IF q = n THEN level - 1 ELSE lev[q]
           /\ \A q \in Page : lev2[q] > 0 => q \in HeapBase .. f - 1
           /\ \A q \in Page, y \in Offset :
                 lev2[q] > 1 /\ m[q][y].present =>
                     m[q][y].addr \in Page /\ lev2[m[q][y].addr] = lev2[q] - 1
           /\ \A q \in Page : lev[q] > 0 => q # n /\ lev2[q] = lev[q] /\ m[q] = mem[q]
      <3>1. Taken(lev, lev2, level - 1, n, m, f)
        BY <1>0, <1>5, <2>1, <2>2, <2>3, <2>4, <2>9, PageTaken
      <3> QED  BY <3>1, Zenon DEF Taken
    <2>11. pt # n /\ lev2[pt] = level /\ lev2[n] = level - 1
      BY <1>2, <1>5, <2>10
    <2>12. w \in Word /\ w.addr = n
      <3>1. n \in Int
        BY <2>10 DEF Page
      <3> QED  BY <2>5, <3>1 DEF Word
    <2>13. m[n] = ZeroPage
      BY <2>2, <2>10 DEF HeapInv
    <2>14. mem' = [m EXCEPT ![pt][o] = w]
      <3>1. [m EXCEPT ![n] = ZeroPage] = m
        BY <2>10, <2>13
      <3> QED  BY <2>8, <3>1
    <2>15. /\ mem' \in [Page -> [Offset -> Word]]
           /\ \A x \in Page, y \in Offset : mem'[x][y] = IF x = pt /\ y = o THEN w ELSE m[x][y]
           /\ \A x \in Page : x # pt => mem'[x] = m[x]
      BY <1>2, <1>3, <2>10, <2>12, <2>14
    <2>16. Chain'
      <3>1. \A q \in f .. end - 1 : q # pt
        <4>1. pt \in HeapBase .. n - 1
          BY <1>0, <1>2, <2>1, Constants DEF Ranked
        <4>2. n \in Int /\ HeapBase \in Int /\ end \in Int
          BY <2>10, Constants DEF Page, HeapInv
        <4> QED  BY <4>1, <4>2, <2>10
      <3>2. \A q \in f .. end - 1 : mem'[q][0].addr = IF q + 1 = end THEN 0 ELSE q + 1
        BY <3>1, <2>10, <2>15
      <3> QED  BY <3>2, <1>2, <1>4, <2>8 DEF Chain
    <2>17. ASSUME NEW q \in Page, NEW y \in Offset, lev2[q] > 1, mem'[q][y].present
           PROVE  mem'[q][y].addr \in Page /\ lev2[mem'[q][y].addr] = lev2[q] - 1
      <3>1. CASE q = pt /\ y = o
        <4>1. mem'[q][y] = w
          BY <2>15, <3>1
        <4> QED  BY <4>1, <3>1, <2>10, <2>11, <2>12
      <3>2. CASE ~(q = pt /\ y = o)
        <4>1. mem'[q][y] = m[q][y]
          BY <2>15, <3>2
        <4> QED  BY <4>1, <2>10, <2>17
      <3> QED  BY <3>1, <3>2
    <2>18. root # n /\ lev2[root] = Levels /\ (cr3 # BootCr3 => lev2[cr3] = Levels)
      BY <1>2, <1>5, <2>10
    <2>19. Ranked(lev2)'
      <3>1. /\ lev2 \in [Page -> 0 .. Levels]
            /\ \A q \in Page : lev2[q] > 0 => q \in HeapBase .. freelist' - 1
        BY <2>8, <2>10
      <3>2. /\ cr3' # BootCr3 => cr3' \in Page /\ lev2[cr3'] = Levels
            /\ root' \in Page /\ lev2[root'] = Levels /\ pc' = "walk"
            /\ pt' \in Page /\ level' \in 1 .. Levels /\ lev2[pt'] = level'
        BY <1>2, <1>4, <1>5, <2>8, <2>10, <2>11, <2>18
      <3> QED  BY <3>1, <3>2, <2>17 DEF Ranked
    <2> QED
      BY <1>4, <2>8, <2>10, <2>15, <2>16, <2>19 DEF HeapInv
  <1> QED
    BY <1>6, <1>7

-----------------------------------------------------------------------------
(* The theorems. *)

\* Every step keeps the invariant.
LEMMA NextKeeps == ASSUME IInv, [Next]_vars PROVE IInv'
  <1>1. ControlInv'
    BY ControlKept DEF IInv
  <1>2. ASSUME freelist' # 0
        PROVE  HeapInv'
    <2>1. ControlInv /\ HeapInv
      BY <1>2, StaysEmpty DEF IInv
    <2>2. CASE UNCHANGED vars
      <3>1. UNCHANGED <<mem, freelist, end, cursor, pc, cr3, root, pt, level>>
        BY <2>2 DEF vars, heapVars, mmuVars, callVars, walkVars
      <3>2. PICK lev : Ranked(lev)
        BY <2>1 DEF HeapInv
      <3>3. Ranked(lev)'
        BY <3>1, <3>2 DEF Ranked
      <3> QED  BY <2>1, <3>1, <3>3, MemoryKept
    <2>3. CASE LinkPage \/ LinkLast
      BY <2>1, <2>3, LinkSteps
    <2>4. CASE \/ SkipJob \/ InstallPages \/ InstallIo \/ WriteCr3 \/ AllocVpages
               \/ IoInstalled \/ SwitchToStart
      BY <2>1, <2>4, RegisterSteps
    <2>5. CASE SetupMmu
      BY <1>2, <2>1, <2>5, SetupMmuStep
    <2>6. CASE WalkLevel
      BY <1>2, <2>1, <2>6, WalkLevelStep
    <2>7. CASE WritePte
      BY <2>1, <2>7, WritePteStep
    <2> QED
      BY <2>2, <2>3, <2>4, <2>5, <2>6, <2>7 DEF Next, AllDone
  <1> QED
    BY <1>1, <1>2 DEF IInv

\* heap.c's free list ends, stays inside the heap and never shares a page with
\* the page tables in use, whatever the size of memory and the benchmarks: the
\* invariant holds until the list is empty, and an empty list shares nothing.
THEOREM HeapFreeListSound == Spec => []FreeListSound
  <1>1. Init => IInv
    BY InitInv
  <1>2. IInv /\ [Next]_vars => IInv'
    BY NextKeeps
  <1>3. IInv => FreeListSound
    BY FreeListFromInv
  <1> QED
    BY <1>1, <1>2, <1>3, PTL DEF Spec

\* Between two benchmarks the processor is back on the tables it started with,
\* so no benchmark runs on the tables of another.
StartTablesRestored == pc = "next" => cr3 = BootCr3

\* setup_mmu() and switch_to_start_cr3() are paired in every benchmark: between
\* two of them the processor is on the tables it started with.
THEOREM HeapStartTablesRestored == Spec => []StartTablesRestored
  <1>1. Init => IInv
    BY InitInv
  <1>2. IInv /\ [Next]_vars => IInv'
    BY NextKeeps
  <1>3. IInv => StartTablesRestored
    BY DEF IInv, ControlInv, StartTablesRestored
  <1> QED
    BY <1>1, <1>2, <1>3, PTL DEF Spec

-----------------------------------------------------------------------------
(* What the tables map. *)

\* The word that x, a table of level l, has for v: where it leads, or None.
Down(m, v, l, x) ==
    LET o == PGDIR_OFFSET(v, l)
    IN IF x \in Page /\ m[x][o].present THEN m[x][o].addr ELSE None

\* t gives the tables that translate v under root r in memory m, by level.
PathEq(t, m, r, v) ==
    t = [l \in 1 .. Levels |-> IF l = Levels THEN r ELSE Down(m, v, l + 1, t[l + 1])]

Path(m, r, v) == CHOOSE t : PathEq(t, m, r, v)

Memory == [Page -> [Offset -> Word]]

\* A word is an integer.
LEMMA DownInt ==
    ASSUME NEW m \in Memory, NEW v \in Int, NEW l \in 1 .. Levels, NEW x
    PROVE  Down(m, v, l, x) \in Int
  <1>1. PGDIR_OFFSET(v, l) \in Offset
    BY OffsetInTable
  <1>2. None \in Int
    BY DEF None
  <1>3. ASSUME NEW o \in Offset, x \in Page
        PROVE  m[x][o].addr \in Int
    BY <1>3 DEF Memory, Word
  <1> QED
    BY <1>1, <1>2, <1>3 DEF Down

\* Every address has a path.
LEMMA PathExists ==
    ASSUME NEW m \in Memory, NEW r \in Int, NEW v \in Int
    PROVE  \E t : PathEq(t, m, r, v)
  <1>0. Levels \in Nat /\ Levels > 0
    BY Constants
  <1> DEFINE d(n, x) == IF n < Levels THEN Down(m, v, Levels - n, x) ELSE 0
             G == [z \in Nat \X Int |-> d(z[1], z[2])]
  <1>1. ASSUME NEW n \in Nat, NEW x \in Int
        PROVE  d(n, x) \in Int
    <2>1. CASE n < Levels
      <3>1. Levels - n \in 1 .. Levels
        BY <1>0, <2>1
      <3> QED  BY <2>1, <3>1, DownInt
    <2> QED  BY <2>1
  <1> HIDE DEF d
  <1>2. G \in [Nat \X Int -> Int]
    BY <1>1
  <1>3. \A n \in Nat, x \in Int : G[<<n, x>>] = d(n, x)
    OBVIOUS
  <1> HIDE DEF G
  <1>4. PICK h : Recurses(h, Int, r, G)
    BY <1>2, Recursion
  <1>5. h \in [Nat -> Int] /\ h[0] = r /\ \A n \in Nat : h[n + 1] = d(n, h[n])
    BY <1>3, <1>4 DEF Recurses
  <1> DEFINE t == [l \in 1 .. Levels |-> h[Levels - l]]
  <1>6. ASSUME NEW l \in 1 .. Levels
        PROVE  t[l] = IF l = Levels THEN r ELSE Down(m, v, l + 1, t[l + 1])
    <2>1. CASE l = Levels
      BY <2>1, <1>0, <1>5
    <2>2. CASE l # Levels
      <3> DEFINE n == Levels - (l + 1)
      <3>1. n \in Nat /\ n < Levels /\ n + 1 = Levels - l /\ l + 1 \in 1 .. Levels
            /\ Levels - n = l + 1
        BY <2>2, <1>0
      <3>2. t[l] = h[n + 1] /\ t[l + 1] = h[n]
        BY <3>1
      <3> HIDE DEF t, n
      <3>3. h[n + 1] = Down(m, v, l + 1, h[n])
        BY <3>1, <1>5 DEF d
      <3> QED  BY <2>2, <3>2, <3>3
    <2> QED  BY <2>1, <2>2
  <1>7. t = [l \in 1 .. Levels |-> t[l]]
    OBVIOUS
  <1> HIDE DEF t
  <1>8. PathEq(t, m, r, v)
    BY <1>6, <1>7 DEF PathEq
  <1> QED
    BY <1>8

\* It has one path only.
LEMMA PathUnique ==
    ASSUME NEW m, NEW r, NEW v, NEW t, PathEq(t, m, r, v), NEW u, PathEq(u, m, r, v)
    PROVE  t = u
  <1>0. Levels \in Nat /\ Levels > 0
    BY Constants
  <1> DEFINE T == {n \in Nat : n < Levels => t[Levels - n] = u[Levels - n]}
  <1>1. \A l \in 1 .. Levels : t[l] = IF l = Levels THEN r ELSE Down(m, v, l + 1, t[l + 1])
    BY DEF PathEq
  <1>2. \A l \in 1 .. Levels : u[l] = IF l = Levels THEN r ELSE Down(m, v, l + 1, u[l + 1])
    BY DEF PathEq
  <1>3. 0 \in T
    BY <1>0, <1>1, <1>2
  <1>4. ASSUME NEW n \in Nat, n \in T
        PROVE  n + 1 \in T
    <2>1. CASE n + 1 < Levels
      <3>1. PICK l \in 1 .. Levels : l = Levels - (n + 1) /\ l # Levels /\ l + 1 = Levels - n
        BY <2>1, <1>0
      <3>2. t[l + 1] = u[l + 1]
        BY <3>1, <2>1, <1>0, <1>4
      <3> QED  BY <3>1, <3>2, <1>1, <1>2
    <2>2. CASE ~(n + 1 < Levels)
      BY <2>2
    <2> QED  BY <2>1, <2>2
  <1> HIDE DEF T
  <1>5. Nat \subseteq T
    BY <1>3, <1>4, SetInduction
  <1>6. ASSUME NEW l \in 1 .. Levels
        PROVE  t[l] = u[l]
    <2>1. Levels - l \in Nat /\ Levels - l < Levels /\ Levels - (Levels - l) = l
      BY <1>0
    <2>2. Levels - l \in T
      BY <1>5, <2>1
    <2> QED  BY <2>1, <2>2 DEF T
  <1>7. t = [l \in 1 .. Levels |-> t[l]] /\ u = [l \in 1 .. Levels |-> u[l]]
    BY DEF PathEq
  <1> QED
    BY <1>6, <1>7

\* Path is that path.
LEMMA PathIs ==
    ASSUME NEW m \in Memory, NEW r \in Int, NEW v \in Int
    PROVE  /\ PathEq(Path(m, r, v), m, r, v)
           /\ \A t : PathEq(t, m, r, v) => Path(m, r, v) = t
  <1>1. PathEq(Path(m, r, v), m, r, v)
    BY PathExists, Zenon DEF Path
  <1> QED
    BY <1>1, PathUnique, Zenon

\* Level by level.
LEMMA PathLevels ==
    ASSUME NEW m \in Memory, NEW r \in Int, NEW v \in Int
    PROVE  /\ Path(m, r, v)[Levels] = r
           /\ \A l \in 1 .. Levels : l # Levels =>
                 Path(m, r, v)[l] = Down(m, v, l + 1, Path(m, r, v)[l + 1])
  <1>1. PICK t : t = Path(m, r, v)
    OBVIOUS
  <1>2. PathEq(t, m, r, v)
    BY <1>1, PathIs
  <1>3. Levels \in 1 .. Levels
    BY Constants
  <1>4. t[Levels] = r /\ \A l \in 1 .. Levels : l # Levels => t[l] = Down(m, v, l + 1, t[l + 1])
    BY <1>2, <1>3 DEF PathEq
  <1> QED
    BY <1>1, <1>4

\* The walk of the memory management unit follows the path.
LEMMA TranslateIs ==
    ASSUME NEW r, r # BootCr3, NEW v
    PROVE  Translate(r, v) = Down(mem, v, 1, Path(mem, r, v)[1])
  <1>1. TableAt(r, v) = Path(mem, r, v)[1]
    BY Zenon DEF TableAt, Path, PathEq, Down
  <1> QED
    BY <1>1 DEF Translate, Down

\* Two addresses that a table of level l takes through the same entry fall
\* into the same table, or page, below it.
LEMMA SameEntry ==
    ASSUME NEW v \in Nat, NEW w \in Nat, NEW l \in 1 .. Levels,
           v \div Span[l] = w \div Span[l], PGDIR_OFFSET(v, l) = PGDIR_OFFSET(w, l)
    PROVE  v \div Span[l - 1] = w \div Span[l - 1]
  <1>1. l \in 0 .. Levels /\ l # 0 /\ l - 1 \in 0 .. Levels /\ Fan \in Nat \ {0}
    BY Constants
  <1>2. PICK s \in Nat \ {0} : s = Span[l - 1]
    BY <1>1, SpanPositive
  <1>3. Span[l] = Fan * s
    BY <1>1, <1>2, SpanStep
  <1>4. v \div (Fan * s) = (v \div s) \div Fan /\ w \div (Fan * s) = (w \div s) \div Fan
    BY <1>1, DivDiv
  <1>5. PICK x \in Nat, y \in Nat : x = v \div s /\ y = w \div s
    OBVIOUS
  <1>6. x \div Fan = y \div Fan /\ x % Fan = y % Fan
    BY <1>2, <1>3, <1>4, <1>5 DEF PGDIR_OFFSET
  <1>7. x = Fan * (x \div Fan) + (x % Fan) /\ y = Fan * (y \div Fan) + (y % Fan)
    BY <1>1
  <1> QED
    BY <1>2, <1>5, <1>6, <1>7

\* The root is the table of every address.
LEMMA SameRoot ==
    /\ VPages \in Nat \ {0}
    /\ \A v \in VPage : v \in Nat /\ v \div Span[Levels] = 0
    /\ \A v \in Nat : v \div Span[0] = v
  <1>1. Levels \in 0 .. Levels /\ 0 \in 0 .. Levels
    BY Constants
  <1>2. PICK s \in Nat \ {0} : s = Span[Levels]
    BY <1>1, SpanPositive
  <1>3. Span[0] = 1
    BY <1>1, SpanStep
  <1>4. ASSUME NEW v \in VPage
        PROVE  v \in Nat /\ v \div Span[Levels] = 0
    <2>1. v \in Nat /\ v \in 0 .. s - 1
      BY <1>2 DEF VPage, VPages
    <2>2. (s * 0 + v) \div s = 0
      BY <2>1, Quotient
    <2> QED  BY <1>2, <2>1, <2>2
  <1> QED
    BY <1>2, <1>3, <1>4 DEF VPages

\* The table of level l on a path has level l, if there is one.
LEMMA PathRanked ==
    ASSUME NEW lev, Ranked(lev), mem \in Memory, NEW r \in Page, lev[r] = Levels, NEW v \in Int,
           NEW t, t = Path(mem, r, v)
    PROVE  \A l \in 1 .. Levels : t[l] = None \/ (t[l] \in Page /\ lev[t[l]] = l)
  <1>0. Levels \in Nat /\ Levels > 0
    BY Constants
  <1> DEFINE P(l) == t[l] = None \/ (t[l] \in Page /\ lev[t[l]] = l)
             T == {n \in Nat : n < Levels => P(Levels - n)}
  <1>1. t[Levels] = r /\ \A l \in 1 .. Levels : l # Levels => t[l] = Down(mem, v, l + 1, t[l + 1])
    <2>1. r \in Int
      BY Constants DEF Page
    <2> QED  BY <2>1, PathLevels
  <1>2. 0 \in T
    <2>1. P(Levels) /\ Levels - 0 = Levels
      BY <1>0, <1>1
    <2> QED  BY <2>1
  <1>3. ASSUME NEW n \in Nat, n \in T
        PROVE  n + 1 \in T
    <2>1. CASE n + 1 < Levels
      <3>1. PICK l \in 1 .. Levels : l = Levels - (n + 1) /\ l # Levels /\ l + 1 = Levels - n
                                     /\ l + 1 \in 1 .. Levels /\ l + 1 > 1 /\ l + 1 - 1 = l
        BY <2>1, <1>0
      <3>2. P(l + 1)
        BY <3>1, <2>1, <1>0, <1>3
      <3>3. t[l] = Down(mem, v, l + 1, t[l + 1])
        BY <1>1, <3>1
      <3>4. PICK o \in Offset : o = PGDIR_OFFSET(v, l + 1)
        BY <3>1, OffsetInTable
      <3>5. P(l)
        <4>1. CASE t[l + 1] \in Page /\ mem[t[l + 1]][o].present
          <5>1. t[l] = mem[t[l + 1]][o].addr
            BY <4>1, <3>3, <3>4 DEF Down
          <5>2. lev[t[l + 1]] = l + 1
            <6>1. None \notin Page
              BY Constants DEF None, Page
            <6> QED  BY <6>1, <4>1, <3>2
          <5> QED  BY <4>1, <5>1, <5>2, <3>1 DEF Ranked
        <4>2. CASE ~(t[l + 1] \in Page /\ mem[t[l + 1]][o].present)
          BY <4>2, <3>3, <3>4 DEF Down
        <4> QED  BY <4>1, <4>2
      <3> QED  BY <3>1, <3>5
    <2>2. CASE ~(n + 1 < Levels)
      BY <2>2
    <2> QED  BY <2>1, <2>2
  <1> HIDE DEF T
  <1>4. Nat \subseteq T
    BY <1>2, <1>3, SetInduction
  <1>5. ASSUME NEW l \in 1 .. Levels
        PROVE  P(l)
    <2>1. Levels - l \in Nat /\ Levels - l < Levels /\ Levels - (Levels - l) = l
      BY <1>0
    <2>2. Levels - l \in T
      BY <1>4, <2>1
    <2> QED  BY <2>1, <2>2 DEF T
  <1> QED
    BY <1>5

-----------------------------------------------------------------------------
(* The invariant about translations. *)

\* The pages setup_mmu() is asked to map.
Size == IF Jobs[job].maps = 8 THEN Gib8 ELSE Gib4

AddingIo == pc = "install_io" \/ (pc = "walk" /\ ret = "install_io")

\* What install_page()'s callers pass it, and where alloc_vpages() stands: the
\* pages it gave to earlier benchmarks lie at the top of the address space.
CallInv ==
    /\ job \in 1 .. Len(Jobs) + 1 /\ end \in HeapEnds /\ level \in 0 .. Levels
    /\ virt \in 0 .. VPages /\ phys \in 0 .. Gib8 /\ left \in 0 .. Gib8 /\ vfree_top \in VPage
    /\ Building => phys = virt /\ virt + left = Size
    /\ AddingIo => phys = IoRam /\ vfree_top <= virt /\ virt + left = vfree_top + 2
    /\ pc = "alloc_vpages" \/ AddingIo => Jobs[job].vpages = 2
    /\ pc = "walk" => left > 0
    /\ Switched => cr3 = root
    /\ IF AddingIo \/ (pc = "cleanup" /\ Jobs[job].vpages = 2)
       THEN vfree_top >= VPages - 2 * job /\ vfree_top + 2 <= VPages
       ELSE vfree_top = 0 \/ vfree_top >= VPages - 2 * (job - 1)

\* Every word and register holds a page, and the tables are not the boot's.
PagesInv ==
    /\ \A q \in Page, o \in Offset : mem[q][o].addr \in Nat
    /\ cursor \in Page /\ root \in Page /\ cr3 \in Page /\ start_cr3 \in Page /\ pt \in Page
    /\ pc \notin {"link", "next"} => root # BootCr3

\* Two addresses share a table only if it maps both.
Apart(m, r) ==
    \A v, w \in VPage, l \in 1 .. Levels :
        Path(m, r, v)[l] \in Page /\ Path(m, r, v)[l] = Path(m, r, w)[l] =>
            v \div Span[l] = w \div Span[l]

\* The pages below low are mapped 1:1, those of high to the I/O page.
Mapped(v, low, high) == IF v < low THEN v ELSE IF v \in high THEN IoRam ELSE None

Maps(m, r, low, high) ==
    \A v \in VPage : Down(m, v, 1, Path(m, r, v)[1]) = Mapped(v, low, high)

\* What is installed so far.
Low == IF Building THEN virt ELSE Size
High ==
    IF AddingIo THEN vfree_top .. virt - 1
    ELSE IF pc = "cleanup" /\ Jobs[job].vpages > 0
         THEN vfree_top .. vfree_top + Jobs[job].vpages - 1 ELSE {}

MapInv ==
    pc \notin {"link", "next"} =>
        /\ Apart(mem, root)
        /\ pc = "walk" => Path(mem, root, virt)[level] = pt
        /\ Maps(mem, root, Low, High)

\* As long as memory lasts.
TInv == IInv /\ CallInv /\ (freelist # 0 => PagesInv /\ MapInv)

-----------------------------------------------------------------------------
(* The calls. *)

\* The constants, in numbers.
LEMMA Sizes ==
    /\ Gib4 \in Nat /\ Gib8 \in Nat /\ Gib4 <= Gib8 /\ VPages \in Nat /\ Len(Jobs) \in Nat
    /\ Gib8 + 2 * Len(Jobs) <= VPages /\ VPage = 0 .. VPages - 1 /\ IoRam = Gib4 - 1
    /\ \A k \in 1 .. Len(Jobs) : Jobs[k].vpages \in {0, 2}
    /\ \A e \in HeapEnds : e \in HeapBase + 1 .. Gib4
    /\ HeapBase \in Nat \ {0}
  BY HeapAssumption, VPagesAssumption, SameRoot DEF IsBenchmark, VPage, IoRam

\* Before the first benchmark.
LEMMA InitCall == ASSUME Init PROVE CallInv
  <1>1. VPages \in Nat \ {0}
    BY SameRoot
  <1>2. ~Building /\ ~AddingIo /\ ~Switched /\ pc = "link"
    BY DEF Init, Building, AddingIo, Switched
  <1> QED
    BY <1>1, <1>2, Sizes, Constants DEF Init, CallInv

\* Every step keeps it.
LEMMA CallKept == ASSUME ControlInv, CallInv, [Next]_vars PROVE CallInv'
  <1> USE DEF CallInv, Building, Switched, AddingIo, Size
  <1>0. /\ job \in Nat \ {0} /\ (pc \notin {"link", "next"} => job \in 1 .. Len(Jobs))
        /\ ret \in {"install_pages", "install_io"}
    BY Sizes DEF ControlInv
  <1>1. CASE UNCHANGED vars
    BY <1>1 DEF vars, mmuVars, callVars, walkVars
  <1>2. CASE LinkPage
    BY <1>2 DEF LinkPage, mmuVars, callVars, walkVars
  <1>3. CASE LinkLast
    BY <1>3 DEF LinkLast, mmuVars, callVars, walkVars
  <1>4. CASE SkipJob
    BY <1>0, <1>4, Sizes DEF SkipJob, mmuVars, callVars, walkVars
  <1>5. CASE SetupMmu
    BY <1>0, <1>5, Sizes DEF SetupMmu, mmuVars, walkVars
  <1>6. CASE InstallPages
    BY <1>0, <1>6, Sizes, Constants DEF InstallPages, StartWalk, mmuVars, callVars
  <1>7. CASE InstallIo
    BY <1>0, <1>7, Sizes, Constants DEF InstallIo, StartWalk, mmuVars, callVars
  <1>8. CASE WalkLevel
    BY <1>0, <1>8, Sizes, Constants DEF WalkLevel, mmuVars, callVars
  <1>9. CASE WritePte
    <2>1. /\ pc = "walk" /\ pc' = ret /\ virt' = virt + 1 /\ left' = left - 1
          /\ phys' = IF ret = "install_pages" THEN phys + 1 ELSE phys
          /\ UNCHANGED <<vfree_top, cr3, job, end, root, ret, level>>
      BY <1>9 DEF WritePte, mmuVars, walkVars
    <2>2. CASE ret = "install_pages"
      <3>1. virt' \in 0 .. VPages /\ phys' \in 0 .. Gib8 /\ left' \in 0 .. Gib8
        <4>1. /\ phys = virt /\ virt + left = Size /\ left > 0
              /\ virt \in Nat /\ left \in Nat
          BY <2>1, <2>2, Sizes
        <4>2. Size \in Nat /\ Size <= Gib8 /\ Gib8 <= VPages
          BY Sizes
        <4> HIDE DEF CallInv, Size
        <4> QED  BY <2>1, <2>2, <4>1, <4>2, Sizes
      <3> QED  BY <1>0, <2>1, <2>2, <3>1, Sizes
    <2>3. CASE ret = "install_io"
      <3>1. virt' \in 0 .. VPages /\ left' \in 0 .. Gib8
        BY <1>0, <2>1, <2>3, Sizes
      <3> QED  BY <1>0, <2>1, <2>3, <3>1, Sizes
    <2> QED  BY <1>0, <2>2, <2>3
  <1>10. CASE WriteCr3
    BY <1>0, <1>10, Sizes DEF WriteCr3, callVars, walkVars
  <1>11. CASE AllocVpages
    <2>1. /\ job \in 1 .. Len(Jobs) /\ Jobs[job].vpages = 2
          /\ vfree_top' = (vfree_top - 2) % VPages /\ virt' = vfree_top' /\ root' = cr3
          /\ phys' = IoRam /\ left' = 2 /\ pc' = "install_io"
          /\ UNCHANGED <<cr3, job, end, level, ret>>
      BY <1>0, <1>11 DEF AllocVpages, mmuVars, walkVars
    <2>2. 2 <= Gib8 /\ IoRam \in 0 .. Gib8
      <3>1. end \in HeapEnds
        OBVIOUS
      <3> HIDE DEF CallInv
      <3>2. end \in HeapBase + 1 .. Gib4 /\ HeapBase \in Nat \ {0}
        BY <3>1, Sizes
      <3>3. Gib4 \in Nat /\ Gib8 \in Nat /\ Gib4 <= Gib8 /\ IoRam = Gib4 - 1
        BY Sizes
      <3> QED  BY <3>2, <3>3
    <2>3. vfree_top' >= VPages - 2 * job /\ vfree_top' + 2 <= VPages /\ vfree_top' \in VPage
      <3>1. vfree_top \in 0 .. VPages - 1 /\ (vfree_top = 0 \/ vfree_top >= VPages - 2 * (job - 1))
        BY <1>11, Sizes DEF AllocVpages
      <3>2. VPages \in Nat /\ VPages >= 2 * job + 2 /\ job >= 1
        BY <2>1, <2>2, Sizes
      <3>3. CASE vfree_top = 0
        <4>1. (0 - 2) % VPages = VPages - 2
          BY <3>2
        <4> QED  BY <2>1, <3>2, <3>3, <4>1, Sizes
      <3>4. CASE vfree_top >= VPages - 2 * (job - 1)
        <4>1. vfree_top - 2 \in 0 .. VPages - 1
          BY <3>1, <3>2, <3>4
        <4>2. (vfree_top - 2) % VPages = vfree_top - 2
          <5> HIDE DEF CallInv
          <5>1. PICK x, n \in Nat : x = vfree_top - 2 /\ n = VPages /\ x \in 0 .. n - 1
            BY <3>2, <4>1
          <5>2. x % n = x
            BY <5>1
          <5> QED  BY <5>1, <5>2
        <4>3. vfree_top' = vfree_top - 2 /\ VPage = 0 .. VPages - 1
          BY <2>1, <4>2, Sizes
        <4>4. ASSUME NEW a \in 0 .. VPages - 1, NEW b \in Nat, a >= b - 2 * (job - 1)
              PROVE  a - 2 >= b - 2 * job
          BY <2>1, <4>4, Sizes
        <4>5. vfree_top - 2 >= VPages - 2 * job
          BY <3>1, <3>2, <3>4, <4>4
        <4> QED  BY <3>1, <3>2, <4>1, <4>3, <4>5
      <3> QED  BY <3>1, <3>3, <3>4
    <2>4. virt' \in 0 .. VPages /\ phys' \in 0 .. Gib8 /\ left' \in 0 .. Gib8
      <3>1. Gib8 \in Nat /\ VPages \in Nat /\ VPage = 0 .. VPages - 1
        BY Sizes
      <3> HIDE DEF CallInv
      <3> QED  BY <2>1, <2>2, <2>3, <3>1
    <2>5. job' \in 1 .. Len(Jobs) + 1 /\ end' \in HeapEnds /\ level' \in 0 .. Levels
      BY <2>1
    <2>6. ~Building' /\ AddingIo' /\ Switched' /\ pc' # "walk"
      BY <2>1
    <2>7. /\ phys' = IoRam /\ vfree_top' <= virt' /\ virt' + left' = vfree_top' + 2
          /\ Jobs[job'].vpages = 2 /\ cr3' = root'
      <3>1. vfree_top' \in Int
        BY <2>3, Sizes
      <3> HIDE DEF CallInv
      <3> QED  BY <2>1, <3>1
    <2>8. vfree_top' >= VPages - 2 * job' /\ vfree_top' + 2 <= VPages /\ vfree_top' \in VPage
      BY <2>1, <2>3
    <2> HIDE DEF Building, Switched, AddingIo, Size
    <2> QED
      BY <2>4, <2>5, <2>6, <2>7, <2>8
  <1>12. CASE IoInstalled
    BY <1>0, <1>12, Sizes DEF IoInstalled, mmuVars, callVars, walkVars
  <1>13. CASE SwitchToStart
    BY <1>0, <1>13, Sizes DEF SwitchToStart, callVars, walkVars
  <1>14. CASE AllDone
    BY <1>14, <1>1 DEF AllDone
  <1> QED
    BY <1>1, <1>2, <1>3, <1>4, <1>5, <1>6, <1>7, <1>8, <1>9, <1>10, <1>11, <1>12, <1>13, <1>14
       DEF Next

-----------------------------------------------------------------------------
(* What a write does to the paths. *)

OnLevels(t, lev) == \A l \in 1 .. Levels : t[l] = None \/ (t[l] \in Page /\ lev[t[l]] = l)

\* A level of a path that the write does not touch.
LEMMA SameDown ==
    ASSUME NEW m, NEW m2, NEW v, NEW l, NEW x,
           x \in Page => m2[x][PGDIR_OFFSET(v, l)] = m[x][PGDIR_OFFSET(v, l)]
    PROVE  Down(m2, v, l, x) = Down(m, v, l, x)
  BY DEF Down

\* None is no page, and nothing is below it.
LEMMA DownNone == None \notin Page /\ \A m, v, l : Down(m, v, l, None) = None
  <1>1. None \notin Page
    BY DEF None, Page
  <1> QED
    BY <1>1 DEF Down

\* m2 is m with page n as an empty table behind entry o of table p, of level k.
NewTable(m, m2, lev, p, k, o, n) ==
    /\ m \in Memory /\ m2 \in Memory /\ p \in Page /\ n \in Page /\ n # p /\ o \in Offset
    /\ k \in 1 .. Levels /\ k > 1 /\ lev[p] = k /\ lev[n] = 0 /\ ~m[p][o].present
    /\ \A x \in Page, y \in Offset :
          m2[x][y] = IF x = n THEN Zero
                     ELSE IF x = p /\ y = o THEN [addr |-> n, present |-> TRUE] ELSE m[x][y]

\* Such a step changes no level but k - 1 of a path, and no translation.
LEMMA PathNewTable ==
    ASSUME NEW m, NEW m2, NEW lev, NEW p, NEW k, NEW o, NEW n, NewTable(m, m2, lev, p, k, o, n),
           NEW r \in Page, NEW v \in Int, NEW t, t = Path(m, r, v), OnLevels(t, lev),
           NEW u, u = [l \in 1 .. Levels |->
                         IF l = k - 1 /\ t[k] = p /\ PGDIR_OFFSET(v, k) = o THEN n ELSE t[l]]
    PROVE  /\ Path(m2, r, v) = u
           /\ Down(m2, v, 1, Path(m2, r, v)[1]) = Down(m, v, 1, Path(m, r, v)[1])
  <1>0. /\ Levels \in Nat /\ Levels > 0 /\ k \in Nat /\ k > 1 /\ k <= Levels
        /\ m \in Memory /\ m2 \in Memory /\ p \in Page /\ n \in Page /\ n # p /\ o \in Offset
        /\ lev[p] = k /\ lev[n] = 0 /\ ~m[p][o].present /\ r \in Int
    BY Constants DEF NewTable, Page
  <1>1. \A x \in Page, y \in Offset :
            m2[x][y] = IF x = n THEN Zero
                       ELSE IF x = p /\ y = o THEN [addr |-> n, present |-> TRUE] ELSE m[x][y]
    BY DEF NewTable
  <1>2. /\ t[Levels] = r
        /\ \A l \in 1 .. Levels : l # Levels => t[l] = Down(m, v, l + 1, t[l + 1])
    BY <1>0, PathLevels
  <1> DEFINE hit == t[k] = p /\ PGDIR_OFFSET(v, k) = o
  <1>3. \A l \in 1 .. Levels : u[l] = IF l = k - 1 /\ hit THEN n ELSE t[l]
    OBVIOUS
  <1>4. u = [l \in 1 .. Levels |-> u[l]]
    OBVIOUS
  <1>5. ASSUME hit
        PROVE  t[k - 1] = None /\ Down(m2, v, k, p) = n
    <2>1. k - 1 \in 1 .. Levels /\ k - 1 # Levels /\ k - 1 + 1 = k
      BY <1>0
    <2>2. t[k - 1] = Down(m, v, k, p)
      BY <1>2, <1>5, <2>1
    <2>3. Down(m, v, k, p) = None
      BY <1>0, <1>5 DEF Down
    <2>4. m2[p][o] = [addr |-> n, present |-> TRUE]
      BY <1>0, <1>1
    <2>5. Down(m2, v, k, p) = n
      BY <1>0, <1>5, <2>4 DEF Down
    <2> QED  BY <2>2, <2>3, <2>5
  <1>6. ASSUME NEW l \in 1 .. Levels
        PROVE  Down(m2, v, l, n) = None
    <2>1. PICK y \in Offset : y = PGDIR_OFFSET(v, l)
      BY OffsetInTable
    <2>2. m2[n][y].present = FALSE
      BY <1>0, <1>1 DEF Zero
    <2> QED  BY <2>1, <2>2 DEF Down
  <1>7. ASSUME NEW l \in 1 .. Levels, ~(l = k /\ hit)
        PROVE  Down(m2, v, l, t[l]) = Down(m, v, l, t[l])
    <2>1. CASE t[l] = None
      BY <2>1, DownNone
    <2>2. CASE t[l] \in Page /\ lev[t[l]] = l
      <3>1. PICK y \in Offset : y = PGDIR_OFFSET(v, l)
        BY OffsetInTable
      <3>2. t[l] # n
        BY <1>0, <2>2
      <3>3. ~(t[l] = p /\ y = o)
        BY <1>0, <1>7, <2>2, <3>1
      <3>4. m2[t[l]][y] = m[t[l]][y]
        BY <1>1, <2>2, <3>2, <3>3
      <3> QED  BY <3>1, <3>4, SameDown
    <2> QED  BY <2>1, <2>2 DEF OnLevels
  <1> HIDE DEF hit
  <1>8. ASSUME NEW l \in 1 .. Levels
        PROVE  u[l] = IF l = Levels THEN r ELSE Down(m2, v, l + 1, u[l + 1])
    <2>1. CASE l = Levels
      BY <2>1, <1>0, <1>2, <1>3
    <2>2. CASE l # Levels
      <3>1. l + 1 \in 1 .. Levels
        BY <2>2, <1>0
      <3>2. t[l] = Down(m, v, l + 1, t[l + 1])
        BY <2>2, <1>2
      <3>3. CASE hit /\ l = k - 1
        <4>1. u[l] = n /\ l + 1 = k /\ u[k] = t[k] /\ t[k] = p
          BY <3>1, <3>3, <1>0, <1>3 DEF hit
        <4> QED  BY <2>2, <3>3, <4>1, <1>5
      <3>4. CASE hit /\ l + 1 = k - 1
        <4>1. u[l] = t[l] /\ u[l + 1] = n
          BY <3>1, <3>4, <1>0, <1>3
        <4>2. t[l] = None
          BY <3>2, <3>4, <1>5, DownNone
        <4> QED  BY <2>2, <3>1, <4>1, <4>2, <1>6
      <3>5. CASE ~(hit /\ (l = k - 1 \/ l + 1 = k - 1))
        <4>1. u[l] = t[l] /\ u[l + 1] = t[l + 1] /\ ~(l + 1 = k /\ hit)
          BY <3>1, <3>5, <1>0, <1>3
        <4>2. Down(m2, v, l + 1, t[l + 1]) = Down(m, v, l + 1, t[l + 1])
          BY <3>1, <4>1, <1>7
        <4> QED  BY <2>2, <3>2, <4>1, <4>2
      <3> QED  BY <3>3, <3>4, <3>5
    <2> QED  BY <2>1, <2>2
  <1>9. PathEq(u, m2, r, v)
    BY <1>4, <1>8 DEF PathEq
  <1>10. Path(m2, r, v) = u
    BY <1>0, <1>9, PathIs
  <1>11. Down(m2, v, 1, u[1]) = Down(m, v, 1, t[1])
    <2>1. 1 \in 1 .. Levels /\ 1 # k
      BY <1>0
    <2>2. CASE hit /\ k - 1 = 1
      BY <2>1, <2>2, <1>3, <1>5, <1>6, DownNone
    <2>3. CASE ~(hit /\ k - 1 = 1)
      BY <2>1, <2>3, <1>0, <1>3, <1>7
    <2> QED  BY <2>2, <2>3
  <1> QED
    BY <1>10, <1>11

\* The same of all addresses.
LEMMA PathsNewTable ==
    ASSUME NEW m, NEW m2, NEW lev, NEW p, NEW k, NEW o, NEW n, NewTable(m, m2, lev, p, k, o, n),
           NEW r \in Page, \A v \in VPage : OnLevels(Path(m, r, v), lev)
    PROVE  \A v \in VPage :
             /\ Path(m2, r, v)[k - 1] =
                   IF Path(m, r, v)[k] = p /\ PGDIR_OFFSET(v, k) = o THEN n
                   ELSE Path(m, r, v)[k - 1]
             /\ Down(m2, v, 1, Path(m2, r, v)[1]) = Down(m, v, 1, Path(m, r, v)[1])
  <1> TAKE v \in VPage
  <1>1. PICK t : t = Path(m, r, v)
    OBVIOUS
  <1>2. PICK u : u = [l \in 1 .. Levels |->
                        IF l = k - 1 /\ t[k] = p /\ PGDIR_OFFSET(v, k) = o THEN n ELSE t[l]]
    OBVIOUS
  <1>3. v \in Int /\ OnLevels(t, lev)
    BY <1>1, SameRoot
  <1>4. Path(m2, r, v) = u /\ Down(m2, v, 1, u[1]) = Down(m, v, 1, t[1])
    <2>1. Path(m2, r, v) = u
      BY <1>1, <1>2, <1>3, PathNewTable
    <2>2. Down(m2, v, 1, Path(m2, r, v)[1]) = Down(m, v, 1, Path(m, r, v)[1])
      BY <1>1, <1>2, <1>3, PathNewTable
    <2> QED  BY <1>1, <2>1, <2>2
  <1>5. k - 1 \in 1 .. Levels
    BY Constants DEF NewTable
  <1>6. u[k - 1] = IF t[k] = p /\ PGDIR_OFFSET(v, k) = o THEN n ELSE t[k - 1]
    BY <1>2, <1>5
  <1> QED
    BY <1>1, <1>4, <1>6

\* Apart is kept by it.
LEMMA ApartNewTable ==
    ASSUME NEW m, NEW m2, NEW lev, NEW p, NEW k, NEW o, NEW n, NewTable(m, m2, lev, p, k, o, n),
           NEW r \in Page, \A v \in VPage : OnLevels(Path(m, r, v), lev), Apart(m, r)
    PROVE  Apart(m2, r)
  <1> SUFFICES ASSUME NEW v \in VPage, NEW w \in VPage, NEW l \in 1 .. Levels,
                      Path(m2, r, v)[l] \in Page, Path(m2, r, v)[l] = Path(m2, r, w)[l]
               PROVE  v \div Span[l] = w \div Span[l]
    BY DEF Apart
  <1>0. v \in Nat /\ w \in Nat /\ v \in Int /\ w \in Int
    BY SameRoot
  <1>1. PICK t, s : t = Path(m, r, v) /\ s = Path(m, r, w)
    OBVIOUS
  <1>2. /\ Path(m2, r, v)[l] = IF l = k - 1 /\ t[k] = p /\ PGDIR_OFFSET(v, k) = o THEN n ELSE t[l]
        /\ Path(m2, r, w)[l] = IF l = k - 1 /\ s[k] = p /\ PGDIR_OFFSET(w, k) = o THEN n ELSE s[l]
    <2>1. OnLevels(t, lev) /\ OnLevels(s, lev)
      BY <1>1
    <2>2. PICK u : u = [j \in 1 .. Levels |->
                         IF j = k - 1 /\ t[k] = p /\ PGDIR_OFFSET(v, k) = o THEN n ELSE t[j]]
      OBVIOUS
    <2>3. PICK z : z = [j \in 1 .. Levels |->
                         IF j = k - 1 /\ s[k] = p /\ PGDIR_OFFSET(w, k) = o THEN n ELSE s[j]]
      OBVIOUS
    <2>4. Path(m2, r, v) = u
      BY <1>0, <1>1, <2>1, <2>2, PathNewTable
    <2>5. Path(m2, r, w) = z
      BY <1>0, <1>1, <2>1, <2>3, PathNewTable
    <2> QED  BY <2>2, <2>3, <2>4, <2>5
  <1>3. /\ p \in Page /\ lev[n] = 0 /\ k \in 1 .. Levels /\ k > 1
    BY DEF NewTable
  <1>4. \A j \in 1 .. Levels : t[j] \in Page => t[j] # n
    <2>1. OnLevels(t, lev)
      BY <1>1
    <2> QED  BY <2>1, <1>3, DownNone DEF OnLevels
  <1>5. \A j \in 1 .. Levels : s[j] \in Page => s[j] # n
    <2>1. OnLevels(s, lev)
      BY <1>1
    <2> QED  BY <2>1, <1>3, DownNone DEF OnLevels
  <1>6. CASE l = k - 1 /\ t[k] = p /\ PGDIR_OFFSET(v, k) = o
    <2>1. s[k] = p /\ PGDIR_OFFSET(w, k) = o
      BY <1>2, <1>5, <1>6
    <2>2. v \div Span[k] = w \div Span[k]
      BY <1>1, <1>3, <1>6, <2>1 DEF Apart
    <2> QED  BY <1>0, <1>3, <1>6, <2>1, <2>2, SameEntry
  <1>7. CASE ~(l = k - 1 /\ t[k] = p /\ PGDIR_OFFSET(v, k) = o)
    <2>1. t[l] \in Page /\ t[l] = s[l]
      BY <1>2, <1>4, <1>7
    <2> QED  BY <1>1, <2>1 DEF Apart
  <1> QED
    BY <1>6, <1>7

\* A leaf entry changes no path, and only the translation it stands for.
LEMMA PathNewEntry ==
    ASSUME NEW m \in Memory, NEW m2 \in Memory, NEW lev, NEW p \in Page, lev[p] = 1,
           NEW o \in Offset, NEW a,
           \A x \in Page, y \in Offset :
              m2[x][y] = IF x = p /\ y = o THEN [addr |-> a, present |-> TRUE] ELSE m[x][y],
           NEW r \in Page, NEW v \in Int, NEW t, t = Path(m, r, v), OnLevels(t, lev)
    PROVE  /\ Path(m2, r, v) = t
           /\ Down(m2, v, 1, t[1]) = IF t[1] = p /\ PGDIR_OFFSET(v, 1) = o THEN a
                                     ELSE Down(m, v, 1, t[1])
  <1>0. Levels \in Nat /\ Levels > 0 /\ r \in Int /\ 1 \in 1 .. Levels
    BY Constants DEF Page
  <1>1. PathEq(t, m, r, v)
    BY <1>0, PathIs
  <1>2. ASSUME NEW l \in 1 .. Levels, ~(l = 1 /\ t[l] = p /\ PGDIR_OFFSET(v, l) = o)
        PROVE  Down(m2, v, l, t[l]) = Down(m, v, l, t[l])
    <2>1. CASE t[l] = None
      BY <2>1, DownNone
    <2>2. CASE t[l] \in Page /\ lev[t[l]] = l
      <3>1. PICK y \in Offset : y = PGDIR_OFFSET(v, l)
        BY OffsetInTable
      <3>2. m2[t[l]][y] = m[t[l]][y]
        BY <1>2, <2>2, <3>1
      <3> QED  BY <3>1, <3>2, SameDown
    <2> QED  BY <2>1, <2>2 DEF OnLevels
  <1>3. ASSUME NEW l \in 1 .. Levels, l # Levels
        PROVE  Down(m2, v, l + 1, t[l + 1]) = Down(m, v, l + 1, t[l + 1])
    <2>1. l + 1 \in 1 .. Levels /\ l + 1 # 1
      BY <1>0, <1>3
    <2> QED  BY <2>1, <1>2
  <1>4. PathEq(t, m2, r, v)
    <2>1. \A l \in 1 .. Levels : t[l] = IF l = Levels THEN r ELSE Down(m2, v, l + 1, t[l + 1])
      BY <1>1, <1>3 DEF PathEq
    <2>2. t = [l \in 1 .. Levels |-> t[l]]
      BY <1>1 DEF PathEq
    <2> QED  BY <2>1, <2>2 DEF PathEq
  <1>5. Path(m2, r, v) = t
    BY <1>0, <1>4, PathIs
  <1>6. CASE t[1] = p /\ PGDIR_OFFSET(v, 1) = o
    <2>1. m2[p][o] = [addr |-> a, present |-> TRUE]
      OBVIOUS
    <2> QED  BY <1>5, <1>6, <2>1 DEF Down
  <1>7. CASE ~(t[1] = p /\ PGDIR_OFFSET(v, 1) = o)
    BY <1>0, <1>2, <1>5, <1>7
  <1> QED
    BY <1>6, <1>7

\* An empty root.
LEMMA PathEmpty ==
    ASSUME NEW m \in Memory, NEW r \in Page, \A y \in Offset : m[r][y] = Zero, NEW v \in Int
    PROVE  /\ \A l \in 1 .. Levels : Path(m, r, v)[l] = IF l = Levels THEN r ELSE None
           /\ Down(m, v, 1, Path(m, r, v)[1]) = None
  <1>0. Levels \in Nat /\ Levels > 0 /\ r \in Int /\ 1 \in 1 .. Levels
    BY Constants DEF Page
  <1> DEFINE t == [l \in 1 .. Levels |-> IF l = Levels THEN r ELSE None]
  <1>1. ASSUME NEW l \in 1 .. Levels
        PROVE  Down(m, v, l, r) = None
    <2>1. PICK y \in Offset : y = PGDIR_OFFSET(v, l)
      BY OffsetInTable
    <2>2. m[r][y].present = FALSE
      BY DEF Zero
    <2> QED  BY <2>1, <2>2 DEF Down
  <1>2. ASSUME NEW l \in 1 .. Levels, l # Levels
        PROVE  Down(m, v, l + 1, t[l + 1]) = None
    <2>1. l + 1 \in 1 .. Levels
      BY <1>0, <1>2
    <2>2. t[l + 1] = r \/ t[l + 1] = None
      BY <2>1
    <2> QED  BY <2>1, <2>2, <1>1, DownNone
  <1>3. PathEq(t, m, r, v)
    BY <1>2 DEF PathEq
  <1>4. t[1] = r \/ t[1] = None
    BY <1>0
  <1>5. \A l \in 1 .. Levels : t[l] = IF l = Levels THEN r ELSE None
    OBVIOUS
  <1> HIDE DEF t
  <1>6. Path(m, r, v) = t
    BY <1>0, <1>3, PathIs
  <1> QED
    BY <1>0, <1>1, <1>4, <1>5, <1>6, DownNone

-----------------------------------------------------------------------------
(* The steps. *)

\* The tables in use, or under construction, hang from root.
LEMMA RootRanked ==
    ASSUME ControlInv, HeapInv, CallInv, PagesInv, pc \notin {"link", "next"},
           NEW lev, Ranked(lev)
    PROVE  /\ mem \in Memory /\ root \in Page /\ lev[root] = Levels
           /\ \A v \in VPage : OnLevels(Path(mem, root, v), lev)
  <1>1. mem \in Memory /\ root \in Page /\ root # BootCr3
    BY DEF HeapInv, Memory, PagesInv
  <1>2. lev[root] = Levels
    <2>1. CASE pc \in {"install_pages", "install_io", "walk"}
      BY <2>1 DEF Ranked
    <2>2. CASE pc \in {"alloc_vpages", "cleanup"}
      <3>1. cr3 = root
        BY <2>2 DEF CallInv, Switched
      <3> QED  BY <1>1, <3>1 DEF Ranked
    <2> QED  BY <2>1, <2>2 DEF ControlInv
  <1>3. \A v \in VPage : v \in Int
    BY SameRoot
  <1>4. ASSUME NEW v \in VPage
        PROVE  OnLevels(Path(mem, root, v), lev)
    BY <1>1, <1>2, <1>3, PathRanked DEF OnLevels
  <1> QED
    BY <1>1, <1>2, <1>4

\* The link loop.
LEMMA LinkPages ==
    ASSUME HeapInv, PagesInv, LinkPage \/ LinkLast
    PROVE  PagesInv' /\ MapInv'
  <1>1. /\ pc = "link" /\ cursor \in HeapBase .. end - 1 /\ end \in HeapBase + 1 .. Gib4
        /\ mem \in Memory
    BY DEF HeapInv, Chain, LinkPage, LinkLast, Memory
  <1>2. cursor \in Nat /\ cursor < end /\ end \in Nat /\ end <= Gib4 /\ Gib4 \in Nat /\ 0 \in Offset
    BY <1>1, Constants
  <1>3. pc' \in {"link", "next"} /\ UNCHANGED <<root, cr3, start_cr3, pt>>
    BY <1>1 DEF LinkPage, LinkLast, mmuVars, callVars, walkVars
  <1>4. cursor' \in Page
    BY <1>2 DEF LinkPage, LinkLast, Page
  <1>5. PICK w : w.addr \in Nat /\ mem' = [mem EXCEPT ![cursor][0] = w]
    <2>1. [addr |-> cursor + 1, present |-> FALSE].addr \in Nat /\ Zero.addr \in Nat
      BY <1>2 DEF Zero
    <2> QED  BY <2>1 DEF LinkPage, LinkLast
  <1>6. \A q \in Page, o \in Offset : mem'[q][o] = mem[q][o] \/ mem'[q][o] = w
    BY <1>1, <1>5 DEF Memory
  <1>7. \A q \in Page, o \in Offset : mem'[q][o].addr \in Nat
    BY <1>5, <1>6 DEF PagesInv
  <1> QED
    BY <1>3, <1>4, <1>7 DEF PagesInv, MapInv

\* The steps that keep the memory.
LEMMA RegisterPages ==
    ASSUME ControlInv, HeapInv, CallInv, PagesInv, MapInv,
           \/ SkipJob \/ InstallPages \/ InstallIo \/ WriteCr3 \/ AllocVpages
           \/ IoInstalled \/ SwitchToStart
    PROVE  PagesInv' /\ MapInv'
  <1>1. mem' = mem /\ cursor' = cursor
    BY DEF SkipJob, InstallPages, InstallIo, StartWalk, WriteCr3, AllocVpages, IoInstalled,
           SwitchToStart, heapVars
  <1>2. /\ \A q \in Page, o \in Offset : mem[q][o].addr \in Nat
        /\ cursor \in Page /\ root \in Page /\ cr3 \in Page /\ start_cr3 \in Page /\ pt \in Page
        /\ pc \notin {"link", "next"} => root # BootCr3
    BY DEF PagesInv
  <1>3. pc \notin {"link", "next"} =>
          Apart(mem, root) /\ Maps(mem, root, Low, High)
    BY DEF MapInv
  <1>4. CASE SkipJob
    <2>1. pc' = "next" /\ UNCHANGED <<root, cr3, start_cr3, pt>>
      BY <1>4 DEF SkipJob, mmuVars, callVars, walkVars
    <2> QED  BY <1>1, <1>2, <2>1 DEF PagesInv, MapInv
  <1>5. CASE InstallPages \/ InstallIo
    <2>1. /\ pc \in {"install_pages", "install_io"} /\ pc' = "walk" /\ ret' = pc
          /\ level' = Levels /\ pt' = root
          /\ UNCHANGED <<root, cr3, start_cr3, virt, vfree_top, job>>
      BY <1>5 DEF InstallPages, InstallIo, StartWalk, mmuVars, callVars
    <2>2. Low' = Low /\ High' = High
      BY <2>1 DEF Low, High, Building, AddingIo, Size
    <2>3. Path(mem, root, virt)[Levels] = root
      <3>1. mem \in Memory /\ root \in Int /\ virt \in Int
        BY <1>2 DEF HeapInv, Memory, ControlInv, Page
      <3> QED  BY <3>1, PathLevels
    <2>4. PagesInv'
      BY <1>1, <1>2, <2>1 DEF PagesInv
    <2>5. MapInv'
      BY <1>1, <1>3, <2>1, <2>2, <2>3 DEF MapInv
    <2> QED  BY <2>4, <2>5
  <1>6. CASE WriteCr3
    <2>1. /\ pc = "install_pages" /\ left = 0 /\ start_cr3' = cr3 /\ cr3' = root
          /\ pc' = IF Jobs[job].vpages > 0 THEN "alloc_vpages" ELSE "cleanup"
          /\ UNCHANGED <<root, pt, virt, vfree_top, job>>
      BY <1>6 DEF WriteCr3, callVars, walkVars
    <2>2. Low = virt /\ virt + left = Size /\ High = {}
      BY <2>1 DEF Low, High, Building, AddingIo, CallInv
    <2>3. Low' = Size /\ High' = {}
      BY <2>1 DEF Low, High, Building, AddingIo, Size
    <2>4. Low' = Low /\ High' = High
      <3>1. virt \in Int
        BY DEF ControlInv
      <3> QED  BY <2>1, <2>2, <2>3, <3>1
    <2>5. PagesInv'
      BY <1>1, <1>2, <2>1 DEF PagesInv
    <2>6. MapInv'
      BY <1>1, <1>3, <2>1, <2>4 DEF MapInv
    <2> QED  BY <2>5, <2>6
  <1>7. CASE AllocVpages
    <2>1. /\ pc = "alloc_vpages" /\ pc' = "install_io" /\ root' = cr3 /\ virt' = vfree_top'
          /\ UNCHANGED <<cr3, start_cr3, pt, job>>
      BY <1>7 DEF AllocVpages, mmuVars, walkVars
    <2>2. cr3 = root
      BY <2>1 DEF CallInv, Switched
    <2>3. Low' = Low /\ High = {}
      BY <2>1 DEF Low, High, Building, AddingIo, Size
    <2>4. High' = {}
      <3>1. \A x \in Int : x .. x - 1 = {}
        OBVIOUS
      <3>2. vfree_top' \in Int
        <4>1. job \in 1 .. Len(Jobs)
          BY <2>1, Constants DEF ControlInv
        <4>2. Jobs[job].vpages \in Int
          BY <4>1, Sizes
        <4>3. VPages \in Nat \ {0}
          BY SameRoot
        <4>4. vfree_top \in Int
          BY DEF ControlInv
        <4> QED  BY <1>7, <4>2, <4>3, <4>4 DEF AllocVpages
      <3>3. High' = vfree_top' .. vfree_top' - 1
        BY <2>1 DEF High, AddingIo
      <3> QED  BY <3>1, <3>2, <3>3
    <2>5. PagesInv'
      BY <1>1, <1>2, <2>1, <2>2 DEF PagesInv
    <2>6. MapInv'
      BY <1>1, <1>3, <2>1, <2>2, <2>3, <2>4 DEF MapInv
    <2> QED  BY <2>5, <2>6
  <1>8. CASE IoInstalled
    <2>1. /\ pc = "install_io" /\ pc' = "cleanup" /\ left = 0
          /\ UNCHANGED <<root, cr3, start_cr3, pt, virt, vfree_top, job>>
      BY <1>8 DEF IoInstalled, mmuVars, callVars, walkVars
    <2>2. Low' = Low
      BY <2>1 DEF Low, Building, Size
    <2>3. Jobs[job].vpages = 2 /\ virt + left = vfree_top + 2 /\ virt \in Int /\ vfree_top \in Int
      BY <2>1 DEF CallInv, AddingIo, ControlInv
    <2>4. virt - 1 = vfree_top + 2 - 1
      BY <2>1, <2>3
    <2>5. High' = High
      BY <2>1, <2>3, <2>4 DEF High, AddingIo
    <2>6. PagesInv'
      BY <1>1, <1>2, <2>1 DEF PagesInv
    <2>7. MapInv'
      BY <1>1, <1>3, <2>1, <2>2, <2>5 DEF MapInv
    <2> QED  BY <2>6, <2>7
  <1>9. CASE SwitchToStart
    <2>1. pc' = "next" /\ cr3' = start_cr3 /\ UNCHANGED <<root, start_cr3, pt>>
      BY <1>9 DEF SwitchToStart, callVars, walkVars
    <2> QED  BY <1>1, <1>2, <2>1 DEF PagesInv, MapInv
  <1> QED
    BY <1>4, <1>5, <1>6, <1>7, <1>8, <1>9

\* The root of new tables maps nothing.
LEMMA SetupMmuPages ==
    ASSUME ControlInv, HeapInv, HeapInv', PagesInv, SetupMmu
    PROVE  PagesInv' /\ MapInv'
  <1>1. PICK n : n = freelist
    OBVIOUS
  <1>2. /\ n \in HeapBase .. end - 1 /\ end \in HeapBase + 1 .. Gib4 /\ n # 0
        /\ mem \in Memory /\ mem' \in Memory
    BY <1>1, Constants DEF HeapInv, Memory
  <1>3. n \in Page /\ n # BootCr3
    BY <1>2, Constants DEF Page, BootCr3
  <1>4. heap_alloc_page(mem, freelist).page = n
        /\ heap_alloc_page(mem, freelist).mem = [mem EXCEPT ![n] = ZeroPage]
    BY <1>1, <1>2 DEF heap_alloc_page
  <1>5. /\ pc' = "install_pages" /\ mem' = [mem EXCEPT ![n] = ZeroPage] /\ root' = n /\ virt' = 0
        /\ UNCHANGED <<cr3, start_cr3, pt, cursor, job>>
    BY <1>4 DEF SetupMmu, mmuVars, walkVars
  <1>6. \A q \in Page : mem'[q] = IF q = n THEN ZeroPage ELSE mem[q]
    BY <1>2, <1>5 DEF Memory
  <1>7. \A y \in Offset : ZeroPage[y] = Zero /\ Zero.addr \in Nat
    BY DEF ZeroPage, Zero
  <1>8. PagesInv'
    <2>1. \A q \in Page, o \in Offset : mem'[q][o].addr \in Nat
      BY <1>6, <1>7 DEF PagesInv
    <2> QED  BY <1>3, <1>5, <2>1 DEF PagesInv
  <1>9. \A y \in Offset : mem'[n][y] = Zero
    BY <1>3, <1>6, <1>7
  <1>10. \A v \in VPage : v \in Int /\ v >= 0 /\ v \div Span[Levels] = 0
    BY SameRoot
  <1>11. ASSUME NEW v \in VPage
         PROVE  /\ \A l \in 1 .. Levels : Path(mem', n, v)[l] = IF l = Levels THEN n ELSE None
                /\ Down(mem', v, 1, Path(mem', n, v)[1]) = None
    BY <1>2, <1>3, <1>9, <1>10, PathEmpty
  <1>12. Apart(mem', n)
    BY <1>10, <1>11, DownNone DEF Apart
  <1>13. Low' = 0 /\ High' = {}
    BY <1>5 DEF Low, High, Building, AddingIo
  <1>14. Maps(mem', n, 0, {})
    <2>1. \A v \in VPage : Mapped(v, 0, {}) = None
      BY <1>10 DEF Mapped
    <2> QED  BY <1>11, <2>1 DEF Maps
  <1>15. MapInv'
    BY <1>5, <1>12, <1>13, <1>14 DEF MapInv
  <1> QED
    BY <1>8, <1>15

\* A level of the walk changes no translation.
LEMMA WalkLevelPages ==
    ASSUME ControlInv, HeapInv, HeapInv', CallInv, PagesInv, MapInv, WalkLevel
    PROVE  PagesInv' /\ MapInv'
  <1>0. PICK lev : Ranked(lev)
    BY DEF HeapInv
  <1>1. /\ pc = "walk" /\ level > 1 /\ level \in 1 .. Levels /\ pt \in Page /\ lev[pt] = level
    BY <1>0 DEF WalkLevel, Ranked
  <1>2. /\ mem \in Memory /\ root \in Page /\ lev[root] = Levels
        /\ \A v \in VPage : OnLevels(Path(mem, root, v), lev)
    BY <1>0, <1>1, RootRanked
  <1>3. /\ level' = level - 1
        /\ UNCHANGED <<pc, ret, vfree_top, cr3, start_cr3, job, cursor, root, virt>>
    BY DEF WalkLevel, mmuVars, callVars
  <1>4. Low' = Low /\ High' = High
    BY <1>3 DEF Low, High, Building, AddingIo, Size
  <1>5. PICK o : o = PGDIR_OFFSET(virt, level)
    OBVIOUS
  <1>6. virt \in VPage /\ virt \in Int /\ root \in Int /\ o \in Offset
    <2>1. virt \in VPage
      <3>1. virt \in 0 .. VPages /\ left \in Nat /\ left > 0
        BY <1>1, Sizes DEF CallInv
      <3>2. CASE Building
        <4>1. virt + left = Size /\ Size <= Gib8 /\ Gib8 \in Nat /\ Gib8 <= VPages
          BY <3>2, Sizes DEF CallInv, Size
        <4> QED  BY <3>1, <4>1, Sizes
      <3>3. CASE AddingIo
        <4>1. /\ virt + left = vfree_top + 2 /\ vfree_top + 2 <= VPages /\ vfree_top \in Int
          BY <3>3 DEF CallInv, ControlInv
        <4> QED  BY <3>1, <4>1, Sizes
      <3> QED  BY <1>1, <3>2, <3>3 DEF ControlInv, Building, AddingIo
    <2>2. virt \in Int /\ root \in Int
      BY <1>2 DEF ControlInv, Page
    <2> QED  BY <1>1, <1>5, <2>1, <2>2, OffsetInTable
  <1>7. PICK t : t = Path(mem, root, virt)
    OBVIOUS
  <1>8. /\ Apart(mem, root) /\ Maps(mem, root, Low, High) /\ t[level] = pt
    BY <1>1, <1>7 DEF MapInv
  <1>9. level - 1 \in 1 .. Levels /\ level - 1 # Levels /\ level - 1 + 1 = level
    BY <1>1, Constants
  <1>10. t[level - 1] = Down(mem, virt, level, pt)
    BY <1>2, <1>6, <1>7, <1>8, <1>9, PathLevels
  <1>11. CASE mem[pt][o].present
    <2>1. mem' = mem /\ pt' = mem[pt][o].addr
      BY <1>5, <1>11 DEF WalkLevel, heapVars
    <2>2. pt' = Path(mem, root, virt)[level - 1]
      BY <1>1, <1>5, <1>7, <1>10, <1>11, <2>1 DEF Down
    <2>3. pt' \in Page
      BY <1>0, <1>1, <1>6, <1>11, <2>1 DEF Ranked
    <2>4. PagesInv'
      BY <1>3, <2>1, <2>3 DEF PagesInv
    <2>5. MapInv'
      BY <1>3, <1>4, <1>8, <2>1, <2>2 DEF MapInv
    <2> QED  BY <2>4, <2>5
  <1>12. CASE ~mem[pt][o].present
    <2>1. PICK n : n = freelist
      OBVIOUS
    <2>2. n \in Page /\ n \in Nat /\ n # 0 /\ lev[n] = 0 /\ n # pt
      <3>1. n \in HeapBase .. end - 1 /\ end \in HeapBase + 1 .. Gib4
        BY <2>1 DEF HeapInv
      <3>2. n \in Page /\ n \in Nat /\ n # 0 /\ n \notin HeapBase .. n - 1
        BY <3>1, Constants DEF Page
      <3>3. ~(lev[n] > 0) /\ lev[n] \in 0 .. Levels
        BY <1>0, <2>1, <3>2 DEF Ranked
      <3>4. lev[n] = 0
        BY <3>3, Constants
      <3> QED  BY <3>2, <3>4, <1>1
    <2>3. PICK w : w = [addr |-> n, present |-> TRUE]
      OBVIOUS
    <2>4. /\ mem' = [[mem EXCEPT ![n] = ZeroPage] EXCEPT ![n] = ZeroPage, ![pt][o] = w]
          /\ pt' = n
      <3>1. heap_alloc_page(mem, freelist).page = n
            /\ heap_alloc_page(mem, freelist).mem = [mem EXCEPT ![n] = ZeroPage]
        BY <2>1, <2>2 DEF heap_alloc_page
      <3> QED  BY <1>5, <1>12, <2>3, <3>1 DEF WalkLevel
    <2>5. mem' \in Memory
      BY DEF HeapInv, Memory
    <2>6. ASSUME NEW x \in Page, NEW y \in Offset
          PROVE  mem'[x][y] = IF x = n THEN Zero ELSE IF x = pt /\ y = o THEN w ELSE mem[x][y]
      <3>1. PICK m : m = [mem EXCEPT ![n] = ZeroPage]
        OBVIOUS
      <3>2. m \in Memory /\ m[n] = ZeroPage /\ \A z \in Page : z # n => m[z] = mem[z]
        <4>1. ZeroPage \in [Offset -> Word]
          BY DEF ZeroPage, Zero, Word
        <4> QED  BY <3>1, <4>1, <1>2, <2>2 DEF Memory
      <3>3. [m EXCEPT ![n] = ZeroPage] = m
        BY <3>2, <2>2 DEF Memory
      <3>4. mem' = [m EXCEPT ![pt][o] = w]
        BY <2>4, <3>1, <3>3
      <3>5. mem'[x][y] = IF x = pt /\ y = o THEN w ELSE m[x][y]
        BY <3>2, <3>4, <1>1, <1>6 DEF Memory
      <3>6. ZeroPage[y] = Zero
        BY DEF ZeroPage
      <3> QED  BY <2>2, <3>2, <3>5, <3>6
    <2>7. NewTable(mem, mem', lev, pt, level, o, n)
      BY <1>1, <1>2, <1>6, <1>12, <2>2, <2>3, <2>5, <2>6 DEF NewTable
    <2>8. Apart(mem', root)
      BY <1>2, <1>8, <2>7, ApartNewTable
    <2>9. ASSUME NEW v \in VPage
          PROVE  /\ Path(mem', root, v)[level - 1] =
                       IF Path(mem, root, v)[level] = pt /\ PGDIR_OFFSET(v, level) = o THEN n
                       ELSE Path(mem, root, v)[level - 1]
                 /\ Down(mem', v, 1, Path(mem', root, v)[1])
                       = Down(mem, v, 1, Path(mem, root, v)[1])
      BY <1>2, <2>7, PathsNewTable
    <2>10. Path(mem', root, virt)[level - 1] = n
      BY <1>5, <1>6, <1>7, <1>8, <2>9
    <2>11. Maps(mem', root, Low, High)
      BY <1>8, <2>9 DEF Maps
    <2>12. PagesInv'
      <3>1. Zero.addr \in Nat /\ w.addr \in Nat
        BY <2>2, <2>3 DEF Zero
      <3>2. \A q \in Page, y \in Offset : mem'[q][y].addr \in Nat
        BY <2>6, <3>1 DEF PagesInv
      <3> QED  BY <1>3, <2>2, <2>4, <3>2 DEF PagesInv
    <2>13. MapInv'
      BY <1>3, <1>4, <2>4, <2>8, <2>10, <2>11 DEF MapInv
    <2> QED  BY <2>12, <2>13
  <1> QED
    BY <1>11, <1>12

\* The entry of a page changes one translation.
LEMMA WritePtePages ==
    ASSUME ControlInv, HeapInv, HeapInv', CallInv, PagesInv, MapInv, WritePte
    PROVE  PagesInv' /\ MapInv'
  <1>0. PICK lev : Ranked(lev)
    BY DEF HeapInv
  <1>1. /\ pc = "walk" /\ level = 1 /\ pt \in Page /\ lev[pt] = 1
    BY <1>0 DEF WritePte, Ranked
  <1>2. /\ mem \in Memory /\ root \in Page /\ lev[root] = Levels
        /\ \A v \in VPage : OnLevels(Path(mem, root, v), lev)
    BY <1>0, <1>1, RootRanked
  <1>3. PICK o : o = PGDIR_OFFSET(virt, 1)
    OBVIOUS
  <1>4. PICK w : w = [addr |-> phys, present |-> TRUE]
    OBVIOUS
  <1>5. /\ mem' = [mem EXCEPT ![pt][o] = w] /\ pc' = ret /\ virt' = virt + 1
        /\ UNCHANGED <<vfree_top, cr3, start_cr3, job, cursor, root, ret, pt>>
    BY <1>3, <1>4 DEF WritePte, mmuVars, walkVars
  <1>6. /\ left \in Nat /\ left > 0 /\ virt \in Nat /\ phys \in Nat /\ vfree_top \in Nat
        /\ ret \in {"install_pages", "install_io"}
    BY <1>1, Sizes DEF CallInv, ControlInv
  <1>7. Size \in Nat /\ Size <= Gib8 /\ Gib8 \in Nat
    BY Sizes DEF Size
  <1>8. /\ virt \in VPage
        /\ ret = "install_pages" =>
              phys = virt /\ Low = virt /\ High = {} /\ Low' = virt + 1 /\ High' = {}
        /\ ret = "install_io" =>
              /\ phys = IoRam /\ Low <= virt /\ Low \in Nat /\ vfree_top <= virt
              /\ High = vfree_top .. virt - 1 /\ Low' = Low /\ High' = vfree_top .. virt
    <2>1. CASE ret = "install_pages"
      <3>1. Building /\ ~AddingIo /\ Building' /\ ~AddingIo'
        BY <1>1, <1>5, <2>1 DEF Building, AddingIo
      <3>2. phys = virt /\ virt + left = Size
        BY <3>1 DEF CallInv
      <3>3. virt \in VPage
        BY <1>6, <1>7, <3>2, Sizes
      <3>4. Low = virt /\ High = {} /\ Low' = virt + 1 /\ High' = {}
        BY <1>1, <1>5, <2>1, <3>1 DEF Low, High
      <3> QED  BY <2>1, <3>2, <3>3, <3>4
    <2>2. CASE ret = "install_io"
      <3>1. ~Building /\ AddingIo /\ ~Building' /\ AddingIo'
        BY <1>1, <1>5, <2>2 DEF Building, AddingIo
      <3>2. /\ phys = IoRam /\ vfree_top <= virt /\ virt + left = vfree_top + 2
            /\ vfree_top >= VPages - 2 * job /\ vfree_top + 2 <= VPages
        BY <3>1 DEF CallInv
      <3>3. job \in Nat /\ job <= Len(Jobs)
        BY <1>1 DEF ControlInv
      <3>4. virt \in VPage /\ Size <= virt
        <4>1. virt < VPages
          BY <1>6, <3>2, Sizes
        <4>2. Gib8 <= VPages - 2 * job
          BY <3>3, Sizes
        <4>3. \A a, b, c, d \in Int : a <= b /\ b <= c /\ d >= c /\ virt >= d => a <= virt
          BY <1>6
        <4>4. VPages - 2 * job \in Int
          BY <3>3, Sizes
        <4> QED  BY <1>6, <1>7, <3>2, <4>1, <4>2, <4>3, <4>4, Sizes
      <3>5. Low = Size /\ Low' = Size /\ High = vfree_top .. virt - 1 /\ High' = vfree_top .. virt' - 1
        BY <1>5, <3>1 DEF Low, High, Size
      <3>6. virt' - 1 = virt
        BY <1>5, <1>6
      <3> QED  BY <1>7, <2>2, <3>2, <3>4, <3>5, <3>6
    <2> QED  BY <1>6, <2>1, <2>2
  <1>9. o \in Offset /\ virt \in Int /\ 1 \in 1 .. Levels
    BY <1>3, <1>6, Constants, OffsetInTable
  <1>10. mem' \in Memory
    BY DEF HeapInv, Memory
  <1>11. \A x \in Page, y \in Offset : mem'[x][y] = IF x = pt /\ y = o THEN w ELSE mem[x][y]
    BY <1>1, <1>2, <1>5, <1>9 DEF Memory
  <1>12. /\ Apart(mem, root) /\ Maps(mem, root, Low, High) /\ Path(mem, root, virt)[1] = pt
    BY <1>1 DEF MapInv
  <1>13. ASSUME NEW v \in VPage
         PROVE  /\ Path(mem', root, v) = Path(mem, root, v)
                /\ Down(mem', v, 1, Path(mem, root, v)[1]) =
                      IF Path(mem, root, v)[1] = pt /\ PGDIR_OFFSET(v, 1) = o THEN phys
                      ELSE Down(mem, v, 1, Path(mem, root, v)[1])
    <2>1. PICK t : t = Path(mem, root, v)
      OBVIOUS
    <2>2. v \in Int /\ OnLevels(t, lev)
      BY <1>2, <2>1, SameRoot
    <2>3. /\ Path(mem', root, v) = t
          /\ Down(mem', v, 1, t[1]) = IF t[1] = pt /\ PGDIR_OFFSET(v, 1) = o THEN phys
                                      ELSE Down(mem, v, 1, t[1])
      BY <1>1, <1>2, <1>4, <1>9, <1>10, <1>11, <2>1, <2>2, PathNewEntry
    <2> QED  BY <2>1, <2>3
  <1>14. Apart(mem', root)
    BY <1>12, <1>13 DEF Apart
  <1>15. ASSUME NEW v \in VPage
         PROVE  (Path(mem, root, v)[1] = pt /\ PGDIR_OFFSET(v, 1) = o) <=> v = virt
    <2>1. CASE v = virt
      BY <1>3, <1>12, <2>1
    <2>2. ASSUME Path(mem, root, v)[1] = pt, PGDIR_OFFSET(v, 1) = o
          PROVE  v = virt
      <3>1. v \div Span[1] = virt \div Span[1]
        BY <1>1, <1>8, <1>9, <1>12, <2>2 DEF Apart
      <3>2. v \in Nat /\ virt \in Nat
        BY <1>8, SameRoot
      <3>3. v \div Span[1 - 1] = virt \div Span[1 - 1]
        BY <1>3, <1>9, <2>2, <3>1, <3>2, SameEntry
      <3>4. v \div Span[0] = v /\ virt \div Span[0] = virt /\ 1 - 1 = 0
        BY <3>2, SameRoot
      <3> QED  BY <3>3, <3>4
    <2> QED  BY <2>1, <2>2
  <1>16. Maps(mem', root, Low', High')
    <2> SUFFICES ASSUME NEW v \in VPage
                 PROVE  Down(mem', v, 1, Path(mem', root, v)[1]) = Mapped(v, Low', High')
      BY DEF Maps
    <2>1. Down(mem', v, 1, Path(mem', root, v)[1]) =
            IF v = virt THEN phys ELSE Mapped(v, Low, High)
      BY <1>12, <1>13, <1>15 DEF Maps
    <2>2. v \in Nat
      BY SameRoot
    <2>3. CASE ret = "install_pages"
      <3>1. Low' = virt + 1 /\ High' = {} /\ phys = virt /\ Low = virt /\ High = {}
        BY <1>8, <2>3
      <3>2. (IF v = virt THEN virt ELSE Mapped(v, virt, {})) = Mapped(v, virt + 1, {})
        <4>1. v < virt + 1 <=> v = virt \/ v < virt
          BY <1>6, <2>2
        <4>2. v = virt => v < virt + 1
          BY <1>6
        <4> QED  BY <4>1, <4>2 DEF Mapped
      <3> QED  BY <2>1, <3>1, <3>2
    <2>4. CASE ret = "install_io"
      <3>1. /\ Low' = Low /\ High' = vfree_top .. virt /\ phys = IoRam /\ Low <= virt /\ Low \in Nat
            /\ High = vfree_top .. virt - 1 /\ vfree_top <= virt
        BY <1>8, <2>4
      <3>2. CASE v = virt
        <4>1. ~(v < Low) /\ v \in vfree_top .. virt
          BY <1>6, <2>2, <3>1, <3>2
        <4> QED  BY <2>1, <3>1, <3>2, <4>1 DEF Mapped
      <3>3. CASE v # virt
        <4>1. v \in vfree_top .. virt <=> v \in vfree_top .. virt - 1
          BY <1>6, <2>2, <3>3
        <4> QED  BY <2>1, <3>1, <3>3, <4>1 DEF Mapped
      <3> QED  BY <3>2, <3>3
    <2> QED  BY <1>6, <2>3, <2>4
  <1>17. PagesInv'
    <2>1. \A q \in Page, y \in Offset : mem'[q][y].addr \in Nat
      BY <1>4, <1>6, <1>11 DEF PagesInv
    <2>2. pc' \notin {"link", "next"} /\ root # BootCr3
      BY <1>1, <1>5, <1>6 DEF PagesInv
    <2> QED  BY <1>5, <2>1, <2>2 DEF PagesInv
  <1>18. MapInv'
    <2>1. pc' # "walk"
      BY <1>5, <1>6
    <2> QED  BY <1>5, <1>14, <1>16, <2>1 DEF MapInv
  <1> QED
    BY <1>17, <1>18

-----------------------------------------------------------------------------
(* The invariant holds. *)

\* Initially.
LEMMA InitTInv == ASSUME Init PROVE TInv
  <1>1. IInv /\ CallInv
    BY InitInv, InitCall
  <1>2. HeapBase \in Page /\ 0 \in Page /\ BootCr3 \in Page
    <2>1. PICK e \in HeapEnds : TRUE
      BY DEF Init
    <2> QED  BY <2>1, Constants DEF Page, BootCr3
  <1>3. \A q \in Page, o \in Offset : mem[q][o].addr \in Nat
    BY DEF Init, Junk
  <1>4. PagesInv /\ MapInv
    BY <1>2, <1>3 DEF Init, PagesInv, MapInv
  <1> QED
    BY <1>1, <1>4 DEF TInv

\* Every step keeps it.
LEMMA NextKeepsTInv == ASSUME TInv, [Next]_vars PROVE TInv'
  <1>1. IInv' /\ CallInv'
    BY NextKeeps, CallKept DEF TInv, IInv
  <1>2. ASSUME freelist' # 0
        PROVE  PagesInv' /\ MapInv'
    <2>1. ControlInv /\ HeapInv /\ HeapInv' /\ CallInv /\ PagesInv /\ MapInv
      BY <1>1, <1>2, StaysEmpty DEF TInv, IInv
    <2>2. CASE UNCHANGED vars
      <3>1. UNCHANGED <<mem, cursor, root, cr3, start_cr3, pt, pc, ret, virt, vfree_top, job, level>>
        BY <2>2 DEF vars, heapVars, mmuVars, callVars, walkVars
      <3>2. Low' = Low /\ High' = High
        BY <3>1 DEF Low, High, Building, AddingIo, Size
      <3>3. PagesInv'
        BY <2>1, <3>1 DEF PagesInv
      <3>4. MapInv'
        BY <2>1, <3>1, <3>2 DEF MapInv
      <3> QED  BY <3>3, <3>4
    <2>3. CASE LinkPage \/ LinkLast
      BY <2>1, <2>3, LinkPages
    <2>4. CASE \/ SkipJob \/ InstallPages \/ InstallIo \/ WriteCr3 \/ AllocVpages
               \/ IoInstalled \/ SwitchToStart
      BY <2>1, <2>4, RegisterPages
    <2>5. CASE SetupMmu
      BY <2>1, <2>5, SetupMmuPages
    <2>6. CASE WalkLevel
      BY <2>1, <2>6, WalkLevelPages
    <2>7. CASE WritePte
      BY <2>1, <2>7, WritePtePages
    <2> QED
      BY <2>2, <2>3, <2>4, <2>5, <2>6, <2>7 DEF Next, AllDone
  <1> QED
    BY <1>1, <1>2 DEF TInv

\* What the processor sees.
Shown ==
    AddressSpaceOf = IF Switched THEN [v \in VPage |-> Mapped(v, Size, High)]
                     ELSE [v \in VPage |-> Mapped(v, Gib4, {})]

\* It follows from the invariant.
LEMMA ShownFromInv == ASSUME TInv, freelist # 0 PROVE Shown
  <1>1. ControlInv /\ CallInv /\ PagesInv /\ MapInv
    BY DEF TInv, IInv
  <1>2. CASE Switched
    <2>1. /\ pc \notin {"link", "next"} /\ cr3 = root /\ root # BootCr3 /\ ~Building
      BY <1>1, <1>2 DEF CallInv, PagesInv, Switched, Building
    <2>2. Maps(mem, root, Size, High)
      BY <1>1, <2>1 DEF MapInv, Low
    <2>3. \A v \in VPage : Translate(cr3, v) = Mapped(v, Size, High)
      BY <2>1, <2>2, TranslateIs DEF Maps
    <2> QED  BY <1>2, <2>3 DEF Shown, AddressSpaceOf
  <1>3. CASE ~Switched
    <2>1. cr3 = BootCr3
      BY <1>1, <1>3 DEF ControlInv, Switched, Building
    <2>2. \A v \in VPage : Translate(cr3, v) = Mapped(v, Gib4, {})
      BY <2>1 DEF Translate, Mapped
    <2> QED  BY <1>3, <2>2 DEF Shown, AddressSpaceOf
  <1> QED
    BY <1>2, <1>3

-----------------------------------------------------------------------------
(* The theorems about translations. *)

\* Every variable of the memory management keeps its type, in particular every
\* table and every register of the walk is a page, until the list is empty:
\* install_pte() then takes page 0 for a table.
THEOREM HeapTypeOK == Spec => [](freelist # 0 => TypeOK)
  <1>1. Init => TInv
    BY InitTInv
  <1>2. TInv /\ [Next]_vars => TInv'
    BY NextKeepsTInv
  <1>3. TInv => (freelist # 0 => TypeOK)
    <2> SUFFICES ASSUME TInv, freelist # 0 PROVE TypeOK
      OBVIOUS
    <2>1. ControlInv /\ HeapInv /\ CallInv /\ PagesInv
      BY DEF TInv, IInv
    <2>2. mem \in [Page -> [Offset -> [addr : Nat, present : BOOLEAN]]]
      <3>1. mem \in [Page -> [Offset -> Word]]
        BY <2>1 DEF HeapInv
      <3>2. \A q \in Page, o \in Offset : mem[q][o] \in Word /\ mem[q][o].addr \in Nat
        BY <2>1, <3>1 DEF PagesInv
      <3>3. \A w \in Word : w.addr \in Nat => w \in [addr : Nat, present : BOOLEAN]
        BY DEF Word
      <3>4. \A q \in Page, o \in Offset : mem[q][o] \in [addr : Nat, present : BOOLEAN]
        BY <3>2, <3>3
      <3> QED  BY <3>1, <3>4
    <2>3. freelist \in Page
      BY <2>1, Constants DEF HeapInv, Page
    <2> QED  BY <2>1, <2>2, <2>3 DEF TypeOK, ControlInv, CallInv, PagesInv
  <1> QED
    BY <1>1, <1>2, <1>3, PTL DEF Spec

\* As long as memory lasts, the tables setup_mmu() installed map all of it 1:1,
\* also while a benchmark adds its pages: for any widths of the tables, any
\* size of memory and any sequence of benchmarks.
THEOREM HeapIdentityMapped == Spec => [](freelist # 0 => IdentityMapped)
  <1>1. Init => TInv
    BY InitTInv
  <1>2. TInv /\ [Next]_vars => TInv'
    BY NextKeepsTInv
  <1>3. TInv => (freelist # 0 => IdentityMapped)
    <2> SUFFICES ASSUME TInv, freelist # 0, cr3 # BootCr3, NEW v \in 0 .. Gib4 - 1
                 PROVE  Translate(cr3, v) = v
      BY DEF IdentityMapped
    <2>1. Switched
      BY DEF TInv, IInv, ControlInv, Switched, Building
    <2>2. v \in VPage /\ v < Size
      BY Sizes DEF Size
    <2>3. AddressSpaceOf[v] = Mapped(v, Size, High)
      BY <2>1, <2>2, ShownFromInv DEF Shown
    <2>4. AddressSpaceOf[v] = Translate(cr3, v)
      BY <2>2 DEF AddressSpaceOf
    <2> QED  BY <2>2, <2>3, <2>4 DEF Mapped
  <1> QED
    BY <1>1, <1>2, <1>3, PTL DEF Spec

\* As long as memory lasts, a benchmark's kernel finds the pages alloc_vpages()
\* gave it, and no others, above the identity map: nothing is left over from
\* the links of the free list, from earlier tables or from earlier benchmarks.
THEOREM HeapIoPagesMapped == Spec => [](freelist # 0 => IoPagesMapped)
  <1>1. Init => TInv
    BY InitTInv
  <1>2. TInv /\ [Next]_vars => TInv'
    BY NextKeepsTInv
  <1>3. TInv => (freelist # 0 => IoPagesMapped)
    <2> DEFINE io == IF Jobs[job].vpages = 0 THEN {} ELSE vfree_top .. vfree_top + Jobs[job].vpages - 1
    <2> SUFFICES ASSUME TInv, freelist # 0, pc = "cleanup", NEW v \in Size .. VPages - 1
                 PROVE  Translate(cr3, v) = IF v \in io THEN IoRam ELSE None
      BY DEF IoPagesMapped, Size
    <2>1. Switched /\ ~AddingIo
      BY DEF Switched, AddingIo
    <2>2. v \in VPage /\ ~(v < Size)
      BY Sizes DEF Size
    <2>3. AddressSpaceOf[v] = Mapped(v, Size, High)
      BY <2>1, <2>2, ShownFromInv DEF Shown
    <2>4. AddressSpaceOf[v] = Translate(cr3, v)
      BY <2>2 DEF AddressSpaceOf
    <2>5. High = io
      <3>1. job \in 1 .. Len(Jobs)
        BY Constants DEF TInv, IInv, ControlInv
      <3>2. Jobs[job].vpages \in {0, 2}
        BY <3>1, Sizes
      <3> QED  BY <2>1, <3>2 DEF High
    <2> QED  BY <2>2, <2>3, <2>4, <2>5 DEF Mapped
  <1> QED
    BY <1>1, <1>2, <1>3, PTL DEF Spec

-----------------------------------------------------------------------------
(* The refinement. *)

\* A map of the low pages and nothing else is the abstract identity.
LEMMA IdentityIs == \A len : AS!Identity(len) = [v \in VPage |-> Mapped(v, len, {})]
  <1>1. AS!VPage = VPage
    BY DEF AS!VPage, VPage
  <1> QED
    BY <1>1 DEF AS!Identity, Mapped

\* Every step is a step of the abstract specification or changes nothing there.
LEMMA StepRefines ==
    ASSUME TInv, TInv', freelist # 0, freelist' # 0, Shown, Shown', [Next]_vars
    PROVE  [AS!Next]_(AS!vars)
  <1>1. ControlInv /\ CallInv /\ PagesInv /\ MapInv /\ ControlInv' /\ CallInv' /\ PagesInv'
    BY DEF TInv, IInv
  <1>0. /\ IF Switched THEN cr3 # BootCr3 ELSE cr3 = BootCr3
        /\ IF Switched' THEN cr3' # BootCr3 ELSE cr3' = BootCr3
    BY <1>1 DEF ControlInv, CallInv, PagesInv, Switched, Building
  <1>2. CASE ~Switched'
    <2>1. AddressSpaceOf' = AS!Identity(Gib4)
      BY <1>2, IdentityIs DEF Shown
    <2>2. CASE Switched
      BY <1>0, <1>2, <2>1, <2>2 DEF AS!Next, AS!SwitchToStart
    <2>3. CASE ~Switched
      <3>1. AddressSpaceOf = AS!Identity(Gib4)
        BY <2>3, IdentityIs DEF Shown
      <3> QED  BY <1>0, <1>2, <2>1, <2>3, <3>1 DEF AS!vars
    <2> QED  BY <2>2, <2>3
  <1>3. CASE Switched' /\ High' = {} /\ ~Switched
    <2>1. AddressSpaceOf' = AS!Identity(Size')
      BY <1>3, IdentityIs DEF Shown
    <2>2. Size' \in {Gib4, Gib8}
      BY DEF Size
    <2>3. AS!SetupMmu
      BY <1>0, <1>3, <2>1, <2>2 DEF AS!SetupMmu
    <2> QED  BY <2>3 DEF AS!Next
  <1>4. CASE Switched' /\ Switched /\ Size' = Size /\ High' = High /\ cr3' = cr3
    BY <1>4 DEF Shown, AS!vars
  <1>5. CASE UNCHANGED vars
    <2>1. UNCHANGED <<pc, ret, virt, vfree_top, job, cr3>>
      BY <1>5 DEF vars, callVars, walkVars, mmuVars
    <2>2. Size' = Size /\ High' = High /\ Switched' = Switched
      BY <2>1 DEF Size, High, AddingIo, Switched
    <2> QED  BY <1>2, <1>4, <2>1, <2>2
  <1>6. CASE LinkPage \/ LinkLast \/ SkipJob \/ SetupMmu \/ SwitchToStart \/ InstallPages
    <2>1. pc' \in {"link", "next", "install_pages"} \/ (pc' = "walk" /\ ret' = "install_pages")
      BY <1>6 DEF LinkPage, LinkLast, SkipJob, SetupMmu, SwitchToStart, InstallPages, StartWalk
    <2> QED  BY <1>2, <2>1 DEF Switched
  <1>7. CASE WriteCr3
    <2>1. /\ pc' = IF Jobs[job].vpages > 0 THEN "alloc_vpages" ELSE "cleanup"
          /\ job' = job /\ pc = "install_pages"
      BY <1>7 DEF WriteCr3
    <2>2. Switched' /\ High' = {} /\ ~Switched
      BY <2>1 DEF Switched, High, AddingIo
    <2> QED  BY <1>3, <2>2
  <1>8. CASE AllocVpages
    <2>1. /\ pc = "alloc_vpages" /\ pc' = "install_io" /\ virt' = vfree_top'
          /\ UNCHANGED <<cr3, job>>
      BY <1>8 DEF AllocVpages, mmuVars
    <2>2. Switched' /\ High' = vfree_top' .. vfree_top' - 1
      BY <2>1 DEF Switched, High, AddingIo
    <2>3. vfree_top' \in Int
      BY <1>1 DEF ControlInv
    <2>4. High' = {}
      <3>1. \A x \in Int : x .. x - 1 = {}
        OBVIOUS
      <3> QED  BY <2>2, <2>3, <3>1
    <2>5. Switched /\ High = {} /\ Size' = Size
      BY <2>1 DEF Switched, High, AddingIo, Size
    <2> QED  BY <1>4, <2>1, <2>2, <2>4, <2>5
  <1>9. CASE InstallIo
    <2>1. pc = "install_io" /\ pc' = "walk" /\ ret' = pc /\ UNCHANGED <<virt, vfree_top, job, cr3>>
      BY <1>9 DEF InstallIo, StartWalk, callVars, mmuVars
    <2>2. Switched' /\ Switched /\ Size' = Size /\ High' = High
      BY <2>1 DEF Switched, Size, High, AddingIo
    <2> QED  BY <1>4, <2>1, <2>2
  <1>10. CASE IoInstalled
    <2>1. pc = "install_io" /\ pc' = "cleanup" /\ left = 0 /\ UNCHANGED <<virt, vfree_top, job, cr3>>
      BY <1>10 DEF IoInstalled, callVars, mmuVars
    <2>2. Jobs[job].vpages = 2 /\ virt + left = vfree_top + 2 /\ virt \in Int /\ vfree_top \in Int
      BY <1>1, <2>1 DEF CallInv, AddingIo, ControlInv
    <2>3. virt - 1 = vfree_top + 2 - 1
      BY <2>1, <2>2
    <2>4. High' = High
      BY <2>1, <2>2, <2>3 DEF High, AddingIo
    <2>5. Switched' /\ Switched /\ Size' = Size
      BY <2>1 DEF Switched, Size
    <2> QED  BY <1>4, <2>1, <2>4, <2>5
  <1>11. CASE WalkLevel
    <2>1. UNCHANGED <<pc, ret, virt, vfree_top, job, cr3>>
      BY <1>11 DEF WalkLevel, callVars, mmuVars
    <2>2. Size' = Size /\ High' = High /\ Switched' = Switched
      BY <2>1 DEF Size, High, AddingIo, Switched
    <2> QED  BY <1>2, <1>4, <2>1, <2>2
  <1>12. CASE WritePte /\ Switched'
    <2>1. pc = "walk" /\ pc' = ret /\ virt' = virt + 1 /\ UNCHANGED <<vfree_top, job, ret, cr3>>
      BY <1>12 DEF WritePte, walkVars, mmuVars
    <2>2. ret = "install_io" /\ AddingIo /\ AddingIo' /\ Switched
      BY <1>1, <1>12, <2>1 DEF Switched, AddingIo, ControlInv
    <2>3. /\ vfree_top <= virt /\ virt + left = vfree_top + 2 /\ left > 0 /\ left \in Int
          /\ vfree_top >= VPages - 2 * job /\ vfree_top + 2 <= VPages
          /\ virt \in Nat /\ vfree_top \in Nat /\ job \in Nat /\ job <= Len(Jobs)
      BY <1>1, <2>1, <2>2, Sizes DEF CallInv, ControlInv
    <2>4. virt \in VPage /\ ~(virt < Size)
      <3>1. virt < VPages
        BY <2>3, Sizes
      <3>2. Gib8 <= VPages - 2 * job /\ VPages - 2 * job \in Int
        BY <2>3, Sizes
      <3>3. Size \in Int /\ Size <= Gib8 /\ Gib8 \in Int
        BY Sizes DEF Size
      <3>4. \A a, b, c, d \in Int : a <= b /\ b <= c /\ d >= c /\ virt >= d => ~(virt < a)
        BY <2>3
      <3>5. ~(virt < Size)
        BY <2>3, <3>2, <3>3, <3>4
      <3> QED  BY <2>3, <3>1, <3>5, Sizes
    <2>5. /\ High = vfree_top .. virt - 1 /\ High' = vfree_top .. virt /\ Size' = Size
      <3>1. virt' - 1 = virt
        BY <2>1, <2>3
      <3> QED  BY <2>1, <2>2, <3>1 DEF High, Size
    <2>6. ASSUME NEW v \in VPage, v # virt
          PROVE  v \in High' <=> v \in High
      <3>1. v \in Int
        BY SameRoot
      <3> QED  BY <2>3, <2>5, <2>6, <3>1
    <2>7. virt \notin High /\ virt \in High'
      BY <2>3, <2>5
    <2>8. /\ AddressSpaceOf = [v \in VPage |-> Mapped(v, Size, High)]
          /\ AddressSpaceOf' = [v \in VPage |-> Mapped(v, Size, High')]
      BY <1>12, <2>2, <2>5 DEF Shown
    <2>9. AddressSpaceOf[virt] = None /\ AddressSpaceOf'[virt] = IoRam
      BY <2>4, <2>7, <2>8 DEF Mapped
    <2>10. IoRam \in 0 .. Gib4 - 1
      <3>1. PICK e \in HeapEnds : TRUE
        BY <1>1 DEF CallInv
      <3> QED  BY <3>1, Sizes
    <2>11. AddressSpaceOf' = [AddressSpaceOf EXCEPT ![virt] = IoRam]
      <3>1. \A v \in VPage : v # virt => Mapped(v, Size, High') = Mapped(v, Size, High)
        BY <2>6 DEF Mapped
      <3>2. PICK f, g : f = AddressSpaceOf /\ g = AddressSpaceOf'
        OBVIOUS
      <3>3. \A v \in VPage : g[v] = IF v = virt THEN IoRam ELSE f[v]
        BY <2>8, <2>9, <3>1, <3>2
      <3>4. g = [v \in VPage |-> g[v]] /\ f = [v \in VPage |-> f[v]]
        BY <2>8, <3>2
      <3> QED  BY <2>4, <3>2, <3>3, <3>4
    <2>12. virt \in AS!VPage
      BY <2>4 DEF AS!VPage, VPage
    <2>13. AS!InstallPage(virt)
      BY <1>0, <2>1, <2>2, <2>9, <2>10, <2>11 DEF AS!InstallPage
    <2> QED  BY <2>12, <2>13 DEF AS!Next
  <1> QED
    BY <1>2, <1>5, <1>6, <1>7, <1>8, <1>9, <1>10, <1>11, <1>12 DEF Next, AllDone

\* heap.c implements AddressSpace in every run in which memory lasts: tables
\* under construction are invisible, switching to them and back are single
\* steps that alternate, and install_page() adds one page that was not mapped.
THEOREM HeapRefinesAddressSpace == Spec /\ [](freelist # 0) => ImplementsAddressSpace
  <1>1. Init => TInv
    BY InitTInv
  <1>2. TInv /\ [Next]_vars => TInv'
    BY NextKeepsTInv
  <1>3. TInv /\ freelist # 0 => Shown
    BY ShownFromInv
  <1>4. Init /\ Shown => AS!Init
    <2> SUFFICES ASSUME Init, Shown PROVE AS!Init
      OBVIOUS
    <2>1. ~Switched /\ cr3 = BootCr3
      BY DEF Init, Switched
    <2> QED  BY <2>1, IdentityIs DEF Shown, AS!Init
  <1>5. TInv /\ TInv' /\ freelist # 0 /\ (freelist # 0)' /\ Shown /\ Shown' /\ [Next]_vars
          => [AS!Next]_(AS!vars)
    BY StepRefines
  <1> QED
    BY <1>1, <1>2, <1>3, <1>4, <1>5, PTL DEF Spec, ImplementsAddressSpace, AS!Spec
-----------------------------------------------------------------------------
(* How many tables are needed. *)

\* The tables of level k that n pages from 0 on need.
Cover(n, k) == (n + Span[k] - 1) \div Span[k]

\* Division is monotonic.
LEMMA DivMonotonic ==
    ASSUME NEW s \in Nat \ {0}, NEW a \in Nat, NEW b \in Nat, a <= b
    PROVE  a \div s \in Nat /\ b \div s \in Nat /\ a \div s <= b \div s
  <1>1. PICK p \in Nat, q \in Nat : p = a \div s /\ q = b \div s
    <2>1. a \div s \in Nat /\ b \div s \in Nat
      OBVIOUS
    <2> QED  BY <2>1
  <1>2. s * p <= a /\ b < s * q + s
    BY <1>1
  <1>3. p <= q
    <2> SUFFICES ASSUME q < p PROVE FALSE
      OBVIOUS
    <2>1. PICK j \in Nat : p = q + 1 + j
      <3>1. p - q - 1 \in Nat /\ p = q + 1 + (p - q - 1)
        OBVIOUS
      <3> QED  BY <3>1
    <2>2. s * p = s * q + s + s * j /\ s * j \in Nat /\ s * q \in Nat
      BY <2>1
    <2>3. \A x, y \in Nat : x + s + y <= a /\ b < x + s => FALSE
      OBVIOUS
    <2> QED  BY <1>2, <2>2, <2>3
  <1> QED
    BY <1>1, <1>3

\* One page more needs another table where it is the first of its table, and
\* never fewer.
LEMMA CoverStep ==
    ASSUME NEW n \in Nat, NEW k \in 0 .. Levels
    PROVE  /\ Cover(n, k) \in Nat /\ Cover(n + 1, k) \in Nat /\ Cover(n, k) <= Cover(n + 1, k)
           /\ n % Span[k] = 0 => Cover(n + 1, k) = Cover(n, k) + 1
  <1>1. PICK s \in Nat \ {0} : s = Span[k]
    BY SpanPositive
  <1>2. PICK a \in Nat, b \in Nat : a = n + s - 1 /\ b = (n + 1) + s - 1 /\ a <= b
    <2>1. n + s - 1 \in Nat /\ (n + 1) + s - 1 \in Nat /\ n + s - 1 <= (n + 1) + s - 1
      OBVIOUS
    <2> QED  BY <2>1
  <1>3. Cover(n, k) = a \div s /\ Cover(n + 1, k) = b \div s
    BY <1>1, <1>2 DEF Cover
  <1>4. a \div s \in Nat /\ b \div s \in Nat /\ a \div s <= b \div s
    BY <1>2, DivMonotonic
  <1>5. ASSUME n % s = 0
        PROVE  b \div s = (a \div s) + 1
    <2>1. PICK q \in Nat : n = s * q
      <3>1. n \div s \in Nat /\ n = s * (n \div s) + (n % s)
        OBVIOUS
      <3>2. n \div s \in Nat /\ n = s * (n \div s)
        BY <1>5, <3>1
      <3> QED  BY <3>2
    <2>2. PICK c \in Nat : c = s * q
      OBVIOUS
    <2>3. s * (q + 1) = c + s /\ q + 1 \in Nat
      BY <2>2
    <2>4. s - 1 \in 0 .. s - 1 /\ 0 \in 0 .. s - 1
      OBVIOUS
    <2>5. (s * q + (s - 1)) \div s = q
      BY <2>4, Quotient
    <2>6. (s * (q + 1) + 0) \div s = q + 1
      BY <2>3, <2>4, Quotient
    <2>7. a = s * q + (s - 1) /\ b = s * (q + 1) + 0
      BY <1>2, <2>1, <2>2, <2>3
    <2> QED  BY <2>5, <2>6, <2>7
  <1> QED
    BY <1>1, <1>3, <1>4, <1>5

SumEq(t, n) ==
    t = [k \in 0 .. Levels |-> IF k = 0 THEN 0 ELSE t[k - 1] + ((n + Span[k] - 1) \div Span[k])]

TablesSum(n) == CHOOSE t : SumEq(t, n)

\* Tables is the sum over the levels.
LEMMA TablesAre ==
    ASSUME NEW n \in Nat
    PROVE  /\ Tables(n, 0) = 0
           /\ \A l \in 0 .. Levels : Tables(n, l) \in Nat
           /\ \A l \in 1 .. Levels : Tables(n, l) = Tables(n, l - 1) + Cover(n, l)
  <1>0. Levels \in Nat /\ Levels > 0
    BY Constants
  <1> DEFINE c(k) == IF k + 1 <= Levels THEN Cover(n, k + 1) ELSE 0
             G == [x \in Nat \X Nat |-> x[2] + c(x[1])]
  <1>1. \A k \in Nat : c(k) \in Nat
    <2>1. ASSUME NEW k \in Nat, k + 1 <= Levels PROVE Cover(n, k + 1) \in Nat
      <3>1. k + 1 \in 0 .. Levels
        BY <1>0, <2>1
      <3> QED  BY <3>1, CoverStep
    <2> QED  BY <2>1
  <1> HIDE DEF c
  <1>2. G \in [Nat \X Nat -> Nat] /\ \A k \in Nat, y \in Nat : G[<<k, y>>] = y + c(k)
    BY <1>1
  <1> HIDE DEF G
  <1>3. PICK h : Recurses(h, Nat, 0, G)
    BY <1>2, Recursion
  <1>4. h \in [Nat -> Nat] /\ h[0] = 0 /\ \A k \in Nat : h[k + 1] = h[k] + c(k)
    BY <1>2, <1>3 DEF Recurses
  <1> DEFINE t == [k \in 0 .. Levels |-> h[k]]
  <1>5. ASSUME NEW k \in 0 .. Levels
        PROVE  t[k] = IF k = 0 THEN 0 ELSE t[k - 1] + Cover(n, k)
    <2>1. CASE k = 0
      BY <1>4, <2>1
    <2>2. CASE k # 0
      <3>1. PICK j \in Nat : k = j + 1 /\ k - 1 = j /\ j \in 0 .. Levels /\ j + 1 <= Levels
        <4>1. k - 1 \in Nat /\ k = (k - 1) + 1 /\ k - 1 \in 0 .. Levels
          BY <1>0, <2>2
        <4> QED  BY <4>1
      <3>2. h[j + 1] = h[j] + Cover(n, j + 1)
        BY <1>4, <3>1 DEF c
      <3>3. t[k] = h[j + 1] /\ t[k - 1] = h[j]
        BY <3>1
      <3> HIDE DEF t
      <3> QED  BY <2>2, <3>1, <3>2, <3>3
    <2> QED  BY <2>1, <2>2
  <1>6. t = [k \in 0 .. Levels |-> t[k]]
    OBVIOUS
  <1> HIDE DEF t
  <1>7. SumEq(t, n)
    BY <1>5, <1>6 DEF SumEq, Cover
  <1>8. PICK u : u = TablesSum(n) /\ SumEq(u, n)
    BY <1>7, Zenon DEF TablesSum
  <1>9. \A l : Tables(n, l) = u[l]
    BY <1>8, Zenon DEF Tables, SumEq, TablesSum
  <1>10. \A k \in 0 .. Levels : u[k] = IF k = 0 THEN 0 ELSE u[k - 1] + Cover(n, k)
    BY <1>8 DEF SumEq, Cover
  <1> DEFINE T == {k \in Nat : k <= Levels => u[k] \in Nat}
  <1>11. 0 \in T
    BY <1>0, <1>10
  <1>12. ASSUME NEW k \in Nat, k \in T PROVE k + 1 \in T
    <2>1. ASSUME k + 1 <= Levels PROVE u[k + 1] \in Nat
      <3>1. k + 1 \in 0 .. Levels /\ k + 1 # 0 /\ (k + 1) - 1 = k /\ k <= Levels
        BY <1>0, <2>1
      <3>2. u[k + 1] = u[k] + Cover(n, k + 1)
        BY <1>10, <3>1
      <3>3. Cover(n, k + 1) \in Nat /\ u[k] \in Nat
        BY <1>12, <3>1, CoverStep
      <3> QED  BY <3>2, <3>3
    <2> QED  BY <2>1
  <1> HIDE DEF T
  <1>13. Nat \subseteq T
    BY <1>11, <1>12, SetInduction
  <1>14. \A l \in 0 .. Levels : u[l] \in Nat
    BY <1>0, <1>13 DEF T
  <1>15. u[0] = 0 /\ \A l \in 1 .. Levels : u[l] = u[l - 1] + Cover(n, l)
    BY <1>0, <1>10
  <1> QED
    BY <1>9, <1>14, <1>15

\* More pages need no fewer tables.
LEMMA TablesGrow ==
    ASSUME NEW n \in Nat, NEW l \in 0 .. Levels
    PROVE  Tables(n, l) <= Tables(n + 1, l)
  <1>0. Levels \in Nat /\ n + 1 \in Nat
    BY Constants
  <1> DEFINE T == {k \in Nat : k <= Levels => Tables(n, k) <= Tables(n + 1, k)}
  <1>1. 0 \in T
    BY <1>0, TablesAre
  <1>2. ASSUME NEW k \in Nat, k \in T PROVE k + 1 \in T
    <2>1. ASSUME k + 1 <= Levels PROVE Tables(n, k + 1) <= Tables(n + 1, k + 1)
      <3>1. k \in 0 .. Levels /\ k + 1 \in 0 .. Levels /\ k + 1 \in 1 .. Levels /\ (k + 1) - 1 = k
        BY <1>0, <2>1
      <3>2. Tables(n, k + 1) = Tables(n, k) + Cover(n, k + 1)
            /\ Tables(n + 1, k + 1) = Tables(n + 1, k) + Cover(n + 1, k + 1)
        BY <1>0, <3>1, TablesAre
      <3>3. Tables(n, k) \in Nat /\ Tables(n + 1, k) \in Nat /\ Tables(n, k) <= Tables(n + 1, k)
        BY <1>0, <1>2, <3>1, TablesAre
      <3>4. Cover(n, k + 1) \in Nat /\ Cover(n + 1, k + 1) \in Nat
            /\ Cover(n, k + 1) <= Cover(n + 1, k + 1)
        BY <3>1, CoverStep
      <3> QED  BY <3>2, <3>3, <3>4
    <2> QED  BY <2>1
  <1> HIDE DEF T
  <1>3. Nat \subseteq T
    BY <1>1, <1>2, SetInduction
  <1> QED
    BY <1>0, <1>3 DEF T

\* More pages need no fewer tables.
LEMMA TablesMonotonic ==
    ASSUME NEW n \in Nat, NEW m \in Nat, n <= m, NEW l \in 0 .. Levels
    PROVE  Tables(n, l) <= Tables(m, l)
  <1> DEFINE T == {j \in Nat : Tables(n, l) <= Tables(n + j, l)}
  <1>1. 0 \in T
    <2>1. Tables(n, l) \in Nat /\ n + 0 = n
      BY TablesAre
    <2> QED  BY <2>1
  <1>2. ASSUME NEW j \in Nat, j \in T PROVE j + 1 \in T
    <2>1. n + (j + 1) = (n + j) + 1 /\ n + j \in Nat /\ (n + j) + 1 \in Nat
      OBVIOUS
    <2>2. Tables(n + j, l) <= Tables((n + j) + 1, l)
      BY <2>1, TablesGrow
    <2>3. Tables(n, l) \in Nat /\ Tables(n + j, l) \in Nat /\ Tables((n + j) + 1, l) \in Nat
      BY <2>1, TablesAre
    <2>4. Tables(n, l) <= Tables((n + j) + 1, l)
      BY <1>2, <2>2, <2>3
    <2> QED  BY <2>1, <2>4
  <1> HIDE DEF T
  <1>3. Nat \subseteq T
    BY <1>1, <1>2, SetInduction
  <1>4. PICK j \in Nat : m = n + j
    <2>1. m - n \in Nat /\ m = n + (m - n)
      OBVIOUS
    <2> QED  BY <2>1
  <1> QED
    BY <1>3, <1>4 DEF T

\* The tables of more levels are more tables.
LEMMA TablesUp ==
    ASSUME NEW n \in Nat, NEW k \in 0 .. Levels, NEW l \in 0 .. Levels, k <= l
    PROVE  Tables(n, k) <= Tables(n, l)
  <1>0. Levels \in Nat
    BY Constants
  <1> DEFINE T == {j \in Nat : k + j <= Levels => Tables(n, k) <= Tables(n, k + j)}
  <1>1. 0 \in T
    <2>1. Tables(n, k) \in Nat /\ k + 0 = k
      BY TablesAre
    <2> QED  BY <2>1
  <1>2. ASSUME NEW j \in Nat, j \in T PROVE j + 1 \in T
    <2>1. ASSUME k + (j + 1) <= Levels PROVE Tables(n, k) <= Tables(n, k + (j + 1))
      <3>1. PICK i \in Nat : i = k + j /\ i + 1 = k + (j + 1) /\ i \in 0 .. Levels
                             /\ i + 1 \in 1 .. Levels /\ i + 1 \in 0 .. Levels /\ (i + 1) - 1 = i
                             /\ i <= Levels
        <4>1. k + j \in Nat
          BY <1>0
        <4> QED  BY <1>0, <2>1, <4>1
      <3>2. Tables(n, i + 1) = Tables(n, i) + Cover(n, i + 1)
        BY <3>1, TablesAre
      <3>3. Tables(n, k) \in Nat /\ Tables(n, i) \in Nat /\ Cover(n, i + 1) \in Nat
        BY <3>1, TablesAre, CoverStep
      <3>4. Tables(n, k) <= Tables(n, i)
        BY <1>2, <3>1
      <3> QED  BY <3>1, <3>2, <3>3, <3>4
    <2> QED  BY <2>1
  <1> HIDE DEF T
  <1>3. Nat \subseteq T
    BY <1>1, <1>2, SetInduction
  <1>4. PICK j \in Nat : k + j = l
    <2>1. l - k \in Nat /\ k + (l - k) = l
      BY <1>0
    <2> QED  BY <2>1
  <1> QED
    BY <1>0, <1>3, <1>4 DEF T

\* A benchmark that maps memory needs a root, tables, and tables for its pages.
LEMMA JobPagesAre ==
    ASSUME NEW j \in 1 .. Len(Jobs)
    PROVE  /\ JobPages(j) \in Nat
           /\ Jobs[j].maps # 0 =>
                 JobPages(j) = 1 + Tables(IF Jobs[j].maps = 8 THEN Gib8 ELSE Gib4, Levels - 1)
                                 + (IF Jobs[j].vpages = 0 THEN 0 ELSE 2 * (Levels - 1))
  <1>1. PICK n \in Nat : n = IF Jobs[j].maps = 8 THEN Gib8 ELSE Gib4
    BY Sizes
  <1>2. Levels - 1 \in 0 .. Levels /\ Levels - 1 \in Nat
    BY Constants
  <1>3. Tables(n, Levels - 1) \in Nat
    BY <1>2, TablesAre
  <1>4. Jobs[j].vpages \in {0, 2}
    BY Sizes
  <1>5. Jobs[j].vpages * (Levels - 1) = IF Jobs[j].vpages = 0 THEN 0 ELSE 2 * (Levels - 1)
    BY <1>2, <1>4
  <1>6. JobPages(j) = IF Jobs[j].maps = 0 THEN 0
                      ELSE 1 + Tables(n, Levels - 1) + Jobs[j].vpages * (Levels - 1)
    BY <1>1 DEF JobPages
  <1> QED
    BY <1>1, <1>2, <1>3, <1>5, <1>6

UpToEq(f) == f = [k \in 0 .. Len(Jobs) |-> IF k = 0 THEN 0 ELSE f[k - 1] + JobPages(k)]

\* PagesUpTo is the sum over the benchmarks ...
LEMMA PagesUpToAre ==
    /\ \A k \in 0 .. Len(Jobs) : PagesUpTo[k] \in Nat
    /\ \A k \in 1 .. Len(Jobs) : PagesUpTo[k] = PagesUpTo[k - 1] + JobPages(k)
  <1>0. PICK len \in Nat : len = Len(Jobs)
    BY Constants
  <1> DEFINE c(k) == IF k + 1 <= len THEN JobPages(k + 1) ELSE 0
             G == [x \in Nat \X Nat |-> x[2] + c(x[1])]
  <1>1. \A k \in Nat : c(k) \in Nat
    <2>1. ASSUME NEW k \in Nat, k + 1 <= len PROVE JobPages(k + 1) \in Nat
      <3>1. k + 1 \in 1 .. Len(Jobs)
        BY <1>0, <2>1
      <3> QED  BY <3>1, JobPagesAre
    <2> QED  BY <2>1
  <1> HIDE DEF c
  <1>2. G \in [Nat \X Nat -> Nat] /\ \A k \in Nat, y \in Nat : G[<<k, y>>] = y + c(k)
    BY <1>1
  <1> HIDE DEF G
  <1>3. PICK h : Recurses(h, Nat, 0, G)
    BY <1>2, Recursion
  <1>4. h \in [Nat -> Nat] /\ h[0] = 0 /\ \A k \in Nat : h[k + 1] = h[k] + c(k)
    BY <1>2, <1>3 DEF Recurses
  <1> DEFINE t == [k \in 0 .. len |-> h[k]]
  <1>5. ASSUME NEW k \in 0 .. len
        PROVE  t[k] = IF k = 0 THEN 0 ELSE t[k - 1] + JobPages(k)
    <2>1. CASE k = 0
      BY <1>4, <2>1
    <2>2. CASE k # 0
      <3>1. PICK j \in Nat : k = j + 1 /\ k - 1 = j /\ j \in 0 .. len /\ j + 1 <= len
        <4>1. k - 1 \in Nat /\ k = (k - 1) + 1 /\ k - 1 \in 0 .. len
          BY <1>0, <2>2
        <4> QED  BY <4>1
      <3>2. h[j + 1] = h[j] + JobPages(j + 1)
        BY <1>4, <3>1 DEF c
      <3>3. t[k] = h[j + 1] /\ t[k - 1] = h[j]
        BY <3>1
      <3> HIDE DEF t
      <3> QED  BY <2>2, <3>1, <3>2, <3>3
    <2> QED  BY <2>1, <2>2
  <1>6. t = [k \in 0 .. len |-> t[k]]
    OBVIOUS
  <1> HIDE DEF t
  <1>7. UpToEq(t)
    BY <1>0, <1>5, <1>6 DEF UpToEq
  <1>8. UpToEq(PagesUpTo)
    <2>1. PagesUpTo = CHOOSE f : UpToEq(f)
      BY Zenon DEF PagesUpTo, UpToEq
    <2> QED  BY <1>7, <2>1, Zenon
  <1>9. \A k \in 0 .. len : PagesUpTo[k] = IF k = 0 THEN 0 ELSE PagesUpTo[k - 1] + JobPages(k)
    BY <1>0, <1>8 DEF UpToEq
  <1> DEFINE T == {k \in Nat : k <= len => PagesUpTo[k] \in Nat}
  <1>11. 0 \in T
    BY <1>0, <1>9
  <1>12. ASSUME NEW k \in Nat, k \in T PROVE k + 1 \in T
    <2>1. ASSUME k + 1 <= len PROVE PagesUpTo[k + 1] \in Nat
      <3>1. k + 1 \in 0 .. len /\ k + 1 # 0 /\ (k + 1) - 1 = k /\ k <= len /\ k + 1 \in 1 .. Len(Jobs)
        BY <1>0, <2>1
      <3>2. PagesUpTo[k + 1] = PagesUpTo[k] + JobPages(k + 1)
        BY <1>9, <3>1
      <3>3. JobPages(k + 1) \in Nat /\ PagesUpTo[k] \in Nat
        BY <1>12, <3>1, JobPagesAre
      <3> QED  BY <3>2, <3>3
    <2> QED  BY <2>1
  <1> HIDE DEF T
  <1>13. Nat \subseteq T
    BY <1>11, <1>12, SetInduction
  <1>14. \A k \in 0 .. len : PagesUpTo[k] \in Nat
    BY <1>0, <1>13 DEF T
  <1>15. \A k \in 1 .. len : PagesUpTo[k] = PagesUpTo[k - 1] + JobPages(k)
    BY <1>0, <1>9
  <1> QED
    BY <1>0, <1>14, <1>15

\* ... and grows with them.
LEMMA PagesUpToGrow ==
    ASSUME NEW k \in 0 .. Len(Jobs)
    PROVE  PagesUpTo[k] <= PagesUpTo[Len(Jobs)]
  <1>0. PICK len \in Nat : len = Len(Jobs)
    BY Constants
  <1> DEFINE T == {j \in Nat : k + j <= len => PagesUpTo[k] <= PagesUpTo[k + j]}
  <1>1. 0 \in T
    <2>1. PagesUpTo[k] \in Nat /\ k + 0 = k
      BY <1>0, PagesUpToAre
    <2> QED  BY <2>1
  <1>2. ASSUME NEW j \in Nat, j \in T PROVE j + 1 \in T
    <2>1. ASSUME k + (j + 1) <= len PROVE PagesUpTo[k] <= PagesUpTo[k + (j + 1)]
      <3>1. PICK i \in Nat : i = k + j /\ i + 1 = k + (j + 1) /\ i \in 0 .. Len(Jobs)
                             /\ i + 1 \in 1 .. Len(Jobs) /\ i + 1 \in 0 .. Len(Jobs)
                             /\ (i + 1) - 1 = i /\ i <= len
        <4>1. k + j \in Nat
          BY <1>0
        <4> QED  BY <1>0, <2>1, <4>1
      <3>2. PagesUpTo[i + 1] = PagesUpTo[i] + JobPages(i + 1)
        BY <3>1, PagesUpToAre
      <3>3. PagesUpTo[k] \in Nat /\ PagesUpTo[i] \in Nat /\ JobPages(i + 1) \in Nat
        BY <3>1, PagesUpToAre, JobPagesAre
      <3>4. PagesUpTo[k] <= PagesUpTo[i]
        BY <1>2, <3>1
      <3> QED  BY <3>1, <3>2, <3>3, <3>4
    <2> QED  BY <2>1
  <1> HIDE DEF T
  <1>3. Nat \subseteq T
    BY <1>1, <1>2, SetInduction
  <1>4. PICK j \in Nat : k + j = len
    <2>1. len - k \in Nat /\ k + (len - k) = len
      BY <1>0
    <2> QED  BY <2>1
  <1> QED
    BY <1>0, <1>3, <1>4 DEF T

-----------------------------------------------------------------------------
(* How many pages are taken. *)

\* The tables of the identity map so far: in the middle of a walk those above
\* its level are there for virt too.
Walked ==
    IF pc = "walk"
    THEN Tables(virt, level - 1) + Tables(virt + 1, Levels - 1) - Tables(virt + 1, level - 1)
    ELSE Tables(virt, Levels - 1)

\* The tables for the pages of alloc_vpages().
Added ==
    IF pc = "alloc_vpages" THEN 0
    ELSE IF AddingIo THEN (IF left = 0 THEN 2 * (Levels - 1) ELSE IF left = 1 THEN Levels - 1 ELSE 0)
                            + (IF pc = "walk" THEN Levels - level ELSE 0)
    ELSE IF Jobs[job].vpages = 0 THEN 0 ELSE 2 * (Levels - 1)

Used ==
    IF pc \in {"link", "next"} THEN PagesUpTo[job - 1]
    ELSE IF Building THEN PagesUpTo[job - 1] + 1 + Walked
    ELSE PagesUpTo[job - 1] + 1 + Tables(Size, Levels - 1) + Added

\* The benchmarks that have begun.
Begun == IF pc \in {"link", "next"} THEN job - 1 ELSE job

\* Where the free list begins; at the end of memory when it is empty.
Front == IF freelist = 0 THEN end ELSE freelist

CountInv ==
    /\ pc \notin {"link", "next"} => Jobs[job].maps # 0
    /\ pc = "walk" => level \in 1 .. Levels
    /\ Front <= HeapBase + Used

\* What is in use is at most what the benchmarks need.
LEMMA UsedBounded ==
    ASSUME ControlInv, CallInv, CountInv
    PROVE  /\ Begun \in 0 .. Len(Jobs) /\ PagesUpTo[Begun] \in Nat
           /\ Used \in Nat /\ Used <= PagesUpTo[Begun]
  <1>1. job \in 1 .. Len(Jobs) + 1 /\ Len(Jobs) \in Nat /\ (pc \notin {"link", "next"} => job <= Len(Jobs))
    BY Sizes DEF ControlInv, CallInv
  <1>2. Begun \in 0 .. Len(Jobs) /\ PagesUpTo[Begun] \in Nat
    <2>1. Begun \in 0 .. Len(Jobs)
      BY <1>1 DEF Begun
    <2> QED  BY <2>1, PagesUpToAre
  <1>3. CASE pc \in {"link", "next"}
    BY <1>2, <1>3 DEF Used, Begun
  <1>4. CASE pc \notin {"link", "next"}
    <2>1. job \in 1 .. Len(Jobs) /\ job - 1 \in 0 .. Len(Jobs) /\ Begun = job
      BY <1>1, <1>4 DEF Begun
    <2>2. PICK p \in Nat : p = PagesUpTo[job - 1]
      BY <2>1, PagesUpToAre
    <2>3. Size \in Nat /\ Size <= Gib8
      BY Sizes DEF Size
    <2>4. Levels - 1 \in 0 .. Levels /\ Levels - 1 \in Nat /\ Levels \in Nat
      BY Constants
    <2>5. PICK s \in Nat : s = Tables(Size, Levels - 1)
      BY <2>3, <2>4, TablesAre
    <2>6. PagesUpTo[job] = p + (1 + s + (IF Jobs[job].vpages = 0 THEN 0 ELSE 2 * (Levels - 1)))
      <3>1. JobPages(job) = 1 + s + (IF Jobs[job].vpages = 0 THEN 0 ELSE 2 * (Levels - 1))
        BY <1>4, <2>1, <2>5, JobPagesAre DEF Size, CountInv
      <3> QED  BY <2>1, <2>2, <3>1, PagesUpToAre
    <2>7. CASE Building
      <3>1. virt \in Nat /\ left \in Nat /\ virt + left = Size
        BY <2>7, Sizes DEF CallInv
      <3>2. Walked \in Nat /\ Walked <= s
        <4>1. CASE pc = "walk"
          <5>1. /\ level - 1 \in 0 .. Levels /\ level - 1 <= Levels - 1
                /\ left > 0 /\ virt + 1 \in Nat /\ virt + 1 <= Size
            BY <2>3, <2>4, <3>1, <4>1 DEF CallInv, CountInv
          <5>2. PICK a \in Nat, b \in Nat, c \in Nat :
                   /\ a = Tables(virt, level - 1) /\ b = Tables(virt + 1, Levels - 1)
                   /\ c = Tables(virt + 1, level - 1)
            BY <2>4, <3>1, <5>1, TablesAre
          <5>3. a <= c
            BY <3>1, <5>1, <5>2, TablesGrow
          <5>4. b <= s
            BY <2>3, <2>4, <2>5, <5>1, <5>2, TablesMonotonic
          <5>5. c <= b
            BY <2>4, <5>1, <5>2, TablesUp
          <5>6. Walked = a + b - c
            BY <4>1, <5>2 DEF Walked
          <5> QED  BY <5>2, <5>3, <5>4, <5>5, <5>6
        <4>2. CASE pc # "walk"
          <5>1. Tables(virt, Levels - 1) \in Nat
            BY <2>4, <3>1, TablesAre
          <5>2. Tables(virt, Levels - 1) <= s
            BY <2>3, <2>4, <2>5, <3>1, TablesMonotonic
          <5> QED  BY <4>2, <5>1, <5>2 DEF Walked
        <4> QED  BY <4>1, <4>2
      <3>3. Used = p + 1 + Walked
        BY <1>4, <2>2, <2>7 DEF Used
      <3> QED  BY <1>2, <2>1, <2>4, <2>6, <3>2, <3>3
    <2>8. CASE ~Building
      <3>1. Added \in Nat /\ Added <= IF Jobs[job].vpages = 0 THEN 0 ELSE 2 * (Levels - 1)
        <4>1. CASE pc = "alloc_vpages"
          BY <2>4, <4>1 DEF Added
        <4>2. CASE AddingIo
          <5>1. Jobs[job].vpages = 2 /\ pc # "alloc_vpages" /\ left \in Nat
            BY <4>2, Sizes DEF CallInv, AddingIo
          <5>2. pc = "walk" => left > 0 /\ level \in 1 .. Levels
            BY DEF CallInv, CountInv
          <5> QED  BY <2>4, <4>2, <5>1, <5>2 DEF Added
        <4>3. CASE pc # "alloc_vpages" /\ ~AddingIo
          BY <2>4, <4>3 DEF Added
        <4> QED  BY <4>1, <4>2, <4>3
      <3>2. Used = p + 1 + s + Added
        BY <1>4, <2>2, <2>5, <2>8 DEF Used
      <3> QED  BY <1>2, <2>1, <2>4, <2>6, <3>1, <3>2
    <2> QED  BY <2>7, <2>8
  <1> QED
    BY <1>2, <1>3, <1>4

\* Addresses that share a table of level k, or a page, share all above it.
LEMMA ShareUp ==
    ASSUME NEW v \in Nat, NEW w \in Nat, NEW k \in 0 .. Levels, v \div Span[k] = w \div Span[k]
    PROVE  \A l \in k .. Levels : v \div Span[l] = w \div Span[l]
  <1>0. Levels \in Nat /\ Fan \in Nat \ {0}
    BY Constants
  <1> DEFINE T == {j \in Nat : k + j <= Levels => v \div Span[k + j] = w \div Span[k + j]}
  <1>1. 0 \in T
    <2>1. k + 0 = k
      OBVIOUS
    <2> QED  BY <2>1
  <1>2. ASSUME NEW j \in Nat, j \in T PROVE j + 1 \in T
    <2>1. ASSUME k + (j + 1) <= Levels
          PROVE  v \div Span[k + (j + 1)] = w \div Span[k + (j + 1)]
      <3>1. PICK i \in Nat : i = k + j /\ i + 1 = k + (j + 1) /\ i \in 0 .. Levels
                             /\ i + 1 \in 0 .. Levels /\ i + 1 # 0 /\ (i + 1) - 1 = i /\ i <= Levels
        <4>1. k + j \in Nat
          BY <1>0
        <4> QED  BY <1>0, <2>1, <4>1
      <3>2. PICK s \in Nat \ {0} : s = Span[i]
        BY <3>1, SpanPositive
      <3>3. Span[i + 1] = Fan * s
        BY <3>1, <3>2, SpanStep
      <3>4. v \div s = w \div s
        BY <1>2, <3>1, <3>2
      <3>5. v \div (Fan * s) = (v \div s) \div Fan /\ w \div (Fan * s) = (w \div s) \div Fan
        BY <1>0, <3>2, DivDiv, Zenon
      <3>6. v \div Span[i + 1] = w \div Span[i + 1]
        BY <3>3, <3>4, <3>5, Zenon
      <3> QED  BY <3>1, <3>6
    <2> QED  BY <2>1
  <1> HIDE DEF T
  <1>3. Nat \subseteq T
    BY <1>1, <1>2, SetInduction
  <1>4. ASSUME NEW l \in k .. Levels PROVE v \div Span[l] = w \div Span[l]
    <2>1. PICK j \in Nat : k + j = l /\ l <= Levels
      <3>1. l - k \in Nat /\ k + (l - k) = l
        BY <1>0
      <3> QED  BY <1>0, <3>1
    <2> QED  BY <1>3, <2>1 DEF T
  <1> QED
    BY <1>4

\* They have the same path down to that table.
LEMMA SharePath ==
    ASSUME NEW m \in Memory, NEW r \in Int, NEW v \in Nat, NEW w \in Nat, NEW k \in 1 .. Levels,
           v \div Span[k] = w \div Span[k]
    PROVE  Path(m, r, v)[k] = Path(m, r, w)[k]
  <1>0. Levels \in Nat /\ Levels > 0 /\ k \in 0 .. Levels
    BY Constants
  <1>1. PICK t, u : t = Path(m, r, v) /\ u = Path(m, r, w)
    OBVIOUS
  <1>2. /\ t[Levels] = r /\ \A l \in 1 .. Levels : l # Levels => t[l] = Down(m, v, l + 1, t[l + 1])
        /\ u[Levels] = r /\ \A l \in 1 .. Levels : l # Levels => u[l] = Down(m, w, l + 1, u[l + 1])
    BY <1>1, PathLevels
  <1>3. \A l \in k .. Levels : v \div Span[l] = w \div Span[l]
    BY <1>0, ShareUp
  <1> DEFINE T == {n \in Nat : k <= Levels - n => t[Levels - n] = u[Levels - n]}
  <1>4. 0 \in T
    BY <1>0, <1>2
  <1>5. ASSUME NEW n \in Nat, n \in T PROVE n + 1 \in T
    <2>1. ASSUME k <= Levels - (n + 1) PROVE t[Levels - (n + 1)] = u[Levels - (n + 1)]
      <3>1. PICK l \in 1 .. Levels : l = Levels - (n + 1) /\ l # Levels /\ l + 1 = Levels - n
                                     /\ k <= Levels - n /\ l \in k .. Levels /\ (l + 1) - 1 = l
        BY <2>1, <1>0
      <3>2. t[l + 1] = u[l + 1]
        BY <1>5, <3>1
      <3>3. PGDIR_OFFSET(v, l + 1) = PGDIR_OFFSET(w, l + 1)
        BY <1>3, <3>1 DEF PGDIR_OFFSET
      <3>4. Down(m, v, l + 1, t[l + 1]) = Down(m, w, l + 1, t[l + 1])
        BY <3>3 DEF Down
      <3>5. t[l] = u[l]
        BY <1>2, <3>1, <3>2, <3>4
      <3> QED  BY <3>1, <3>5
    <2> QED  BY <2>1
  <1> HIDE DEF T
  <1>6. Nat \subseteq T
    BY <1>4, <1>5, SetInduction
  <1>7. PICK n \in Nat : Levels - n = k
    <2>1. Levels - k \in Nat /\ Levels - (Levels - k) = k
      BY <1>0
    <2> QED  BY <2>1
  <1>8. t[k] = u[k]
    BY <1>0, <1>6, <1>7 DEF T
  <1> QED
    BY <1>1, <1>8

\* A path that ends stays at its end.
LEMMA PathEnds ==
    ASSUME NEW m \in Memory, NEW r \in Int, NEW v \in Int, NEW k \in 1 .. Levels,
           Path(m, r, v)[k] = None
    PROVE  Path(m, r, v)[1] = None
  <1>0. Levels \in Nat /\ Levels > 0
    BY Constants
  <1>1. PICK t : t = Path(m, r, v)
    OBVIOUS
  <1>2. \A l \in 1 .. Levels : l # Levels => t[l] = Down(m, v, l + 1, t[l + 1])
    BY <1>1, PathLevels
  <1> DEFINE T == {n \in Nat : 1 <= k - n => t[k - n] = None}
  <1>3. 0 \in T
    BY <1>0, <1>1
  <1>4. ASSUME NEW n \in Nat, n \in T PROVE n + 1 \in T
    <2>1. ASSUME 1 <= k - (n + 1) PROVE t[k - (n + 1)] = None
      <3>1. PICK l \in 1 .. Levels : l = k - (n + 1) /\ l # Levels /\ l + 1 = k - n /\ 1 <= k - n
        BY <2>1, <1>0
      <3>2. t[l + 1] = None
        BY <1>4, <3>1
      <3>3. t[l] = None
        BY <1>2, <3>1, <3>2, DownNone
      <3> QED  BY <3>1, <3>3
    <2> QED  BY <2>1
  <1> HIDE DEF T
  <1>5. Nat \subseteq T
    BY <1>3, <1>4, SetInduction
  <1>6. PICK n \in Nat : k - n = 1
    <2>1. k - 1 \in Nat /\ k - (k - 1) = 1
      BY <1>0
    <2> QED  BY <2>1
  <1> QED
    BY <1>1, <1>5, <1>6 DEF T

\* Where the walk of install_pages() finds no table, virt is the first page
\* that the table maps: the page before it has got all of its tables.
LEMMA FirstOfTable ==
    ASSUME ControlInv, HeapInv, CallInv, PagesInv, MapInv, Building, pc = "walk", level > 1,
           level \in 1 .. Levels, pt \in Page, ~mem[pt][PGDIR_OFFSET(virt, level)].present
    PROVE  virt % Span[level - 1] = 0
  <1>0. Levels \in Nat /\ level - 1 \in 1 .. Levels /\ level - 1 \in 0 .. Levels
        /\ level - 1 # Levels /\ level - 1 + 1 = level
    BY Constants
  <1>1. PICK s \in Nat \ {0} : s = Span[level - 1]
    BY <1>0, SpanPositive
  <1>2. virt \in Nat /\ virt \in VPage
    <2>1. virt \in Nat /\ left \in Nat /\ left > 0 /\ virt + left = Size /\ Size <= Gib8
      BY Sizes DEF CallInv, Size
    <2> QED  BY <2>1, Sizes DEF Size
  <1>3. mem \in Memory /\ root \in Int
    BY Constants DEF HeapInv, Memory, PagesInv, Page
  <1> SUFFICES ASSUME virt % s # 0
               PROVE  FALSE
    BY <1>1
  <1>4. PICK q \in Nat, r \in 1 .. s - 1 : virt = s * q + r
    <2>1. virt \div s \in Nat /\ virt % s \in 0 .. s - 1 /\ virt = s * (virt \div s) + (virt % s)
      BY <1>2
    <2>2. virt % s \in 1 .. s - 1
      BY <2>1
    <2> QED  BY <2>1, <2>2
  <1>5. PICK v \in Nat : v = virt - 1 /\ v = s * q + (r - 1)
    <2>1. PICK c \in Nat : c = s * q
      OBVIOUS
    <2>2. c + (r - 1) \in Nat /\ c + (r - 1) = virt - 1
      BY <1>2, <1>4, <2>1
    <2> QED  BY <2>1, <2>2
  <1>6. v \div s = virt \div s
    <2>1. r \in 0 .. s - 1 /\ r - 1 \in 0 .. s - 1
      OBVIOUS
    <2>2. (s * q + r) \div s = q
      BY <2>1, Quotient
    <2>3. (s * q + (r - 1)) \div s = q
      BY <2>1, Quotient
    <2> QED  BY <1>4, <1>5, <2>2, <2>3
  <1>7. Path(mem, root, v)[level - 1] = Path(mem, root, virt)[level - 1]
    BY <1>0, <1>1, <1>2, <1>3, <1>6, SharePath
  <1>8. Path(mem, root, virt)[level - 1] = None
    <2>1. virt \in Int
      BY <1>2
    <2>2. Path(mem, root, virt)[level - 1] = Down(mem, virt, level, Path(mem, root, virt)[level])
      BY <1>0, <1>3, <2>1, PathLevels
    <2>3. Path(mem, root, virt)[level] = pt
      BY DEF MapInv
    <2> QED  BY <2>2, <2>3 DEF Down
  <1>9. Path(mem, root, v)[1] = None
    BY <1>0, <1>3, <1>7, <1>8, PathEnds
  <1>10. Down(mem, v, 1, Path(mem, root, v)[1]) = None
    BY <1>9, DownNone
  <1>11. v \in VPage /\ v < virt
    BY <1>2, <1>5, Sizes
  <1>12. Down(mem, v, 1, Path(mem, root, v)[1]) = v
    <2>1. Maps(mem, root, virt, High)
      BY DEF MapInv, Low
    <2> QED  BY <1>11, <2>1 DEF Maps, Mapped
  <1> QED
    BY <1>10, <1>12 DEF None

\* Taking a page moves the front of the list by one, if there is a page.
LEMMA FrontStep ==
    ASSUME freelist # 0 => HeapInv, pc # "link", end \in Nat
    PROVE  LET f == heap_alloc_page(mem, freelist).freelist
           IN  /\ Front \in Nat /\ f \in Nat
               /\ freelist = 0 => f = 0
               /\ (IF f = 0 THEN end ELSE f) <= Front + 1
  <1>1. CASE freelist = 0
    BY <1>1 DEF heap_alloc_page, Front
  <1>2. CASE freelist # 0
    <2>1. /\ HeapBase \in Nat /\ HeapBase > 0 /\ freelist \in HeapBase .. end - 1
          /\ \A q \in freelist .. end - 1 : mem[q][0].addr = IF q + 1 = end THEN 0 ELSE q + 1
      BY <1>2, Constants DEF HeapInv, Chain
    <2>2. freelist \in Nat /\ freelist \in freelist .. end - 1
      BY <2>1
    <2>3. mem[freelist][0].addr = IF freelist + 1 = end THEN 0 ELSE freelist + 1
      BY <2>1, <2>2
    <2>4. heap_alloc_page(mem, freelist).freelist = mem[freelist][0].addr
      BY <1>2 DEF heap_alloc_page
    <2>5. Front = freelist
      BY <1>2 DEF Front
    <2> QED  BY <1>2, <2>2, <2>3, <2>4, <2>5
  <1> QED
    BY <1>1, <1>2

\* Steps that take no page, outside the walk.
LEMMA CountRegisters ==
    ASSUME ControlInv, CallInv, CountInv,
           \/ LinkPage \/ LinkLast \/ SkipJob \/ InstallPages \/ InstallIo \/ WriteCr3
           \/ AllocVpages \/ IoInstalled \/ SwitchToStart \/ UNCHANGED vars, freelist # 0 => HeapInv
    PROVE  CountInv'
  <1>0. /\ Levels \in Nat /\ Levels > 0 /\ Levels - 1 \in 0 .. Levels /\ HeapBase \in Nat
        /\ Len(Jobs) \in Nat
    BY Constants
  <1>1. /\ Used \in Nat /\ Front <= HeapBase + Used
        /\ pc \notin {"link", "next"} => Jobs[job].maps # 0
    BY UsedBounded DEF CountInv
  <1>2. Front' = Front
    <2>1. freelist' = freelist /\ end' = end
      BY DEF LinkPage, LinkLast, SkipJob, InstallPages, InstallIo, StartWalk, WriteCr3, AllocVpages,
             IoInstalled, SwitchToStart, vars, heapVars
    <2> QED  BY <2>1 DEF Front
  <1>3. Front \in Nat
    <2>1. end \in Nat
      <3>1. end \in HeapEnds
        BY DEF CallInv
      <3> QED  BY <1>0, <3>1, Sizes
    <2>2. freelist # 0 => freelist \in Nat
      BY <1>0, <2>1 DEF HeapInv
    <2> QED  BY <2>1, <2>2 DEF Front
  <1>4. ASSUME pc' \notin {"link", "next"} => Jobs[job'].maps # 0,
               pc' = "walk" => level' \in 1 .. Levels, Used' \in Nat, Used <= Used'
        PROVE  CountInv'
    <2>1. PICK a \in Nat, b \in Nat, c \in Nat : a = Front /\ b = Used /\ c = Used'
      BY <1>1, <1>3, <1>4
    <2>2. a <= HeapBase + b /\ b <= c
      BY <1>1, <1>4, <2>1
    <2>3. a <= HeapBase + c
      BY <1>0, <2>2
    <2>4. Front <= HeapBase + Used'
      BY <2>1, <2>3
    <2> QED  BY <1>2, <1>4, <2>4 DEF CountInv
  <1>5. CASE LinkPage \/ LinkLast
    <2>1. pc = "link" /\ pc' \in {"link", "next"} /\ job' = job
      BY <1>5 DEF LinkPage, LinkLast
    <2>2. Used' = Used
      BY <2>1 DEF Used
    <2> QED  BY <1>1, <1>4, <2>1, <2>2
  <1>6. CASE SkipJob
    <2>1. pc = "next" /\ pc' = "next" /\ job' = job + 1 /\ job \in 1 .. Len(Jobs)
      BY <1>0, <1>6 DEF SkipJob, CallInv
    <2>2. PICK a \in Nat, b \in Nat : a = PagesUpTo[job - 1] /\ b = JobPages(job)
      <3>1. job - 1 \in 0 .. Len(Jobs)
        BY <2>1
      <3> QED  BY <2>1, <3>1, PagesUpToAre, JobPagesAre
    <2>3. Used = a /\ Used' = a + b
      <3>1. PagesUpTo[job] = a + b /\ job + 1 - 1 = job
        BY <2>1, <2>2, PagesUpToAre
      <3> QED  BY <2>1, <2>2, <3>1 DEF Used
    <2> QED  BY <1>4, <2>1, <2>2, <2>3
  <1>7. CASE InstallPages
    <2>1. /\ pc = "install_pages" /\ pc' = "walk" /\ ret' = "install_pages" /\ level' = Levels
          /\ job' = job /\ virt' = virt
      BY <1>7 DEF InstallPages, StartWalk, callVars
    <2>2. virt \in Nat /\ virt + 1 \in Nat
      BY Sizes DEF CallInv
    <2>3. PICK a \in Nat, b \in Nat : a = Tables(virt, Levels - 1) /\ b = Tables(virt + 1, Levels - 1)
      BY <1>0, <2>2, TablesAre
    <2>4. Walked = a /\ Walked' = a + b - b
      BY <2>1, <2>3 DEF Walked
    <2>5. Used' = Used
      BY <2>1, <2>3, <2>4 DEF Used, Building
    <2> QED  BY <1>0, <1>1, <1>4, <2>1, <2>5
  <1>8. CASE InstallIo
    <2>1. /\ pc = "install_io" /\ pc' = "walk" /\ ret' = "install_io" /\ level' = Levels
          /\ job' = job /\ left' = left
      BY <1>8 DEF InstallIo, StartWalk, callVars
    <2>2. Added' = Added
      BY <1>0, <2>1 DEF Added, AddingIo
    <2>3. Used' = Used
      BY <2>1, <2>2 DEF Used, Building, Size
    <2> QED  BY <1>0, <1>1, <1>4, <2>1, <2>3
  <1>9. CASE WriteCr3
    <2>1. /\ pc = "install_pages" /\ left = 0 /\ job' = job
          /\ pc' = IF Jobs[job].vpages > 0 THEN "alloc_vpages" ELSE "cleanup"
      BY <1>9 DEF WriteCr3
    <2>2. virt = Size /\ virt \in Nat /\ Jobs[job].vpages \in {0, 2}
      <3>1. virt + left = Size /\ virt \in Nat
        BY <2>1, Sizes DEF CallInv, Building
      <3>2. job \in 1 .. Len(Jobs)
        BY <1>0, <2>1 DEF ControlInv, CallInv
      <3> QED  BY <2>1, <3>1, <3>2, Sizes
    <2>3. Added' = 0
      BY <2>1, <2>2 DEF Added, AddingIo
    <2>4. PICK a \in Nat : a = Tables(Size, Levels - 1)
      BY <1>0, <2>2, TablesAre
    <2>5. Used = PagesUpTo[job - 1] + 1 + a
      BY <2>1, <2>2, <2>4 DEF Used, Building, Walked
    <2>6. Used' = PagesUpTo[job - 1] + 1 + a + 0
      BY <2>1, <2>2, <2>3, <2>4 DEF Used, Building, Size
    <2>7. PagesUpTo[job - 1] \in Nat
      <3>1. job - 1 \in 0 .. Len(Jobs)
        BY <1>0, <2>1 DEF ControlInv, CallInv
      <3> QED  BY <3>1, PagesUpToAre
    <2>8. Used' = Used
      BY <2>4, <2>5, <2>6, <2>7
    <2> QED  BY <1>1, <1>4, <2>1, <2>2, <2>8
  <1>10. CASE AllocVpages \/ IoInstalled
    <2>1. /\ pc' # "walk" /\ pc' \notin {"link", "next"} /\ job' = job
          /\ pc \notin {"link", "next"} /\ ~Building /\ ~Building'
      BY <1>10 DEF AllocVpages, IoInstalled, Building
    <2>2. Added' = Added
      <3>1. CASE AllocVpages
        <4>1. /\ pc = "alloc_vpages" /\ pc' = "install_io" /\ left' = Jobs[job].vpages
              /\ Jobs[job].vpages = 2
          BY <3>1 DEF AllocVpages, CallInv
        <4> QED  BY <4>1 DEF Added, AddingIo
      <3>2. CASE IoInstalled
        <4>1. pc = "install_io" /\ pc' = "cleanup" /\ left = 0 /\ Jobs[job].vpages = 2
          BY <3>2 DEF IoInstalled, CallInv, AddingIo
        <4> QED  BY <1>0, <2>1, <4>1 DEF Added, AddingIo
      <3> QED  BY <1>10, <3>1, <3>2
    <2>3. Used' = Used
      BY <2>1, <2>2 DEF Used, Size
    <2> QED  BY <1>1, <1>4, <2>1, <2>3
  <1>11. CASE SwitchToStart
    <2>1. pc = "cleanup" /\ pc' = "next" /\ job' = job + 1 /\ job \in 1 .. Len(Jobs)
      BY <1>0, <1>11 DEF SwitchToStart, ControlInv, CallInv
    <2>2. Used \in Nat /\ Used <= PagesUpTo[job] /\ PagesUpTo[job] \in Nat
      BY <2>1, UsedBounded DEF Begun
    <2>3. Used' = PagesUpTo[job]
      <3>1. job + 1 - 1 = job
        BY <2>1
      <3> QED  BY <2>1, <3>1 DEF Used
    <2> QED  BY <1>4, <2>1, <2>2, <2>3
  <1>12. CASE UNCHANGED vars
    <2>1. UNCHANGED <<pc, ret, job, virt, left, level>>
      BY <1>12 DEF vars, callVars, walkVars
    <2>2. Used' = Used
      BY <2>1 DEF Used, Building, Walked, Added, AddingIo, Size
    <2> QED  BY <1>1, <1>4, <2>1, <2>2 DEF CountInv
  <1> QED
    BY <1>5, <1>6, <1>7, <1>8, <1>9, <1>10, <1>11, <1>12

\* setup_mmu() takes the page of its root.
LEMMA CountSetup ==
    ASSUME ControlInv, CallInv, CountInv, SetupMmu, freelist # 0 => HeapInv
    PROVE  CountInv'
  <1>0. Levels \in Nat /\ Levels - 1 \in 0 .. Levels /\ HeapBase \in Nat /\ Len(Jobs) \in Nat
    BY Constants
  <1>1. /\ pc = "next" /\ pc' = "install_pages" /\ job' = job /\ virt' = 0 /\ end' = end
        /\ Jobs[job].maps > 0 /\ job \in 1 .. Len(Jobs)
        /\ freelist' = heap_alloc_page(mem, freelist).freelist
    BY <1>0 DEF SetupMmu, CallInv
  <1>2. end \in Nat
    BY <1>0, Sizes DEF CallInv
  <1>3. Front \in Nat /\ Front' <= Front + 1
    BY <1>1, <1>2, FrontStep DEF Front
  <1>4. Front' \in Nat
    <2>1. freelist' \in Nat
      BY <1>1, <1>2, FrontStep
    <2> QED  BY <1>1, <1>2, <2>1 DEF Front
  <1>5. PICK a \in Nat, b \in Nat : a = PagesUpTo[job - 1] /\ b = Tables(0, Levels - 1)
    <2>1. job - 1 \in 0 .. Len(Jobs)
      BY <1>1
    <2> QED  BY <1>0, <2>1, PagesUpToAre, TablesAre
  <1>6. Used = a /\ Used' = a + 1 + b
    BY <1>1, <1>5 DEF Used, Building, Walked
  <1>7. Front <= HeapBase + a
    BY <1>6 DEF CountInv
  <1>8. Front' <= HeapBase + Used'
    <2>1. PICK x \in Nat, y \in Nat : x = Front /\ y = Front'
      BY <1>3, <1>4
    <2>2. y <= x + 1 /\ x <= HeapBase + a
      BY <1>3, <1>7, <2>1
    <2>3. y <= HeapBase + (a + 1 + b)
      BY <1>0, <2>2
    <2> QED  BY <1>6, <2>1, <2>3
  <1> QED
    BY <1>1, <1>8 DEF CountInv

\* A level of the walk takes a page only where the count allows one more.
LEMMA CountWalk ==
    ASSUME ControlInv, CallInv, CountInv, WalkLevel, freelist # 0 => HeapInv /\ PagesInv /\ MapInv
    PROVE  CountInv'
  <1>0. Levels \in Nat /\ Levels - 1 \in 0 .. Levels /\ HeapBase \in Nat /\ Len(Jobs) \in Nat
    BY Constants
  <1>1. /\ pc = "walk" /\ pc' = "walk" /\ ret' = ret /\ job' = job /\ virt' = virt /\ end' = end
        /\ left' = left /\ level > 1 /\ level' = level - 1 /\ level \in 1 .. Levels
    BY DEF WalkLevel, callVars, CountInv
  <1>2. /\ level - 1 \in 1 .. Levels /\ level - 1 \in 0 .. Levels /\ level - 2 \in 0 .. Levels
        /\ (level - 1) - 1 = level - 2
    BY <1>0, <1>1
  <1>3. end \in Nat /\ Jobs[job].maps # 0
    <2>1. end \in Nat
      BY <1>0, Sizes DEF CallInv
    <2> QED  BY <1>1, <2>1 DEF CountInv
  <1>4. PICK p \in Nat : p = PagesUpTo[job - 1]
    <2>1. job - 1 \in 0 .. Len(Jobs)
      BY <1>0, <1>1 DEF ControlInv, CallInv
    <2> QED  BY <2>1, PagesUpToAre
  <1>5. PICK x \in Nat, f \in Nat : x = Front /\ f = heap_alloc_page(mem, freelist).freelist
    BY <1>1, <1>3, FrontStep
  <1>6. Front' \in Nat /\ (Front' = x \/ (Front' = x + 1 /\ freelist # 0
                                          /\ ~mem[pt][PGDIR_OFFSET(virt, level)].present))
    <2>1. CASE mem[pt][PGDIR_OFFSET(virt, level)].present
      <3>1. freelist' = freelist
        BY <2>1 DEF WalkLevel, heapVars
      <3> QED  BY <1>1, <1>5, <3>1 DEF Front
    <2>2. CASE ~mem[pt][PGDIR_OFFSET(virt, level)].present
      <3>1. freelist' = f
        BY <1>5, <2>2 DEF WalkLevel
      <3>2. Front' = IF f = 0 THEN end ELSE f
        BY <1>1, <3>1 DEF Front
      <3>3. CASE freelist = 0
        <4>1. f = 0
          BY <1>1, <1>3, <1>5, <3>3, FrontStep
        <4> QED  BY <1>3, <1>5, <3>2, <3>3, <4>1 DEF Front
      <3>4. CASE freelist # 0
        <4>1. freelist \in HeapBase .. end - 1 /\ freelist \in freelist .. end - 1
              /\ \A q \in freelist .. end - 1 : mem[q][0].addr = IF q + 1 = end THEN 0 ELSE q + 1
          BY <1>0, <1>1, <1>3, <3>4 DEF HeapInv, Chain
        <4>2. f = mem[freelist][0].addr /\ x = freelist
          BY <1>5, <3>4 DEF heap_alloc_page, Front
        <4>3. f = IF x + 1 = end THEN 0 ELSE x + 1
          BY <4>1, <4>2
        <4> QED  BY <1>3, <2>2, <3>2, <3>4, <4>3
      <3> QED  BY <3>3, <3>4
    <2> QED  BY <2>1, <2>2
  <1>7. ASSUME NEW u \in Nat, NEW w \in Nat, u = Used, w = Used', u <= w,
               freelist # 0 /\ ~mem[pt][PGDIR_OFFSET(virt, level)].present => u + 1 <= w
        PROVE  CountInv'
    <2>1. x <= HeapBase + u
      BY <1>5, <1>7 DEF CountInv
    <2>2. PICK y \in Nat : y = Front'
      BY <1>6
    <2>3. y = x \/ (y = x + 1 /\ u + 1 <= w)
      BY <1>6, <1>7, <2>2
    <2>4. y <= HeapBase + w
      <3>1. u <= w
        BY <1>7
      <3> QED  BY <1>0, <2>1, <2>3, <3>1
    <2>5. Front' <= HeapBase + Used'
      BY <1>7, <2>2, <2>4
    <2> QED  BY <1>1, <1>2, <1>3, <2>5 DEF CountInv
  <1>8. CASE Building
    <2>1. virt \in Nat /\ virt + 1 \in Nat
      <3>1. virt \in 0 .. VPages
        BY DEF CallInv
      <3> QED  BY <3>1, Sizes
    <2>2. PICK a \in Nat, b \in Nat, c \in Nat, d \in Nat, e \in Nat :
             /\ a = Tables(virt, level - 1) /\ b = Tables(virt + 1, Levels - 1)
             /\ c = Tables(virt + 1, level - 1)
             /\ d = Tables(virt, level - 2) /\ e = Tables(virt + 1, level - 2)
      BY <1>0, <1>2, <2>1, TablesAre
    <2>3. PICK g \in Nat, h \in Nat : /\ g = Cover(virt, level - 1) /\ h = Cover(virt + 1, level - 1)
                                      /\ g <= h /\ (virt % Span[level - 1] = 0 => h = g + 1)
      <3>1. PICK k \in 0 .. Levels : k = level - 1
        BY <1>2
      <3>2. PICK v \in Nat : v = virt
        BY <2>1
      <3>3. /\ Cover(v, k) \in Nat /\ Cover(v + 1, k) \in Nat /\ Cover(v, k) <= Cover(v + 1, k)
            /\ v % Span[k] = 0 => Cover(v + 1, k) = Cover(v, k) + 1
        BY CoverStep
      <3> QED  BY <3>1, <3>2, <3>3
    <2>4. a = d + g /\ c = e + h
      BY <1>2, <2>1, <2>2, <2>3, TablesAre
    <2>5. c <= b
      <3>1. level - 1 <= Levels - 1
        BY <1>0, <1>1
      <3> QED  BY <1>0, <1>2, <2>1, <2>2, <3>1, TablesUp
    <2>6. Used = p + 1 + (a + b - c)
      BY <1>1, <1>4, <1>8, <2>2 DEF Used, Building, Walked
    <2>7. Used' = p + 1 + (d + b - e)
      <3>1. Walked' = d + b - e
        BY <1>1, <1>2, <2>2 DEF Walked
      <3>2. Building'
        BY <1>1, <1>8 DEF Building
      <3> QED  BY <1>1, <1>4, <3>1, <3>2 DEF Used
    <2>8. ASSUME freelist # 0, ~mem[pt][PGDIR_OFFSET(virt, level)].present
          PROVE  h = g + 1
      <3>1. pt \in Page
        BY <2>8 DEF PagesInv
      <3>2. virt % Span[level - 1] = 0
        BY <1>1, <1>8, <2>8, <3>1, FirstOfTable
      <3> QED  BY <2>3, <3>2
    <2>9. PICK u \in Nat, w \in Nat : u = Used /\ w = Used' /\ u + h = w + g
      <3>1. a + b - c \in Nat /\ d + b - e \in Nat /\ (a + b - c) + h = (d + b - e) + g
        BY <2>2, <2>3, <2>4, <2>5
      <3> QED  BY <1>4, <2>6, <2>7, <3>1
    <2> QED  BY <1>7, <2>3, <2>8, <2>9
  <1>9. CASE ~Building
    <2>1. AddingIo /\ ~Building' /\ AddingIo' /\ left \in Nat
      BY <1>1, <1>9, Sizes DEF AddingIo, Building, ControlInv, CallInv
    <2>2. PICK s \in Nat : s = Tables(Size, Levels - 1)
      <3>1. Size \in Nat
        BY Sizes DEF Size
      <3> QED  BY <1>0, <3>1, TablesAre
    <2>3. PICK k \in Nat : k = IF left = 0 THEN 2 * (Levels - 1) ELSE IF left = 1 THEN Levels - 1 ELSE 0
      BY <1>0
    <2>4. Added = k + (Levels - level) /\ Added' = k + (Levels - (level - 1))
      BY <1>1, <2>1, <2>3 DEF Added
    <2>5. Used = p + 1 + s + (k + (Levels - level))
      BY <1>1, <1>4, <1>9, <2>2, <2>4 DEF Used
    <2>6. Used' = p + 1 + s + (k + (Levels - (level - 1)))
      <3>1. Size' = Size
        BY <1>1 DEF Size
      <3> QED  BY <1>1, <1>4, <2>1, <2>2, <2>4, <3>1 DEF Used
    <2>7. PICK u \in Nat, w \in Nat : u = Used /\ w = Used' /\ w = u + 1
      <3>1. Levels - level \in Nat /\ Levels - (level - 1) = (Levels - level) + 1
        BY <1>0, <1>1
      <3> QED  BY <1>4, <2>2, <2>3, <2>5, <2>6, <3>1
    <2> QED  BY <1>7, <2>7
  <1> QED
    BY <1>8, <1>9

\* The entry of a page: the tables of the next address are now those of virt.
LEMMA CountWrite ==
    ASSUME ControlInv, CallInv, CountInv, WritePte, freelist # 0 => HeapInv
    PROVE  CountInv'
  <1>0. /\ Levels \in Nat /\ Levels - 1 \in 0 .. Levels /\ Levels - 1 \in Nat /\ HeapBase \in Nat
        /\ Len(Jobs) \in Nat /\ 0 \in 0 .. Levels
    BY Constants
  <1>1. /\ pc = "walk" /\ level = 1 /\ pc' = ret /\ ret \in {"install_pages", "install_io"}
        /\ job' = job /\ virt' = virt + 1 /\ left' = left - 1 /\ freelist' = freelist /\ end' = end
    BY DEF WritePte, ControlInv
  <1>2. Front' = Front /\ Jobs[job].maps # 0
    BY <1>1 DEF Front, CountInv
  <1>3. virt \in Nat /\ virt + 1 \in Nat /\ left \in Nat /\ left > 0
    BY <1>1, Sizes DEF CallInv
  <1>4. Used' = Used
    <2>1. CASE ret = "install_pages"
      <3>1. PICK b \in Nat : b = Tables(virt + 1, Levels - 1)
        BY <1>0, <1>3, TablesAre
      <3>2. Tables(virt, 0) = 0 /\ Tables(virt + 1, 0) = 0
        BY <1>3, TablesAre
      <3>3. Walked = 0 + b - 0 /\ Walked' = b
        BY <1>1, <2>1, <3>1, <3>2 DEF Walked
      <3>4. Walked' = Walked
        BY <3>1, <3>3
      <3> QED  BY <1>1, <2>1, <3>4 DEF Used, Building
    <2>2. CASE ret = "install_io"
      <3>1. AddingIo /\ ~Building
        BY <1>1, <2>2 DEF AddingIo, Building
      <3>2. left \in {1, 2}
        <4>1. vfree_top <= virt /\ virt + left = vfree_top + 2 /\ vfree_top \in Int
          BY <3>1 DEF CallInv, ControlInv
        <4> QED  BY <1>3, <4>1
      <3>3. AddingIo' /\ ~Building'
        BY <1>1, <2>2 DEF AddingIo, Building
      <3>4. Added = (IF left = 1 THEN Levels - 1 ELSE 0) + (Levels - 1)
        BY <1>0, <1>1, <3>1, <3>2 DEF Added
      <3>5. Added' = (IF left - 1 = 0 THEN 2 * (Levels - 1) ELSE Levels - 1) + 0
        BY <1>0, <1>1, <2>2, <3>2, <3>3 DEF Added
      <3>6. Added' = Added
        BY <1>0, <3>2, <3>4, <3>5
      <3> QED  BY <1>1, <2>2, <3>1, <3>3, <3>6 DEF Used, Size
    <2> QED  BY <1>1, <2>1, <2>2
  <1> QED
    BY <1>1, <1>2, <1>4 DEF CountInv

-----------------------------------------------------------------------------
(* The theorems about the number of pages. *)

\* Initially nothing is taken.
LEMMA CountStarts == ASSUME Init PROVE CountInv
  <1>1. ControlInv /\ CallInv /\ pc = "link" /\ freelist = HeapBase /\ job = 1
    BY InitInv, InitCall DEF Init, IInv
  <1>2. HeapBase \in Nat /\ HeapBase > 0 /\ Len(Jobs) \in Nat
    BY Constants
  <1>3. Used \in Nat
    <2>1. job - 1 \in 0 .. Len(Jobs)
      BY <1>1, <1>2
    <2> QED  BY <1>1, <2>1, PagesUpToAre DEF Used
  <1>4. Front = HeapBase
    BY <1>1, <1>2 DEF Front
  <1> QED
    BY <1>1, <1>2, <1>3, <1>4 DEF CountInv

\* Every step keeps the count.
LEMMA CountKept == ASSUME TInv, CountInv, [Next]_vars PROVE CountInv'
  <1>1. ControlInv /\ CallInv /\ (freelist # 0 => HeapInv /\ PagesInv /\ MapInv)
    BY DEF TInv, IInv
  <1>2. CASE \/ LinkPage \/ LinkLast \/ SkipJob \/ InstallPages \/ InstallIo \/ WriteCr3
             \/ AllocVpages \/ IoInstalled \/ SwitchToStart \/ UNCHANGED vars
    BY <1>1, <1>2, CountRegisters
  <1>3. CASE SetupMmu
    BY <1>1, <1>3, CountSetup
  <1>4. CASE WalkLevel
    BY <1>1, <1>4, CountWalk
  <1>5. CASE WritePte
    BY <1>1, <1>5, CountWrite
  <1> QED
    BY <1>2, <1>3, <1>4, <1>5 DEF Next, AllDone

\* The pages that are gone are those in front of the list.
LEMMA TakenBounded == ASSUME TInv, CountInv PROVE TakesNoMore
  <1> SUFFICES ASSUME pc # "link"
               PROVE  Cardinality((HeapBase .. end - 1) \ Free) <= PagesUpTo[Begun]
    BY DEF TakesNoMore, Begun
  <1>1. ControlInv /\ CallInv /\ (freelist # 0 => HeapInv)
    BY DEF TInv, IInv
  <1>2. PICK b \in Nat, e \in Nat : b = HeapBase /\ e = end /\ b < e
    <2>1. end \in HeapEnds
      BY <1>1 DEF CallInv
    <2>2. end \in HeapBase + 1 .. Gib4
      BY <2>1, Constants
    <2>3. HeapBase \in Nat /\ end \in Nat /\ HeapBase < end
      BY <2>2, Constants
    <2> QED  BY <2>3
  <1>3. PICK u \in Nat, n \in Nat : u = Used /\ n = PagesUpTo[Begun] /\ u <= n
    BY <1>1, UsedBounded
  <1>4. PICK x \in Nat : x = Front /\ b <= x /\ x <= e /\ (HeapBase .. end - 1) \ Free = b .. x - 1
    <2>1. CASE freelist = 0
      <3>1. Free = {}
        BY <2>1, EmptyList
      <3> QED  BY <1>2, <2>1, <3>1 DEF Front
    <2>2. CASE freelist # 0
      <3>1. Free = freelist .. end - 1 /\ freelist \in HeapBase .. end - 1
        BY <1>1, <2>2, ListIsRest DEF HeapInv
      <3>2. (b .. e - 1) \ (freelist .. e - 1) = b .. freelist - 1
        BY <1>2, <3>1
      <3>3. Front = freelist /\ freelist \in Nat /\ b <= freelist /\ freelist <= e
        BY <1>2, <2>2, <3>1 DEF Front
      <3> QED  BY <1>2, <3>1, <3>2, <3>3
    <2> QED  BY <2>1, <2>2
  <1>5. Cardinality(b .. x - 1) = x - b
    <2>1. x - 1 \in Int /\ b \in Int
      OBVIOUS
    <2>2. Cardinality(b .. x - 1) = IF b > x - 1 THEN 0 ELSE (x - 1) - b + 1
      BY <2>1, FS_Interval
    <2> QED  BY <1>4, <2>2
  <1>6. x <= b + u
    BY <1>2, <1>3, <1>4 DEF CountInv
  <1>7. x - b <= n
    BY <1>3, <1>6
  <1>8. Cardinality((HeapBase .. end - 1) \ Free) = x - b
    BY <1>4, <1>5
  <1> QED
    BY <1>3, <1>7, <1>8

\* heap.c takes no page that is not needed: for any widths of the tables, any
\* size of memory and any sequence of benchmarks, no more pages are gone than
\* the tables of the benchmarks so far, even when memory has run out.
THEOREM HeapTakesNoMore == Spec => []TakesNoMore
  <1>1. Init => TInv /\ CountInv
    BY InitTInv, CountStarts
  <1>2. TInv /\ CountInv /\ [Next]_vars => TInv' /\ CountInv'
    BY NextKeepsTInv, CountKept
  <1>3. TInv /\ CountInv => TakesNoMore
    BY TakenBounded
  <1> QED
    BY <1>1, <1>2, <1>3, PTL DEF Spec

\* Memory is larger than the tables of all benchmarks.
MemorySuffices == \A e \in HeapEnds : HeapBase + PagesUpTo[Len(Jobs)] < e

\* Then heap_alloc_page() never returns 0: install_pte(), which does not look
\* at its result, never takes page 0 for a table.
THEOREM HeapMemoryLasts ==
    ASSUME MemorySuffices
    PROVE  Spec => [](freelist # 0)
  <1>1. Init => TInv /\ CountInv
    BY InitTInv, CountStarts
  <1>2. TInv /\ CountInv /\ [Next]_vars => TInv' /\ CountInv'
    BY NextKeepsTInv, CountKept
  <1>3. TInv /\ CountInv => freelist # 0
    <2> SUFFICES ASSUME TInv, CountInv, freelist = 0 PROVE FALSE
      OBVIOUS
    <2>1. ControlInv /\ CallInv
      BY DEF TInv, IInv
    <2>2. PICK u \in Nat, k \in 0 .. Len(Jobs), n \in Nat : u = Used /\ n = PagesUpTo[k] /\ u <= n
      BY <2>1, UsedBounded
    <2>3. PICK m \in Nat : m = PagesUpTo[Len(Jobs)] /\ n <= m
      <3>1. Len(Jobs) \in 0 .. Len(Jobs)
        BY Constants
      <3> QED  BY <2>2, <3>1, PagesUpToAre, PagesUpToGrow
    <2>4. end \in HeapEnds /\ end \in Nat /\ HeapBase \in Nat
      BY <2>1, Constants DEF CallInv
    <2>5. HeapBase + m < end
      BY <2>3, <2>4 DEF MemorySuffices
    <2>6. end <= HeapBase + u
      BY <2>2 DEF CountInv, Front
    <2> QED  BY <2>2, <2>3, <2>4, <2>5, <2>6
  <1> QED
    BY <1>1, <1>2, <1>3, PTL DEF Spec

\* So with enough memory every benchmark of any list has the address space it
\* is meant to have, throughout: heap.c implements AddressSpace.
THEOREM HeapEnoughMemory ==
    ASSUME MemorySuffices
    PROVE  Spec => []TypeOK /\ []IdentityMapped /\ []IoPagesMapped /\ ImplementsAddressSpace
  <1>1. Spec => [](freelist # 0)
    BY HeapMemoryLasts
  <1>2. Spec => [](freelist # 0 => TypeOK)
    BY HeapTypeOK
  <1>3. Spec => [](freelist # 0 => IdentityMapped)
    BY HeapIdentityMapped
  <1>4. Spec => [](freelist # 0 => IoPagesMapped)
    BY HeapIoPagesMapped
  <1>5. Spec /\ [](freelist # 0) => ImplementsAddressSpace
    BY HeapRefinesAddressSpace
  <1> QED
    BY <1>1, <1>2, <1>3, <1>4, <1>5, PTL

=============================================================================
