-------------------------------- MODULE Heap --------------------------------
(***************************************************************************)
(* heap.c: the free list of physical pages, the page tables built from it,  *)
(* and the way the benchmarks use them.  Only the BSP runs this code; it is *)
(* modelled statement by statement where memory is written.                 *)
(*                                                                         *)
(* Memory is a function from physical pages to their words.  A word is an   *)
(* address with a present bit, so that a page's first word can be a link of *)
(* the free list at one time and a page-table entry at another.  Widths are *)
(* parameters: Fan entries per table and Levels levels, 512 and 4 in the    *)
(* code.  Addresses are page numbers.                                       *)
(***************************************************************************)
EXTENDS Integers, Sequences, FiniteSets, Benchmarks

CONSTANTS
    Fan,        \* entries of a page table (2^PGDIR_WIDTH)
    Levels,     \* PAGE_LEVEL
    Gib4,       \* pages in 1ul << 32, mapped 1:1 by the boot page tables too
    Gib8,       \* pages in 1ul << 33, what memory-cold.c maps
    HeapBase,   \* first page after _HEAP_START
    HeapEnds,   \* possible ends of memory (mem_upper * 1024)
    Jobs        \* the benchmarks to run, in order

ASSUME HeapAssumption ==
    /\ Fan \in Nat \ {0, 1} /\ Levels \in Nat \ {0}
    /\ Gib4 \in Nat /\ Gib8 \in Nat /\ Gib4 <= Gib8
    /\ HeapBase \in Nat \ {0}
    /\ \A e \in HeapEnds : e \in HeapBase + 1 .. Gib4
    /\ Len(Jobs) \in Nat /\ \A k \in 1 .. Len(Jobs) : IsBenchmark(Jobs[k])

\* The pages that a page table of level l maps, level 1 being the lowest.
Span[l \in 0 .. Levels] == IF l = 0 THEN 1 ELSE Fan * Span[l - 1]

VPages == Span[Levels]

\* The pages alloc_vpages() takes from the top never reach the identity map.
ASSUME VPagesAssumption == Gib8 + 2 * Len(Jobs) <= VPages

VPage  == 0 .. VPages - 1
Offset == 0 .. Fan - 1
Page   == 0 .. Gib4 - 1
IoRam  == Gib4 - 1               \* IORAM_BASE_PHYS, just below 4 GiB
BootCr3 == HeapBase - 1          \* ptl4 of cstart.S, in the program's image
None   == -1                     \* a virtual page that is not mapped

Zero     == [addr |-> 0, present |-> FALSE]
Junk     == [addr |-> 0, present |-> TRUE]   \* what memory may hold at power-up
ZeroPage == [o \in Offset |-> Zero]

VARIABLES
    mem,        \* contents of physical memory
    freelist,
    vfree_top,  \* lowest virtual page handed out by alloc_vpages()
    cr3,
    start_cr3,
    job,        \* index of the benchmark in Jobs
    pc,
    end,        \* end of memory; in the link loop, end of the chunk
    cursor,     \* mem of get_free_pages()
    root,       \* first argument of install_page()
    virt, phys, \* its other arguments
    left,       \* pages the caller still has to install
    ret,        \* its caller: install_pages() or a benchmark's init
    level, pt   \* locals of install_pte()

heapVars == <<mem, freelist>>
walkVars == <<ret, level, pt>>
callVars == <<root, virt, phys, left>>
mmuVars  == <<cr3, start_cr3>>
vars == <<heapVars, vfree_top, mmuVars, job, pc, end, cursor, callVars, walkVars>>

Init ==
    /\ mem = [p \in Page |-> [o \in Offset |-> Junk]]
    /\ end \in HeapEnds
    /\ freelist = HeapBase       \* get_free_pages() sets it before the loop
    /\ cursor = HeapBase
    /\ vfree_top = 0
    /\ cr3 = BootCr3
    /\ start_cr3 = 0
    /\ job = 1
    /\ pc = "link"
    /\ root = 0 /\ virt = 0 /\ phys = 0 /\ left = 0
    /\ ret = "install_pages" /\ level = 0 /\ pt = 0

-----------------------------------------------------------------------------
(* get_free_pages(), called once by early_mem_init() with an empty list. *)

LinkPage ==
    /\ pc = "link"
    /\ cursor + 1 # end
    /\ mem' = [mem EXCEPT ![cursor][0] = [addr |-> cursor + 1, present |-> FALSE]]
    /\ cursor' = cursor + 1
    /\ UNCHANGED <<freelist, vfree_top, mmuVars, job, pc, end, callVars, walkVars>>

LinkLast ==
    /\ pc = "link"
    /\ cursor + 1 = end
    /\ mem' = [mem EXCEPT ![cursor][0] = Zero]
    /\ pc' = "next"
    /\ UNCHANGED <<freelist, vfree_top, mmuVars, job, end, cursor, callVars, walkVars>>

\* Mutant: the page is handed out with its old contents.
heap_alloc_pageDirty(m, f) ==
    IF f = 0 THEN [page |-> 0, mem |-> m, freelist |-> f]
    ELSE [page |-> f, mem |-> m, freelist |-> m[f][0].addr]

\* Mutant: the page stays on the free list.
heap_alloc_pageKept(m, f) ==
    IF f = 0 THEN [page |-> 0, mem |-> m, freelist |-> f]
    ELSE [page |-> f, mem |-> [m EXCEPT ![f] = ZeroPage], freelist |-> f]

\* heap_alloc_page(): the first page of the list, zeroed, or 0.
heap_alloc_page(m, f) ==
    IF f = 0 THEN [page |-> 0, mem |-> m, freelist |-> f]
    ELSE [page |-> f, mem |-> [m EXCEPT ![f] = ZeroPage], freelist |-> m[f][0].addr]

-----------------------------------------------------------------------------
(* install_pte() for a 4 KiB page: one step per level. *)

PGDIR_OFFSET(v, l) == (v \div Span[l - 1]) % Fan

\* Mutant: the table is allocated before the entry is looked at.
WalkLevelLeaks ==
    /\ pc = "walk"
    /\ level > 1
    /\ LET o == PGDIR_OFFSET(virt, level)
           new == heap_alloc_page(mem, freelist)
       IN IF mem[pt][o].present
          THEN /\ pt' = mem[pt][o].addr
               /\ mem' = new.mem /\ freelist' = new.freelist
          ELSE /\ mem' = [new.mem EXCEPT ![new.page] = ZeroPage,
                                         ![pt][o] = [addr |-> new.page, present |-> TRUE]]
               /\ freelist' = new.freelist
               /\ pt' = new.page
    /\ level' = level - 1
    /\ UNCHANGED <<vfree_top, mmuVars, job, pc, end, cursor, callVars, ret>>

\* A missing table is allocated; heap_alloc_page()'s result is not checked, so
\* without memory the table is physical page 0.
WalkLevel ==
    /\ pc = "walk"
    /\ level > 1
    /\ LET o == PGDIR_OFFSET(virt, level)
           new == heap_alloc_page(mem, freelist)
       IN IF mem[pt][o].present
          THEN /\ pt' = mem[pt][o].addr
               /\ UNCHANGED heapVars
          ELSE /\ mem' = [new.mem EXCEPT ![new.page] = ZeroPage,
                                         ![pt][o] = [addr |-> new.page, present |-> TRUE]]
               /\ freelist' = new.freelist
               /\ pt' = new.page
    /\ level' = level - 1
    /\ UNCHANGED <<vfree_top, mmuVars, job, pc, end, cursor, callVars, ret>>

\* The entry itself.  install_pages() advances both addresses, the two calls
\* of install_page() for the I/O page only the virtual one.
WritePte ==
    /\ pc = "walk"
    /\ level = 1
    /\ mem' = [mem EXCEPT ![pt][PGDIR_OFFSET(virt, 1)] = [addr |-> phys, present |-> TRUE]]
    /\ pc' = ret
    /\ virt' = virt + 1
    /\ phys' = IF ret = "install_pages" THEN phys + 1 ELSE phys
    /\ left' = left - 1
    /\ UNCHANGED <<freelist, vfree_top, mmuVars, job, end, cursor, root, walkVars>>

StartWalk(from) ==
    /\ pc = from
    /\ left > 0
    /\ pc' = "walk"
    /\ ret' = from
    /\ level' = Levels
    /\ pt' = root
    /\ UNCHANGED <<heapVars, vfree_top, mmuVars, job, end, cursor, callVars>>

InstallPages == StartWalk("install_pages")
InstallIo == StartWalk("install_io")

-----------------------------------------------------------------------------
(* A benchmark: init, kernel and cleanup. *)

SkipJob ==
    /\ pc = "next"
    /\ job <= Len(Jobs)
    /\ Jobs[job].maps = 0
    /\ job' = job + 1
    /\ UNCHANGED <<heapVars, vfree_top, mmuVars, pc, end, cursor, callVars, walkVars>>

\* Mutant: the loop of install_pages() goes on while phys <= max.
SetupMmuOneMore ==
    /\ pc = "next"
    /\ job <= Len(Jobs)
    /\ Jobs[job].maps > 0
    /\ LET new == heap_alloc_page(mem, freelist)
       IN /\ mem' = new.mem
          /\ freelist' = new.freelist
          /\ root' = new.page
    /\ virt' = 0
    /\ phys' = 0
    /\ left' = 1 + (IF Jobs[job].maps = 8 THEN Gib8 ELSE Gib4)
    /\ pc' = "install_pages"
    /\ UNCHANGED <<vfree_top, mmuVars, job, end, cursor, walkVars>>

\* setup_mmu() up to install_pages(); in memory-pt.c the kernel calls it.
SetupMmu ==
    /\ pc = "next"
    /\ job <= Len(Jobs)
    /\ Jobs[job].maps > 0
    /\ LET new == heap_alloc_page(mem, freelist)
       IN /\ mem' = new.mem
          /\ freelist' = new.freelist
          /\ root' = new.page
    /\ virt' = 0
    /\ phys' = 0
    /\ left' = IF Jobs[job].maps = 8 THEN Gib8 ELSE Gib4
    /\ pc' = "install_pages"
    /\ UNCHANGED <<vfree_top, mmuVars, job, end, cursor, walkVars>>

\* The rest of setup_mmu().
WriteCr3 ==
    /\ pc = "install_pages"
    /\ left = 0
    /\ start_cr3' = cr3
    /\ cr3' = root
    /\ pc' = IF Jobs[job].vpages > 0 THEN "alloc_vpages" ELSE "cleanup"
    /\ UNCHANGED <<heapVars, vfree_top, job, end, cursor, callVars, walkVars>>

\* alloc_vpages() and the arguments of the two install_page() that follow;
\* vfree_top starts at 0 and wraps to the top of the address space.
AllocVpages ==
    /\ pc = "alloc_vpages"
    /\ vfree_top' = (vfree_top - Jobs[job].vpages) % VPages
    /\ virt' = vfree_top'
    /\ root' = cr3
    /\ phys' = IoRam
    /\ left' = Jobs[job].vpages
    /\ pc' = "install_io"
    /\ UNCHANGED <<heapVars, mmuVars, job, end, cursor, walkVars>>

IoInstalled ==
    /\ pc = "install_io"
    /\ left = 0
    /\ pc' = "cleanup"
    /\ UNCHANGED <<heapVars, vfree_top, mmuVars, job, end, cursor, callVars, walkVars>>

\* Mutant: a benchmark returns without switch_to_start_cr3(), so the next
\* setup_mmu() saves its tables as the starting ones.
SwitchToStartNot ==
    /\ pc = "cleanup"
    /\ job' = job + 1
    /\ pc' = "next"
    /\ UNCHANGED <<heapVars, vfree_top, mmuVars, end, cursor, callVars, walkVars>>

\* switch_to_start_cr3(); the page tables are not given back.
SwitchToStart ==
    /\ pc = "cleanup"
    /\ cr3' = start_cr3
    /\ job' = job + 1
    /\ pc' = "next"
    /\ UNCHANGED <<heapVars, vfree_top, start_cr3, end, cursor, callVars, walkVars>>

AllDone ==
    /\ pc = "next"
    /\ job > Len(Jobs)
    /\ UNCHANGED vars

Next ==
    \/ LinkPage \/ LinkLast
    \/ SkipJob \/ SetupMmu \/ InstallPages \/ InstallIo \/ WalkLevel \/ WritePte
    \/ WriteCr3 \/ AllocVpages \/ IoInstalled \/ SwitchToStart \/ AllDone

Spec == Init /\ [][Next]_vars

-----------------------------------------------------------------------------
(* What the processor sees, and properties. *)

\* The page table of a given level that translates v under tables r.
TableAt(r, v) ==
    LET t[l \in 1 .. Levels] ==
          IF l = Levels THEN r
          ELSE LET up == t[l + 1]
                   o == PGDIR_OFFSET(v, l + 1)
               IN IF up \in Page /\ mem[up][o].present THEN mem[up][o].addr ELSE None
    IN t[1]

\* The walk of the memory management unit; the boot tables map 4 GiB 1:1.
Translate(r, v) ==
    IF r = BootCr3 THEN IF v < Gib4 THEN v ELSE None
    ELSE LET t == TableAt(r, v)
         IN IF t \in Page /\ mem[t][PGDIR_OFFSET(v, 1)].present
            THEN mem[t][PGDIR_OFFSET(v, 1)].addr ELSE None

\* The page tables reachable from root r.
TablesOf(r) ==
    LET s[l \in 1 .. Levels] ==
          IF l = Levels THEN {r}
          ELSE {mem[x[1]][x[2]].addr :
                  x \in {y \in s[l + 1] \X Offset : mem[y[1]][y[2]].present}}
    IN UNION {s[l] : l \in 1 .. Levels}

\* The free list as the k-th page from its head, 0 once it has ended.
FreeAt ==
    LET n[k \in 0 .. Gib4] ==
          IF k = 0 THEN freelist
          ELSE LET prev == n[k - 1] IN IF prev = 0 THEN 0 ELSE mem[prev][0].addr
    IN n
Free == {FreeAt[k] : k \in 0 .. Gib4} \ {0}

\* The roots in use: the current tables, and those setup_mmu() is building.
Roots == ({cr3} \cup (IF pc \in {"walk", "install_pages"} THEN {root} ELSE {}))
           \ {BootCr3}

\* Every variable keeps its type.
TypeOK ==
    /\ mem \in [Page -> [Offset -> [addr : Nat, present : BOOLEAN]]]
    /\ freelist \in Page /\ vfree_top \in VPage
    /\ cr3 \in Page /\ start_cr3 \in Page /\ root \in Page
    /\ job \in 1 .. Len(Jobs) + 1
    /\ pc \in {"link", "next", "install_pages", "walk", "alloc_vpages", "install_io",
               "cleanup"}
    /\ end \in HeapEnds /\ cursor \in Page
    /\ virt \in 0 .. VPages /\ phys \in 0 .. Gib8 /\ left \in 0 .. Gib8
    /\ ret \in {"install_pages", "install_io"}
    /\ level \in 0 .. Levels /\ pt \in Page

\* The free list ends, stays inside the heap, and shares no page with the
\* page tables in use: heap_alloc_page() never hands out a live page table,
\* and a page's first word is never link and entry at once.
FreeListSound ==
    pc # "link" =>
        /\ FreeAt[Gib4] = 0
        /\ Free \subseteq HeapBase .. end - 1
        /\ \A r \in Roots : TablesOf(r) \cap Free = {}

\* README, memory benchmarks: the tables setup_mmu() installs "map the whole
\* physical memory 1:1", and keep doing so while a benchmark adds pages.
IdentityMapped ==
    cr3 # BootCr3 => \A v \in 0 .. Gib4 - 1 : Translate(cr3, v) = v

\* When a benchmark's kernel runs, the pages alloc_vpages() gave it, and only
\* those, are mapped above the identity map, to the I/O page: no entry is left
\* over from memory's earlier contents or from an earlier benchmark.
IoPagesMapped ==
    pc = "cleanup" =>
        LET size == IF Jobs[job].maps = 8 THEN Gib8 ELSE Gib4
            io == IF Jobs[job].vpages = 0 THEN {}
                  ELSE vfree_top .. vfree_top + Jobs[job].vpages - 1
        IN \A v \in size .. VPages - 1 :
              Translate(cr3, v) = IF v \in io THEN IoRam ELSE None

\* The tables of levels 1 to l that n pages from 0 on need.
Tables(n, l) ==
    LET t[k \in 0 .. Levels] ==
          IF k = 0 THEN 0 ELSE t[k - 1] + ((n + Span[k] - 1) \div Span[k])
    IN t[l]

\* The pages a benchmark needs: a root, the tables of the identity map, and at
\* most one table per level for each page it adds; and the first k benchmarks.
JobPages(j) ==
    IF Jobs[j].maps = 0 THEN 0
    ELSE 1 + Tables(IF Jobs[j].maps = 8 THEN Gib8 ELSE Gib4, Levels - 1)
           + Jobs[j].vpages * (Levels - 1)
PagesUpTo[k \in 0 .. Len(Jobs)] == IF k = 0 THEN 0 ELSE PagesUpTo[k - 1] + JobPages(k)

\* Pages are never given back, so memory lasts only if none is wasted: at any
\* time no more are gone from the free list than the benchmarks so far need;
\* the walk finds every table that an earlier page of the loop has made.
TakesNoMore ==
    pc # "link" =>
        Cardinality((HeapBase .. end - 1) \ Free)
            <= PagesUpTo[IF pc = "next" THEN job - 1 ELSE job]

\* The address space the processor sees, as the abstract specification has it.
AddressSpaceOf == [v \in VPage |-> Translate(cr3, v)]

AS == INSTANCE AddressSpace WITH VPages <- VPages, Sizes <- {Gib4, Gib8},
        Boot <- Gib4, None <- None, Start <- BootCr3, map <- AddressSpaceOf, cr3 <- cr3

\* heap.c implements AddressSpace: a table under construction is invisible, an
\* installed page changes one translation and nothing else, the cleanup of a
\* benchmark restores the starting address space in one step, and setup_mmu()
\* is never called from another benchmark's tables, whose cr3 it would save in
\* the place of the starting one.
ImplementsAddressSpace == AS!Spec

=============================================================================
