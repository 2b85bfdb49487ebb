---------------------------- MODULE AddressSpace ----------------------------
(***************************************************************************)
(* What the memory management of heap.c promises a benchmark: an address    *)
(* space is a partial map from virtual to physical pages; setup_mmu() gives *)
(* one that maps the low pages 1:1, install_page() adds a page to it, and   *)
(* switch_to_start_cr3() brings back the one the program started with.      *)
(* setup_mmu() remembers only the tables it replaces, so it is called from   *)
(* the starting ones alone: the two calls alternate, and pages are added to  *)
(* a benchmark's own tables, never to those of the program.                  *)
(***************************************************************************)
EXTENDS Naturals

CONSTANTS VPages,  \* number of virtual pages
          Sizes,   \* lengths setup_mmu() is asked to map
          Boot,    \* pages mapped 1:1 by the page tables the program starts with
          None,    \* not mapped
          Start    \* the page tables the program starts with

VARIABLES map,     \* the address space in use
          cr3      \* the page tables it comes from

vars == <<map, cr3>>

VPage == 0 .. VPages - 1
Identity(len) == [v \in VPage |-> IF v < len THEN v ELSE None]

Init == map = Identity(Boot) /\ cr3 = Start

SetupMmu ==
    /\ cr3 = Start
    /\ cr3' # Start
    /\ \E len \in Sizes : map' = Identity(len)

InstallPage(v) ==
    /\ cr3 # Start
    /\ map[v] = None
    /\ map'[v] \in 0 .. Boot - 1
    /\ map' = [map EXCEPT ![v] = map'[v]]
    /\ cr3' = cr3

SwitchToStart ==
    /\ cr3 # Start
    /\ cr3' = Start
    /\ map' = Identity(Boot)

Next ==
    \/ SetupMmu
    \/ \E v \in VPage : InstallPage(v)
    \/ SwitchToStart

Spec == Init /\ [][Next]_vars

=============================================================================
