----------------------------- MODULE MCSession -----------------------------
(***************************************************************************)
(* Instances of Session for TLC.                                            *)
(***************************************************************************)
EXTENDS Session, Benchmarks

\* On the line the linked benchmarks differ in the function that may print: the
\* one that calls setup_mmu(), or the kernel of print.  One of each kind.
Sample == <<memory_pt, sgdt, idle>>

MayPrint(r) == IF r.prints THEN "kernel" ELSE r.by
ASSUME EveryKind ==
    \A k \in 1 .. Len(Linked) : \E j \in 1 .. Len(Sample) : MayPrint(Linked[k]) = MayPrint(Sample[j])

\* heap_alloc_page() prints when the heap is used up, kernels do so anyway.
Printers(f) == {k \in 1 .. Len(Sample) : MayPrint(Sample[k]) = f}
SamplePrinting ==
    {[init |-> {}, kernel |-> Printers("kernel")],
     [init |-> Printers("init"), kernel |-> Printers("kernel")]}

NonePrints == {[init |-> {}, kernel |-> {}]}

\* Losses that are followed up.
MaxLost == 2
FewLosses == lost <= MaxLost

=============================================================================
