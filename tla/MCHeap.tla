------------------------------- MODULE MCHeap -------------------------------
(***************************************************************************)
(* Instances of Heap for TLC.                                               *)
(***************************************************************************)
EXTENDS Heap

\* A benchmark of each kind, in link order: with I/O pages, without page
\* tables, with I/O pages once more, with twice the memory, from the kernel.
MixedJobs == <<sgdt, smsw, lgdt, memory_cold, memory_pt>>

=============================================================================
