----------------------------- MODULE Benchmarks -----------------------------
(***************************************************************************)
(* The benchmarks linked into the kernel, by what init(), kernel() and      *)
(* cleanup() of each do to the state other parts depend on: page tables and *)
(* the serial line.  The instructions they time are left out.               *)
(***************************************************************************)
EXTENDS Naturals, Sequences

\* maps: the GiB setup_mmu() is asked to map, 0 if it is not called; a
\* benchmark that calls it switches back in cleanup().  by: the function that
\* calls it.  vpages: pages taken from alloc_vpages() and mapped to the I/O
\* page.  prints: the kernel writes to the serial port's data register.
Uses(maps, by, vpages, prints) ==
    [maps |-> maps, by |-> by, vpages |-> vpages, prints |-> prints]

IsBenchmark(r) ==
    /\ DOMAIN r = {"maps", "by", "vpages", "prints"}
    /\ r.maps \in {0, 4, 8} /\ r.by \in {"none", "init", "kernel"}
    /\ r.vpages \in {0, 2} /\ r.prints \in BOOLEAN

idle        == Uses(0, "none", 0, FALSE)
sgdt        == Uses(4, "init", 2, FALSE)
sidt        == Uses(4, "init", 2, FALSE)
smsw        == Uses(0, "none", 0, FALSE)
pushf_popf  == Uses(0, "none", 0, FALSE)
lgdt        == Uses(4, "init", 2, FALSE)
set_cr3     == Uses(4, "init", 0, FALSE)
ipi         == Uses(4, "init", 0, FALSE)
memory_cold == Uses(8, "init", 0, FALSE)
memory_hot  == Uses(4, "init", 0, FALSE)
memory_pt   == Uses(4, "kernel", 0, FALSE)
in_serial   == Uses(0, "none", 0, FALSE)
out_serial  == Uses(0, "none", 0, FALSE)   \* the line control register only
print       == Uses(0, "none", 0, TRUE)

\* The section between _BENCHMARKS_START and _BENCHMARKS_END, in link order.
Linked ==
    <<idle, sgdt, sidt, smsw, pushf_popf, lgdt, set_cr3, ipi, memory_cold,
      memory_hot, memory_pt, in_serial, out_serial, print>>

=============================================================================
