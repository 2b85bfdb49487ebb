------------------------------ MODULE MpTable ------------------------------
(***************************************************************************)
(* mpinit(): how the boot processor finds out which processors there are.   *)
(* It looks for the MP floating pointer structure, takes the address of the *)
(* configuration table from it, checks the table and walks its entries.     *)
(*                                                                         *)
(* What the firmware has left in memory is the input: a memory image.  A    *)
(* 16-byte slot of a searched area is "other" (no signature), "badsum",     *)
(* "default" (valid, but physaddr is 0) or "table" (valid, with a table).   *)
(* Positions in the table are byte offsets, since entries differ in size.   *)
(***************************************************************************)
EXTENDS Integers, Sequences, FiniteSets, SequencesExt

CONSTANTS NCPU,     \* size of cpus[]
          Images    \* the memory images to consider

Places == {"ebda", "base", "rom"}
Slots == {"other", "badsum", "default", "table"}
Types == {"MPPROC", "MPBUS", "MPIOAPIC", "MPIOINTR", "MPLINTR"}
Unknown == "unknown"

\* An image: is there an EBDA, the slots of each place, the table's header and
\* entries, and the entries found when the memory at address 0 (the real-mode
\* interrupt vectors) is taken for a table.
IsImage(m) ==
    /\ m.ebda \in BOOLEAN
    /\ m.slots \in [Places -> Seq(Slots)]
    /\ m.signature \in BOOLEAN /\ m.version \in 0 .. 255 /\ m.checksum \in BOOLEAN
    /\ \A t \in {m.entries, m.page0} : t \in Seq([type : Types \cup {Unknown}, id : Nat])

ASSUME MpAssumption ==
    /\ NCPU \in Nat \ {0}
    /\ \A m \in Images : IsImage(m)

VARIABLES
    image,      \* what the firmware left in memory
    pc,
    mp,         \* the slot mpsearch() found, or "none"
    conf,       \* "null", or "table"
    lapic,      \* where the address of the local APIC was read from
    p,          \* offset of the entry the loop is at
    cpus, ncpu, \* apic ids of the processors entered so far, and their number
    ioapicid,
    ismp,
    said        \* messages printed

vars == <<image, pc, mp, conf, lapic, p, cpus, ncpu, ioapicid, ismp, said>>

Init ==
    /\ image \in Images
    /\ pc = "search" /\ mp = "none" /\ conf = "null" /\ lapic = "unset" /\ p = 0
    /\ cpus = [c \in 0 .. NCPU - 1 |-> 0] /\ ncpu = 0
    /\ ioapicid = 0
    /\ ismp = 1
    /\ said = {}

-----------------------------------------------------------------------------
(* Finding the table. *)

Valid(slot) == slot \in {"default", "table"}

\* mpsearch1(): the first slot with the signature and a correct checksum.
mpsearch1(area) ==
    LET k == SelectInSeq(area, Valid) IN IF k = 0 THEN "none" ELSE area[k]

\* mpsearch(): the EBDA, or base memory if there is no EBDA; then the ROM from
\* 0xF0000.
mpsearch(m) ==
    LET first == mpsearch1(m.slots[IF m.ebda THEN "ebda" ELSE "base"])
    IN IF first # "none" THEN first ELSE mpsearch1(m.slots["rom"])

Search ==
    /\ pc = "search"
    /\ mp' = mpsearch(image)
    /\ pc' = "config"
    /\ UNCHANGED <<image, conf, lapic, p, cpus, ncpu, ioapicid, ismp, said>>

\* mpconfig()
mpconfig(m, slot) ==
    IF slot = "table" /\ m.signature /\ m.version \in {1, 4} /\ m.checksum
    THEN "table" ELSE "null"

\* mpinit() says so when there is no table, and goes on all the same.
Config ==
    /\ pc = "config"
    /\ conf' = mpconfig(image, mp)
    /\ said' = IF conf' = "null" THEN said \cup {"Expect to run on an SMP"} ELSE said
    /\ lapic' = conf'                   \* conf->lapicaddr
    /\ p' = 44                          \* conf + 1
    /\ pc' = "entries"
    /\ UNCHANGED <<image, mp, cpus, ncpu, ioapicid, ismp>>

-----------------------------------------------------------------------------
(* Walking the entries. *)

Entries == IF conf = "table" THEN image.entries ELSE image.page0

\* sizeof(struct mpproc) is 20; the other entries have 8 bytes.
SizeOf(type) == IF type = "MPPROC" THEN 20 ELSE 8

\* The offset behind the first k entries, and the end of the table.
OffsetOf ==
    LET f[k \in 0 .. Len(Entries)] ==
          IF k = 0 THEN 44 ELSE f[k - 1] + SizeOf(Entries[k].type)
    IN f
End == OffsetOf[Len(Entries)]

\* What is read at p: an entry, or the inside of one.
Garbage == [type |-> Unknown, id |-> 0]
Here == {Entries[k] : k \in {j \in 1 .. Len(Entries) : OffsetOf[j - 1] = p}}
Entry == IF Here = {} THEN Garbage ELSE CHOOSE x \in Here : TRUE

AtEntry(types) == pc = "entries" /\ p < End /\ Entry.type \in types

\* Mutant: one processor too many is entered.
EntryProcNoLimit ==
    /\ AtEntry({"MPPROC"})
    /\ cpus' = [c \in DOMAIN cpus |-> IF c = ncpu THEN Entry.id ELSE cpus[c]]
    /\ ncpu' = ncpu + 1
    /\ p' = p + 20
    /\ UNCHANGED <<image, pc, mp, conf, lapic, ioapicid, ismp, said>>

\* Mutant: the processor's number is taken for its APIC id.
EntryProcNumber ==
    /\ AtEntry({"MPPROC"})
    /\ IF ncpu < NCPU
       THEN cpus' = [cpus EXCEPT ![ncpu] = ncpu] /\ ncpu' = ncpu + 1
       ELSE UNCHANGED <<cpus, ncpu>>
    /\ p' = p + 20
    /\ UNCHANGED <<image, pc, mp, conf, lapic, ioapicid, ismp, said>>

EntryProc ==
    /\ AtEntry({"MPPROC"})
    /\ IF ncpu < NCPU
       THEN cpus' = [cpus EXCEPT ![ncpu] = Entry.id] /\ ncpu' = ncpu + 1
       ELSE UNCHANGED <<cpus, ncpu>>
    /\ p' = p + 20
    /\ UNCHANGED <<image, pc, mp, conf, lapic, ioapicid, ismp, said>>

EntryIoapic ==
    /\ AtEntry({"MPIOAPIC"})
    /\ ioapicid' = Entry.id
    /\ p' = p + 8
    /\ UNCHANGED <<image, pc, mp, conf, lapic, cpus, ncpu, ismp, said>>

\* Mutant: such an entry is taken to be as large as a processor's.
EntryOtherLong ==
    /\ AtEntry({"MPBUS", "MPIOINTR", "MPLINTR"})
    /\ p' = p + 20
    /\ UNCHANGED <<image, pc, mp, conf, lapic, cpus, ncpu, ioapicid, ismp, said>>

EntryOther ==
    /\ AtEntry({"MPBUS", "MPIOINTR", "MPLINTR"})
    /\ p' = p + 8
    /\ UNCHANGED <<image, pc, mp, conf, lapic, cpus, ncpu, ioapicid, ismp, said>>

\* The break leaves the switch, not the loop, and p stays where it is.
EntryUnknown ==
    /\ AtEntry({Unknown})
    /\ ismp' = 0
    /\ UNCHANGED <<image, pc, mp, conf, lapic, p, cpus, ncpu, ioapicid, said>>

LoopEnds ==
    /\ pc = "entries"
    /\ p >= End
    /\ said' = IF ismp = 0 THEN said \cup {"Didn't find a suitable machine"} ELSE said
    /\ pc' = "done"
    /\ UNCHANGED <<image, mp, conf, lapic, p, cpus, ncpu, ioapicid, ismp>>

\* mpinit() has returned.
Returned == pc = "done" /\ UNCHANGED vars

Next ==
    \/ Search \/ Config
    \/ EntryProc \/ EntryIoapic \/ EntryOther \/ EntryUnknown \/ LoopEnds
    \/ Returned

\* Only the boot processor runs, and nothing stops it.
Spec == Init /\ [][Next]_vars
FairSpec == Spec /\ WF_vars(Next)

-----------------------------------------------------------------------------
(* Properties. *)

\* Every variable keeps its type; ncpu never passes the end of cpus[].
TypeOK ==
    /\ image \in Images
    /\ pc \in {"search", "config", "entries", "done"}
    /\ mp \in Slots \cup {"none"} /\ conf \in {"null", "table"}
    /\ lapic \in {"unset", "null", "table"}
    /\ p \in 0 .. 44 + 20 * Len(Entries)
    /\ cpus \in [0 .. NCPU - 1 -> Nat] /\ ncpu \in 0 .. NCPU
    /\ ioapicid \in Nat /\ ismp \in {0, 1}
    /\ said \subseteq {"Expect to run on an SMP", "Didn't find a suitable machine"}

\* The number of processors among the first k entries.
ProcsUpTo(k) == Cardinality({j \in 1 .. k : Entries[j].type = "MPPROC"})

\* When mpinit() returns, cpus[] has the APIC ids of the table's processors in
\* the table's order, as many as fit, wherever other entries stand in between:
\* a processor entry that is the n-th of its kind is processor n - 1.
CpusAreProcessors ==
    pc = "done" =>
        LET all == ProcsUpTo(Len(Entries))
        IN /\ ncpu = IF all < NCPU THEN all ELSE NCPU
           /\ \A k \in 1 .. Len(Entries) :
                 Entries[k].type = "MPPROC" /\ ProcsUpTo(k) <= NCPU =>
                     cpus[ProcsUpTo(k) - 1] = Entries[k].id

\* mpinit() returns whenever every entry has a type it knows.
ReturnsIfKnown ==
    (pc = "entries" /\ \A k \in 1 .. Len(Entries) : Entries[k].type \in Types) ~> pc = "done"

\* mp.c:296-298 reports an unsuitable machine once an entry has cleared ismp.
UnsuitableReported == ismp = 0 ~> "Didn't find a suitable machine" \in said

=============================================================================
