# HyperBench verification

HyperBench is a small x86-64 kernel that runs micro-benchmarks on bare metal or
inside a virtual machine.  This directory holds TLA+ models of its concurrent,
stateful and protocol-like parts, TLC configurations that check them on small
instances, and TLAPS proofs about every component, for all values of the constants.

    tlc -config SmpXapic.cfg Smp         # a run; PROJECT.json lists them all
    tlapm SmpProofs.tla                  # the proofs of a component, a few minutes

## 1. The system

| part | code | state | operations |
|---|---|---|---|
| MP table discovery | `x86_64/mp.c` | `cpus[]`, `ncpu`, `ioapicid`, `lapic` | `mpinit`, `mpsearch`, `mpconfig` |
| multiprocessor start-up | `x86_64/main.c`, `cstart.S`, `proc.c` | `cpus[].started`, `smp_stacktop` | `main`, `startothers`, `mpenter`, trampoline |
| local APIC | `x86_64/apic.c` | mode and registers per CPU, one `apic_ops` for all | `enable_apic`, `enable_x2apic`, ICR, EOI |
| IPI handshake | `x86_64/mp.c`, `benchmark/ipi.c` | `ipi_lock`, `ipi_done`, `boot_idt` | `smp_init`, `on_cpu`, `ipi` |
| memory | `x86_64/heap.c` | free list, `vfree_top`, `cr3`, `start_cr3`, tables | `heap_alloc_page`, `install_pte`, `setup_mmu`, `alloc_vpages`, `switch_to_start_cr3` |
| benchmarks | `benchmark/*.c` | none of their own that lasts | `init`, `control`, `kernel`, `cleanup` |
| harness | `harness/harness.c` | current benchmark | `harness_main`, `harness_execute` |
| host program | `host/host.c` | stamps, words read | `read_start`, `read_benchmark` |
| serial port | `x86_64/serial.c` | the line | `puts` |
| console | `x86_64/console.c`, `spinlock.h` | screen, cursor, lock, `console_cleared` | `console_puts`, `console_putc`, `new_line` |
| printf | `lib/printf.c` | the buffer of a call | `printf`, `snprintf`, `print_binstr` |
| string library | `lib/string.c` | none | `memmove`, `strcat`, `strstr`, `simple_glob`, `atol`, ... |
| exceptions | `x86_64/desc.c`, `desc.h` | gates, handlers, the word at `gs:4`, the frame on the stack | stubs, `do_handle_exception`, `check_exception_table`, `ASM_TRY` |

**How they interact.**  `main()` on the boot processor (BSP) initialises the
heap, calls `mpinit()` to learn the processors, then starts each application
processor (AP) and waits for its `started` flag.  BSP and APs share memory:
`started`, `smp_stacktop`, `apic_ops`, `boot_idt`, `ipi_lock`, `ipi_done`.  The
local APICs pass INIT, STARTUP and fixed interrupts between them.  The harness
then goes through the linked benchmarks; many of them build page tables in
`init()` and leave them in `cleanup()`.  In a virtual machine the harness prints
marks to its serial port; the host program reads them through a pipe and takes
the time stamps.  Nothing flows back from host to harness.  On bare metal the
same text goes to the console.  Every processor prints, through one lock; an
exception that nobody expected prints a report the same way.

**What is hard.**

* Start-up: APIC mode is per CPU but the accessor table is one pointer; a CPU's
  own identity is read through registers that a mode switch turns off; STARTUP
  is sent twice; all APs share one stack counter; the IPI gate is filled while
  the APs already run with interrupts enabled.
* The handshake: plain stores, a store buffer, an ICR write that is no fence, an
  answer that is visible before the handler has finished.
* Memory: page contents serve as list links and as table entries; tables are
  never freed; allocation failure is not checked.
* The session: two programs in step only because both agree on a text format;
  a serial port that is written without a look at its status, so that text may be
  lost; the pinning of VCPUs is agreed on by elapsed time alone.
* Firmware tables: damaged, default, unknown or too many entries.
* The console: a cursor that must wrap and scroll at the right moment, since one
  cell further `slot_from_xy()` yields a null pointer; strings of several
  processors.
* Formatting: directives read in a loop with flags carried along, a padding count
  that changes its sign, a buffer that may end anywhere, integers of two widths.
* Exceptions: 18 stubs that must each fit what the processor pushes, a frame read
  as a C struct, one result word for all processors, a report that needs a lock the
  interrupted code may hold.

`PROJECT.json` lists each hazard at its line with the properties that cover it.

**What makes each part correct.**  Start-up: an AP marked started is up, has a
stack of its own, and no CPU faults or talks to a dead register page.
Handshake: one handler run per call, none lost, none merged, everyone halts.
Memory: free pages and live tables are disjoint, memory is mapped 1:1, a
benchmark leaves the address space as it found it.  Session: every row belongs
to its benchmark, what the line delivers is reported, both programs end.  MP table:
`cpus[]` is what the table says, the walk ends.  Console: what was
printed is on the screen or has scrolled off it, in order and unmixed.  printf and
strings: the text or answer the C library promises, within the buffer.
Exceptions: the handler sees the exception that happened, and guarded code resumes
with nothing changed but its address.

## 2. Modules and code

| module | models |
|---|---|
| `Smp` | `main()` from `enable_apic()` on, `startothers`, `lapicstartap`, trampoline, `mpenter`, `smp_init`, `on_cpu`, the handler |
| `SmpInv` | the inductive invariant of `Smp` |
| `SmpProofs` | its proof, and the theorems that follow |
| `Benchmarks` | what each linked benchmark does to page tables and the serial line; the link order |
| `AddressSpace` | abstract: a partial map from virtual to physical pages, and the order in which it is set up and left |
| `Heap` | `heap.c` as the benchmarks use it; implements `AddressSpace` |
| `Session` | harness, serial line and host |
| `MpTable` | `mpinit()` on a firmware image |
| `Teletype` | abstract: glyphs on an endless roll of paper |
| `Console` | `console.c` and the spin lock, several processors; implements `Teletype` |
| `Strings` | `lib/string.c` |
| `Printf` | `lib/printf.c` and `atol` |
| `Exceptions` | stubs, dispatch and exception table of `desc.c`, `ASM_TRY` |
| `ConsoleProofs`, `LibcProofs`, `ExceptionsProofs`, `HeapProofs`, `MpTableProofs`, `SessionProofs` | inductive invariants and theorems of the other components; `LibcProofs` is about `Strings` and `Printf` |
| `LeastNumber` | induction, recursion and searches over the numbers, as facts about sets, for those proofs |
| `MCHeap`, `MCSession`, `MCMpTable`, `MCConsole`, `MCLibc`, `MCExceptions` | constants for TLC; `MCLibc` also puts `Strings` and `Printf` side by side |

Definitions whose comment begins with "Mutant" are faulty variants of the
definition below them; no specification uses them.  They show that a property
fails when the code has that fault.

**`Smp`.**  A processor is its index in `cpus[]`.  `bpc` and `apc` are control
points; an action is the code between two accesses to shared state or to a
device.  `mycpu()` is a set of possible results: the right entry while the
memory-mapped ID register works, anything (or nothing) afterwards.  `lapicw`
loses the write in x2APIC mode; an MSR access in xAPIC mode is a fault.
Messages wait in `inbox` and are accepted in order (external: hardware).  A
processor of the table may be `"absent"`: `mpinit()` does not look at the enabled
flag of an entry, and such a processor never answers.  The
BSP's store `ipi_done = 0` sits in `sbuf` until `DrainStore`; whether the ICR
write waits for it is `IcrDrainsStores`, true under a hypervisor that traps the
MSR and not promised by the processor.  The BSP never takes an interrupt, since
it runs with interrupts disabled.  `set_idt_entry` is three steps, in the order
of its assignments.  `handled` is a history variable.

**`Heap`.**  Memory is a function from pages to words, and a word is an address
with a present bit, so list links and page-table entries are the same thing, as
in the code.  `Fan` and `Levels` stand for 512 and 4.  Memory starts out filled
with words that look present, so an allocation that forgets to clear is seen.
`Span[l]` is the number of pages an entry of level `l` covers.  One action per level
of `install_pte`; `WalkLevel` ignores a failed allocation as
the code does.  `Translate` is the walk of the MMU (external).  `start_cr3` holds one
value, so `AddressSpace` demands that `setup_mmu()` is called from the starting tables
only and that pages are added to a benchmark's own tables only: a benchmark that did
not switch back would lose the starting ones with the next `setup_mmu()`.

**`Session`.**  Text is a sequence of atoms: marks, words, numbers, white space.
An atom remembers the benchmark it was printed for, so a row can be compared
with the marks it came from.  `getline` and `fscanf` are modelled by what they
consume, including what a failing `fscanf` has already eaten.  `currentcycles()`
keeps the low word of the counter (`LowWord`), which is what the constraint `"=A"`
yields on x86-64.

Nothing defines `USE_SERIAL`, so `print_serial()` is a single `rep/outsb`
(`serial.c:60`), which never waits.  `tty` is everything between that instruction and
the host's `stdin`: the holding register of the port (no FIFO is switched on), the
emulated transmitter, and the pipe, since `script/qemu` runs with `-nographic`.  It
has room for `PipeSize` atoms.  The last place is the holding register: `PutChar`
appends while there is room and overwrites that place when there is none.  A
hypervisor that stops the VCPU until the character is gone is a line that never fills.
`lost` counts the overwritten atoms and `whole` is the last benchmark whose `]` the
line has taken before the first loss; both are history variables.  In the code a loss
may also hit part of a word or number, which is one atom here; no property says
anything about the rows that are read behind a loss.  What is in the line when the
virtual machine ends is still delivered.

**`MpTable`.**  The input is an image: what stands in each searched area, the
header of the table, its entries.  The walk uses byte offsets, as `p` does.  With
no accepted table the code reads address 0, and so does the model (`page0`).

**`Console`.**  A cell holds a glyph; cell `Null` is the word at address 0, which
is what a cursor off the screen would write to.  The lock, the first clear, each
character and the unlock are steps of their own.  `gone` keeps the rows that have
scrolled off, so that `gone`, the screen and the cursor map to the paper and the
head of `Teletype`; `due` and `said` record who got the lock and what was put.

**`Strings`.**  The functions that write are loops over a small memory, a byte per
step; those that only read are functions of C strings, in which a read behind the
NUL is an error.  Comparisons take the sign of `char` into account: `strncmp` is
signed, `memcmp` unsigned.  `NUL`, `'*'`, a letter and a byte above 127 are the
alphabet.

**`Printf`.**  One action per kind of character in the format.  A number argument
is a word of `LongBits` of which `int` keeps the low `IntBits`; a width is anything an
`int` can hold, spelled in decimal (`%-15s`, `%016lx`).  For the smallest
number `n = -n` changes nothing, and each negative remainder reads a byte in
front of `digits[]`: any character or a NUL.  `print_binstr` formats `binstr(x)`.

**`Exceptions`.**  Per processor a stack of words, registers, and the address of the
instruction it is at: guarded (in the table) or inside `printf()`.  The processor
aligns the stack and pushes its frame, with an error code for the vectors that have
one; `boot_idt` is zero-filled and a gate of type 0 is invalid, so a vector without a
gate arrives as #GP (external), which has a handler.  Stub, dispatch, table, restore
and each message of a report are actions.  C code destroys the registers it may.
`raised` remembers what happened, for comparison.

## 3. Runs

| run | shows | instance |
|---|---|---|
| `smp_x2apic` | the inductive invariant and the safety properties of `Smp`; every IPI is answered; the machine comes to rest, or waits for the first processor that never answers | 4 CPUs, BSP first, 3 IPIs, any set of APs absent |
| `smp_xapic` | the same protocol comes to rest on the memory-mapped accessors, stores delayed | 3 CPUs, BSP last, 3 IPIs |
| `heap` | free list and tables stay apart at every step; identity map; the starting tables are never lost; refinement of `AddressSpace`; no page is taken that is not needed | a benchmark of each kind, three levels of 6 entries, three memory sizes |
| `session` | every benchmark sent completely before the first loss has its row, and the row is right; with nothing lost and a machine that lives all have; the wait ends; the host settles; with messages mid-line and a machine that may die at any moment | 3 benchmarks, a line of 4 atoms, up to 2 losses |
| `mp_table` | `cpus[]` does not overflow and is what the table says; the walk ends if all types are known | every placement of structures with 5 headers, every table of at most 3 entries of 7 kinds |
| `console` | the cursor stays on the screen; refinement of `Teletype`; strings are not mixed | 3 x 2 cells, 2 CPUs with 2 calls each, 4 strings |
| `libc` | copying, searching, comparing, globbing and printing give what their reference definitions say, and stay in their buffers | every call in 6 bytes of memory or on strings of up to 3; about 1000 directives, 3 buffer sizes |
| `exceptions` | frames describe the exception, guarded code resumes intact, the recorded vector is right, every exception ends | 2 CPUs, vectors 0 to 20, 2 steps of the BSP and one of an AP |

Runs that end in a violation, each a disagreement between the code and what it
or its documentation says:

| run | what happens |
|---|---|
| `smp_icr_store` | no fence between `ipi_done = 0` and the x2APIC ICR write: the store may overwrite the answer, and the sender waits forever |
| `heap_exhausted` | `install_pte()` uses page 0 as a table when memory has run out |
| `session_pin` | the wait of 60000000000 cycles ends when the low word wraps, before the VCPUs are pinned |
| `mp_unknown` | an unknown entry keeps `mpinit()` in its loop, and the panic message is never printed |

Observations that need no run of their own:

* `ipi_done` is set before the EOI and the `iretq`, so the target of the next IPI
  need not be in the halt state the documentation speaks of.
* `startothers()` goes on when `started` is set, which is before the AP's
  `enable_x2apic()`, although the comment says "wait for cpu to finish mpenter()"
  (`main.c:73`).
* `on_cpu(1)` of the ipi benchmark takes `cpus[1]` for another processor.  With the BSP
  at that place it interrupts itself, with interrupts disabled, and waits forever
  (`SenderGetsResponse` is violated for `NCpu = 2`, `Boot = 1`); the branch for that case
  is commented out (`mp.c:95`).
* After `mpconfig()` has refused a table, `mpinit()` goes on and loads `lapic` through
  the null pointer (`mp.c:269`); the `panic()` in front of it is commented out.
* `mpsearch()` looks at the ROM from 0xF0000, the comment says 0xE0000 (`mp.c:183`).
* The host takes its stamps when it reads the marks, which may be after the kernel
  has ended.
* `%05d` of a negative number puts the zeros in front of the sign; the reference in
  `PrintsExpected` says so too.
* The vector of #DE is 0, so `exception_vector()` cannot tell it from no exception.
* A report printed while its processor holds the lock of `printf()` waits for
  itself: `EveryExceptionEnds` names this one case (`LockLost`).

**Bounds.**  Four CPUs give an AP behind, at and ahead of the loop of `startothers()`,
and an IPI target that is not the last AP; positions of the BSP first and last
exercise both sides of the skipped entry.  Three iterations are one more than the
handshake needs to meet the end of the previous call, since a call leaves no more than
one interrupt behind.  Page tables need more than one level and a top table that is
only partly filled; 6 × 6 × 6 with 90 pages gives both.  Of the memory sizes 82 is the
smallest that suffices, and 90 is one for which the sufficient condition of the proofs
(`MemorySuffices`) holds.  In `session` there is a benchmark of each kind that the
line can tell apart: one whose kernel prints, one whose `init()` may, one that never
does (`EveryKind` says that the linked ones are of these kinds). Four atoms are less
than any line of text, so that every place of it can be hit, and a loss can come
before, inside and after any row; with a fast host nothing is lost. `FewLosses` cuts
off behaviours behind the second loss (`MaxLost`): the properties speak of what was
sent before the first, and one more shows that later ones do not reach back; progress
is checked for the behaviours with at most two.  The proofs have no such bound.
`session_pin` has a line that does not fill.  `LowWord < PinWait` keeps the relation
of 2^32 to 60000000000, so the wait can end only by wrapping.  Three entries with
`NCPU = 2` include a table with one processor too many.  Four strings of up to three
characters wrap a row of two, scroll a screen of three more than once, and overwrite
after `\r`.  Six bytes hold every relation of two areas of up to three bytes.  Eight
bits hold the smallest number, three decimal digits and two hexadecimal ones, and
differ from the six of `int`, which hold a width of two digits; the buffers are
smaller than, as large as and larger than the text.  Two steps of one processor and
one of another let each be inside a guarded instruction or a `printf()` while the
other raises an exception.

**Deadlock** is checked in every run but `smp_icr_store`, where the hang it shows
leaves no step at all: the sender waits and everyone else is halted.

**Fairness.**  `Smp`: weak fairness of the BSP and of each AP (each is a processor
of its own that keeps executing), of message acceptance and of the store buffer
(hardware delivers both in finite time).  Nothing is assumed about their order.
`Session`: weak fairness of the guest and of the host, two scheduled programs; none
for `Die`.  `MpTable`: weak fairness of the only program there is.  `Exceptions`:
weak fairness of a processor that handles an exception or is inside `printf()`;
none for the program, which need not go on.  Weak fairness of `ReportBegins` is
enough although the lock comes and goes, since each processor prints finitely
often.  `Console`, `Strings` and `Printf` are checked for safety only.  No strong
fairness is needed.  Safety is checked without relying on any of this.

## 4. Proofs

Each theorem holds for all values of the constants that satisfy the named assumption of
its module (`SmpAssumption`, `HeapAssumption`, ...); TLC evaluates these assumptions in
every run.  None of the properties is inductive as it stands.  Every proof has a lemma
for the initial state, lemmas for groups of actions with a step per action and below
it one per part the action can disturb, and a last step that combines them.

| module | theorems | of |
|---|---|---|
| `SmpProofs` | `Invariance`, `TypeCorrect`, `MmioSafe`, `OpsSafe`, `FaultFree`, `StartedTruthful`, `StacksSafe`, `SerialStart`, `OneRunPerCall`, `NoCoalescing` | `NCpu` in 2..64, any position of the BSP, with and without x2APIC, whether or not the ICR write drains stores, any number of iterations |
| `SessionProofs` | `SessionTypeOK`, `SessionRowsFaithful`, `SessionNothingLost` | any number of benchmarks, any of them printing in `init()` or in its kernel, a line of any size that loses any number of atoms, a machine that may die anywhere |
| `ConsoleProofs` | `ConsoleTypeOK`, `ConsoleStringsWhole`, `ConsoleRefinesTeletype` | any screen, any number of processors, calls and strings |
| `HeapProofs` | `HeapFreeListSound`, `HeapStartTablesRestored`, `HeapTakesNoMore` | any memory, any number of levels and entries, any list of benchmarks |
| | `HeapTypeOK`, `HeapIdentityMapped`, `HeapIoPagesMapped`, `HeapRefinesAddressSpace` | the same, as long as the free list is not empty |
| | `HeapMemoryLasts`, `HeapEnoughMemory` | a memory larger than the tables of all benchmarks |
| `MpTableProofs` | `MpTypeOK`, `MpCpusAreProcessors` | any firmware image, a table of any length, any `NCPU` |
| `ExceptionsProofs` | `ExceptionsFrameDescribes`, `ExceptionsResumesIntact`, `ExceptionsVectorOfGuarded` | any number of processors, any initial stack and registers, any number of steps |
| `LibcProofs` | `StringsMoveKeepsSource`, `StringsWritesTarget` | any memory, any legal placement of the areas |
| | `StringsAnswersByPosition`, `StringsGlobMatches` | strings of any length below `SIZE_MAX`, over any bytes |
| | `PrintfStaysInBuffer` | any format, arguments and size |
| | `PrintfBinstrFills` | any argument, any width of a long that is a multiple of four |
| | `PrintfPrintsExpected` | any number of directives that C gives a meaning, any width that fits an `int`, any text, argument and size |

**`Smp`.**  `IInv` adds to `TypeOK`:

* `ApState`, `BspState`: what a CPU has done (stack, IDT, APIC, mode, `started`) is
  a function of where it is, so that a stale flag or a second run of the trampoline
  is excluded; the stack of an AP is the top minus the APs before it, which gives
  distinctness;
* `BringUp`: APs behind `cur` are up, APs ahead untouched, and the inbox of the one
  at `cur` has one of the few contents the messages sent so far allow; a second
  STARTUP always finds the AP out of the state in which it would be accepted;
* `Handshake`: between sending and the store to `ipi_done` the request is in exactly
  one of three places (on its way, requested, entered), `handled = i` and `ipi_done`
  is or will be 0; otherwise there is no request.

**`Session`.**  Once it is known which benchmarks print, the whole text is known in
advance: `Text(pr, n)` is its n-th atom and `Start(pr, k)` where benchmark k begins.
While all goes well (`InStep`) the line and the string being sent are adjacent pieces
of that text, the second ending where the harness's control point says (`Emitted`),
and the host's control point, line, words, stamps and rows are those of a host that
has read the text up to the first (`HostAt`).  A host step is then a fact about the
text around one position.  A loss does not end this phase: what was in the line before
the overwritten place is still the text up to some position m (`Front`), `whole` is a
benchmark whose `]` lies at or before m (`Taken`), and since the host takes from the front and the
port only ever changes the last place, m never goes back.  The phase ends when the host
has read beyond m (`Passed`): it then has the right rows of all benchmarks up to
`whole` (`HostBehind`), and rows are only added.  Three other phases need no loss: the
input was cut off before the end of the text (`CutOff`: the rows are right but for the
stamps of the last), an `init()` printed where a number was due (`Astray`), or the last
line has been seen (`Complete`).  `NothingLost` excludes the second, and `HostBound` says
why there is no other: the host never stands at the end of the text, since the second
copy of the last line is still to come.

**`Console`.**  The processor behind the lock is the only one not waiting or idle, and
holds the rest of its string, which gives `StringsWhole`.  For the refinement, the cells
below the cursor's row are blank and `gone` followed by the rows down to the cursor is
the paper; scrolling moves one row from the screen to `gone` and leaves that sequence
alone.  The proof turned up a precedence error in an earlier version of `Glyph`.

**`Heap`.**  `Chain`: in every free page the first word is the address of the next one.
`Ranked`: pages can be given levels such that an entry of a table points to a page one
level below; tables lie below the head of the free list.  That the list and the tables
are disjoint follows by induction over the list (`FreeAt`) and over levels.  The
theorem covers an exhausted heap: then the list is empty and shares nothing.  Where a
benchmark begins and ends follows from the control points alone.

What the tables translate (`TInv`) needs more.  `Path` is the table that each level of
the walk meets for an address; `Apart` says that the paths of two addresses meet in a
page only if the addresses agree in the digits above it, so that writing an entry
changes the translation of the addresses below that entry and of no other.  `MapInv`
then says what is mapped at each control point: the identity up to `Low`, which is how
far the loop of `setup_mmu()` has come, the pages added by the benchmark (`High`), and
nothing else.  From there `IdentityMapped`, `IoPagesMapped` and every step of the
refinement are facts about one state or one write.  All of this holds only while the
free list is not empty, since `install_pte()` does not look at the result of
`heap_alloc_page()` (`heap_exhausted` shows what happens then), so it is part of the
theorems.  `VPagesAssumption` says that the pages the benchmarks add fit between the
identity map and the top of the address space: 2^36 pages against 2^21 and two pages per
benchmark.

How much memory is enough is then a theorem too.  `CountInv`: the head of the free list
is at most `Used` pages behind the start of the heap, where `Used` counts the tables
that the loops so far need.  Its core is `FirstOfTable`: the loop finds a table missing
only at the first address that the table covers, so `n` pages cost one table per level
and started span (`Tables`).  With `MemorySuffices` the list is therefore never empty
(`HeapMemoryLasts`), and the other theorems hold without a condition on the behaviour
(`HeapEnoughMemory`).  With 512 entries and 4 levels a benchmark that maps 4 GiB needs
2054 pages, one that maps 8 GiB 4106, and each page it adds at most three more: the 14
linked benchmarks together need 18502 pages, about 73 MiB; `hyperbench.hvm` gives the
virtual machine 4096 MB and `script/qemu` 20480.

**`MpTable`.**  After k entries of the table the offset is the sum of their sizes, `ncpu`
counts the processors among them as far as they fit, and `cpus[]` holds their ids
(`Walked`); the count of `ProcsUpTo` grows by one exactly at a processor entry.

**`Exceptions`.**  Per processor and control point, what is on the stack: the frame the
processor pushed, below it what the stub has pushed so far, below that what C code left;
registers are those of the interrupted code except where C code may have changed them
and the frame holds the old value.  `gs4` belongs to its last `recorder`.

**`Strings`.**  At each step of a loop the bytes already copied have arrived, the bytes
still to be copied are unchanged, and nothing else is touched (`Copied`); for `memmove`
the direction guarantees that a byte is written only after it has been read.  `strcpy`
and `strcat` copy as many bytes as there are up to the first NUL (`Appended`).  The
functions that only read are loops that stop at the first place with some property (a
byte found, a difference, a NUL); that such a loop ends there is proved once
(`SearchFinds`), and each function is then a fact about that place.  `strstr` is a search
whose test is a comparison, `simple_glob` a `strstr` or a comparison of the pattern
without its stars.  `MaxLen < SIZE_MAX` is what `size_t` needs to count a string.

**`Printf`.**  `InBuffer`: the buffer holds as many characters as were added or as many
as fit in front of the NUL, and `remain` is what is left.  `addchars` keeps it for any
text, so what remains is to show that every directive adds a text: that the digits of a
number (`LowFirst`), the padding, `binstr` and the number that `fmtnum` reads are
sequences and numbers at all, for any argument and width, the smallest number with its
junk digits included.  `PrintfAssumption` says no more of a call than that its format is
made of directives with arguments of the right type, and of the widths that a long is a
whole number of groups and its text fits in the buffer of `printf()`.

For `BinstrFills`, the text of the first n bits (`Grouped`) has its separators in every
fifth place and bit k - k \div 5 in every other place k, so that reading it back doubles
and adds one bit at a time: after each place the value is x without its lower bits
(`ReadsBits`).  That this text arrives whole is a fact about the one directive `%s` of the
call (`BinstrInv`): no character of it is NUL, and it is shorter than the buffer.

For `PrintsExpected`, a call of n directives has a plan: `F[k]`, what the format is after
directive k, `A[k]`, the arguments that are left, and `T[k]`, the text due so far.
`PrintInv` says where the call stands in its plan (`Where`): in the text in front of
directive k, at its `#`, at its number, at its modifiers or conversion, at the end, or
done.  At each place the rest of the format begins where the directive's own spelling
has been read up to, `props` and `nlong` are what the part already read says, nothing of
the directive before included, the arguments are `A[k-1]`, and the buffer is the text due
cut to its size (`Given`).  What is left is a fact per stage:

* `fmtnum` reads back the decimal spelling of the width (`FmtReads`), and stops at the
  character behind it, since none of those is a digit;
* the digits found by repeated division, last one first, are the digits by place value
  of the reference (`Lows`), in base 10 and 16; the sign, `0x` and the padding are added
  in the order that the reference lays them out in (`Laid`), the zeros behind `0x`
  included, for which `print_unsigned()` takes two from the width;
* a negative number is negated as a `long long`, which the smallest one cannot be: it is
  left out;
* adding a text to a cut text is cutting the longer text, so that directives may be taken
  one at a time (`AddsGiven`);
* blanks, a sign and digits are a text that `atol()` reads as the number (`PiecesRead`).

The conditions of the theorem are those of `LegalJob` in `Printf`: flags and modifiers
that go together, numbers of the argument's type, text without `%` and NUL.  The proof
showed the cases of `TextOf` to overlap (`%c` with a flag, which the code ignores), where a
`CASE` leaves the choice open; they are now tried in order.

**`LeastNumber`** proves that a nonempty set of numbers has a least element, and from it
induction for sets, the equation of a recursive function, what a search loop finds, and
the laws of repeated division.
Facts about a recursive definition for every input (`FreeAt`, `Span`, `Tables`, the end of
a C string, the digits of a number) rest on it.

Only model-checked, since the prover does not reach fairness: the liveness properties
`SenderGetsResponse`, `Quiesces`, `WaitEnds`, `HostSettles`, `ReturnsIfKnown` and
`EveryExceptionEnds`.

## 5. Not modelled

* The BSP at `cpus[1]` in a run; the safety properties are proved for it too.
* A memory size that is not a multiple of the page size (`heap.c:58` compares with
  `!=`): `Heap` counts in pages.
* The asm statements of `sgdt.c` and `sidt.c` name the operand as an output only; the
  store goes wherever the register points.  `Heap` assumes it hits no page table.
* The size of stacks: `printf()` has 2000 bytes of its own, an AP has 4096.
* `snprintf()` with a size of 0, which nobody calls and whose `remain` is negative.
* The bare-metal build of the harness, which times itself.
* A second exception inside a handler: interrupts are off there, and a fault would
  be one in the code of the handler itself.
* The branch of `print_serial()` under `USE_SERIAL`, with `serial_init()` and
  `serial_outb()`: not compiled or not called in this build.
* `lib/stack.c` and `lib/abort.c` (reached from a failed `assert` only), the I/O APIC
  functions, `hypercall.c`, `idt_test.c`, `entryother.S`: never called or not built.
  Most of `msr.h`, `apic.h`, `desc.h` and `atomic.h` are constants, layouts and single
  instructions.  Mode switch of the BSP, baud rate, the timed instructions themselves.

## 6. Plan

Done, in this order: `Smp` with its invariant and proofs; `AddressSpace`, `Heap`;
`Benchmarks`; `Session`; `MpTable`; absent processors in `Smp`; `Teletype`, `Console`;
`Strings`; `Printf`; `Exceptions`.

Then the proofs, in this order: `Console`, `Strings` (writing), `Exceptions`, `Heap` (free
list), `MpTable`, `Session`, `Heap` (translations, refinement, number of pages), `Strings`
(reading), `Printf` (buffer, `print_binstr`, the text of any call).

Next: a composition of `Heap` and `Session`, in which running out of memory is what prints
into the host's line.
