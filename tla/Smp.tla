-------------------------------- MODULE Smp --------------------------------
(***************************************************************************)
(* Multiprocessor start-up and the inter-processor-interrupt handshake.     *)
(*                                                                         *)
(* The boot processor (BSP) runs main(): it enables its local APIC, starts  *)
(* every application processor (AP) in turn with INIT and two STARTUP       *)
(* messages, switches itself to x2APIC mode and then runs the ipi           *)
(* benchmark, which interrupts cpus[1] a fixed number of times.  An AP runs *)
(* the trampoline of cstart.S, mpenter() and an idle loop in which it takes *)
(* interrupts.  All processors share memory: the started flags, the apic_ops*)
(* pointer, boot_idt, smp_stacktop, ipi_lock and ipi_done.                  *)
(*                                                                         *)
(* A processor is identified with its index in cpus[].  The local APICs and *)
(* the messages between them are hardware (external): a message is put in   *)
(* the destination's inbox and accepted later, in order.                    *)
(***************************************************************************)
EXTENDS Integers, Sequences

CONSTANTS
    NCpu,             \* ncpu: processors found in the MP table
    Boot,             \* index in cpus[] of the boot processor
    X2ApicSupported,  \* cpuid leaf 1, ecx bit 21
    IcrDrainsStores,  \* a wrmsr to the x2APIC ICR waits for earlier stores
                      \* (true when it traps to a hypervisor; the processor
                      \* itself does not promise it)
    Iterations        \* ITERATION of the ipi benchmark

\* The size of cpus[]; mpinit() enters no processor beyond it.
NCPU == 64

ASSUME SmpAssumption ==
    /\ NCpu \in 2 .. NCPU
    /\ Boot \in 0 .. NCpu - 1
    /\ X2ApicSupported \in BOOLEAN
    /\ IcrDrainsStores \in BOOLEAN
    /\ Iterations \in Nat \ {0}

CPU == 0 .. NCpu - 1
AP == CPU \ {Boot}

\* The processor on_cpu() interrupts: ipi.c passes the literal 1.
IpiTarget == 1

\* smp_stacktop starts at 0xa0000; stacks are counted in pages of 4096 bytes.
StackTop == 160

VARIABLES
    bpc,          \* control point of the BSP
    cur,          \* c - cpus, the loop variable of startothers()
    i,            \* the loop variable of the ipi benchmark
    apc,          \* control point of each AP
    inbox,        \* INIT, STARTUP and fixed interrupts on their way to a CPU
    mode,         \* IA32_APIC_BASE of each CPU: "xapic" or "x2apic"
    svr,          \* is the local APIC software-enabled (register 0xf0)?
    idtr,         \* does the CPU's IDTR point to boot_idt?
    apic_ops,     \* the shared table of APIC accessors in use
    started,      \* cpus[c].started
    smp_stacktop, \* next stack to hand out
    esp,          \* stack each AP runs on; 0 before it took one
    gate,         \* boot_idt[IPI_VECTOR], shared by all CPUs
    irr, isr,     \* the IPI vector requested / in service at each local APIC
    ipi_lock,
    ipi_done,     \* its value in memory
    sbuf,         \* the BSP's store ipi_done = 0 is still in its store buffer
    handled       \* history: how often the handler has set ipi_done

bootVars == <<cur, started, smp_stacktop, esp>>
apicVars == <<mode, svr, idtr, apic_ops>>
intrVars == <<gate, irr, isr>>
ipiVars  == <<i, ipi_lock, ipi_done, sbuf, handled>>
vars == <<bpc, apc, inbox, bootVars, apicVars, intrVars, ipiVars>>

BspPc == {"enable_apic", "loop", "sipi1", "sipi2", "wait_started", "x2_msr",
          "x2_ops", "setup_idt", "gate", "present", "offset", "lock", "clear",
          "icr", "wait_done", "unlock", "done", "fault"}

ApPc == {"absent", "parked", "wait_sipi", "stack", "print", "lidt", "enable_apic",
         "xchg", "x2_msr", "x2_ops", "sti", "running", "hlt",
         "h_done", "h_eoi", "h_iret", "fault"}

\* mpinit() enters every processor of the table, its enabled flag unread: one
\* of them may be absent and never answer.
Init ==
    /\ bpc = "enable_apic"
    /\ cur = 0
    /\ i = 0
    /\ apc \in [AP -> {"absent", "parked"}]
    /\ inbox = [c \in CPU |-> <<>>]
    /\ mode = [c \in CPU |-> "xapic"]
    /\ svr = [c \in CPU |-> FALSE]
    /\ idtr = [c \in CPU |-> FALSE]
    /\ apic_ops = "xapic"
    /\ started = [c \in CPU |-> 0]
    /\ smp_stacktop = StackTop
    /\ esp = [a \in AP |-> 0]
    /\ gate = "absent"
    /\ irr = [c \in CPU |-> FALSE]
    /\ isr = [c \in CPU |-> FALSE]
    /\ ipi_lock = 0
    /\ ipi_done = 0
    /\ sbuf = FALSE
    /\ handled = 0

-----------------------------------------------------------------------------
(* Helpers. *)

Goto(to) == bpc' = to
BspStep(from, to) == bpc = from /\ Goto(to) /\ UNCHANGED apc
ApStep(a, from, to) == apc[a] = from /\ apc' = [apc EXCEPT ![a] = to] /\ UNCHANGED bpc

\* mycpu(): the entry of cpus[] whose APIC id the memory-mapped ID register
\* shows.  The register page is dead in x2APIC mode: any entry may then
\* match, or none, and the function falls off its end.
NoCpu == NCpu
mycpu(c) == IF mode[c] = "xapic" THEN {c} ELSE CPU \cup {NoCpu}

\* lapicw() to the ICR: a memory-mapped write, lost in x2APIC mode.
lapicw(dest, msg) ==
    inbox' = IF mode[Boot] = "xapic"
             THEN [inbox EXCEPT ![dest] = Append(@, msg)] ELSE inbox

\* xapic_write(0xf0, 0x1ff) of enable_apic(): a memory-mapped write too.
enable_apic(c) ==
    svr' = IF mode[c] = "xapic" THEN [svr EXCEPT ![c] = TRUE] ELSE svr

-----------------------------------------------------------------------------
(* The boot processor: main() up to harness_main(). *)

BspEnableApic ==
    /\ BspStep("enable_apic", "loop")
    /\ enable_apic(Boot)
    /\ UNCHANGED <<inbox, bootVars, mode, idtr, apic_ops, intrVars, ipiVars>>

\* startothers(): skip our own entry ...
SkipSelf ==
    /\ BspStep("loop", "loop")
    /\ cur < NCpu
    /\ cur \in mycpu(Boot)
    /\ cur' = cur + 1
    /\ UNCHANGED <<inbox, started, smp_stacktop, esp, apicVars, intrVars, ipiVars>>

\* ... reset any other one: INIT assert and deassert of lapicstartap() ...
SendInit ==
    /\ BspStep("loop", "sipi1")
    /\ cur < NCpu
    /\ \E m \in mycpu(Boot) : m # cur
    /\ lapicw(cur, "INIT")
    /\ UNCHANGED <<bootVars, apicVars, intrVars, ipiVars>>

\* ... and send it two STARTUP messages, without any delay between them.
SendSipi1 ==
    /\ BspStep("sipi1", "sipi2")
    /\ lapicw(cur, "SIPI")
    /\ UNCHANGED <<bootVars, apicVars, intrVars, ipiVars>>

SendSipi2 ==
    /\ BspStep("sipi2", "wait_started")
    /\ lapicw(cur, "SIPI")
    /\ UNCHANGED <<bootVars, apicVars, intrVars, ipiVars>>

\* Mutant: start the next CPU without waiting for this one.
WaitStartedNot ==
    /\ BspStep("wait_started", "loop")
    /\ cur' = cur + 1
    /\ UNCHANGED <<inbox, started, smp_stacktop, esp, apicVars, intrVars, ipiVars>>

WaitStarted ==
    /\ BspStep("wait_started", "loop")
    /\ started[cur] # 0
    /\ cur' = cur + 1
    /\ UNCHANGED <<inbox, started, smp_stacktop, esp, apicVars, intrVars, ipiVars>>

\* while (c->started == 0), without a time-out.
SpinStarted ==
    /\ bpc = "wait_started" /\ started[cur] = 0
    /\ UNCHANGED vars

\* Mutant: main() without its own enable_x2apic().
StartothersDoneNoX2 ==
    /\ BspStep("loop", "setup_idt")
    /\ cur = NCpu
    /\ UNCHANGED <<inbox, bootVars, apicVars, intrVars, ipiVars>>

StartothersDone ==
    /\ BspStep("loop", IF X2ApicSupported THEN "x2_msr" ELSE "setup_idt")
    /\ cur = NCpu
    /\ UNCHANGED <<inbox, bootVars, apicVars, intrVars, ipiVars>>

\* enable_x2apic(): the MSR of this CPU first, the shared pointer after it.
BspX2Msr ==
    /\ BspStep("x2_msr", "x2_ops")
    /\ mode' = [mode EXCEPT ![Boot] = "x2apic"]
    /\ UNCHANGED <<inbox, bootVars, svr, idtr, apic_ops, intrVars, ipiVars>>

BspX2Ops ==
    /\ BspStep("x2_ops", "setup_idt")
    /\ apic_ops' = "x2apic"
    /\ UNCHANGED <<inbox, bootVars, mode, svr, idtr, intrVars, ipiVars>>

-----------------------------------------------------------------------------
(* The boot processor: the ipi benchmark. *)

\* smp_init(): setup_idt() fills vectors 0..31 and loads the IDTR ...
\* Mutant: smp_init() without set_idt_entry(IPI_VECTOR, ...).
SetupIdtOnly ==
    /\ BspStep("setup_idt", "lock")
    /\ idtr' = [idtr EXCEPT ![Boot] = TRUE]
    /\ UNCHANGED <<inbox, bootVars, mode, svr, apic_ops, intrVars, ipiVars>>

SetupIdt ==
    /\ BspStep("setup_idt", "gate")
    /\ idtr' = [idtr EXCEPT ![Boot] = TRUE]
    /\ UNCHANGED <<inbox, bootVars, mode, svr, apic_ops, intrVars, ipiVars>>

\* ... and set_idt_entry() writes the IPI gate field by field, in a table the
\* other CPUs have already loaded: cleared, present, then the high offset.
GateClear ==
    /\ BspStep("gate", "present")
    /\ gate' = "absent"
    /\ UNCHANGED <<inbox, bootVars, apicVars, irr, isr, ipiVars>>

GatePresent ==
    /\ BspStep("present", "offset")
    /\ gate' = "partial"
    /\ UNCHANGED <<inbox, bootVars, apicVars, irr, isr, ipiVars>>

GateOffset ==
    /\ BspStep("offset", "lock")
    /\ gate' = "set"
    /\ UNCHANGED <<inbox, bootVars, apicVars, irr, isr, ipiVars>>

\* One iteration of the benchmark is one __on_cpu().
SpinLock ==
    /\ BspStep("lock", "clear")
    /\ i < Iterations
    /\ ipi_lock = 0
    /\ ~sbuf                          \* a locked instruction drains the buffer
    /\ ipi_lock' = 1
    /\ UNCHANGED <<inbox, bootVars, apicVars, intrVars, i, ipi_done, sbuf, handled>>

\* Mutant: ipi_done is not cleared before the interrupt is sent.
ClearDoneNot ==
    /\ BspStep("clear", "icr")
    /\ UNCHANGED <<inbox, bootVars, apicVars, intrVars, ipiVars>>

ClearDone ==
    /\ BspStep("clear", "icr")
    /\ sbuf' = TRUE                   \* ipi_done = 0
    /\ UNCHANGED <<inbox, bootVars, apicVars, intrVars, i, ipi_lock, ipi_done, handled>>

\* The store leaves the BSP's store buffer at any later moment.
DrainStore ==
    /\ sbuf
    /\ sbuf' = FALSE
    /\ ipi_done' = 0
    /\ UNCHANGED <<bpc, apc, inbox, bootVars, apicVars, intrVars, i, ipi_lock, handled>>

\* apic_icr_write() through the shared accessors.  The xAPIC one polls the
\* delivery status and is ordered after earlier stores.  A memory-mapped
\* write is lost in x2APIC mode, an MSR write faults in xAPIC mode.
IcrBusy == \E c \in CPU : inbox[c] # <<>>

IcrWrite ==
    /\ bpc = "icr"
    /\ apic_ops = "xapic" => ~IcrBusy
    /\ apic_ops = "xapic" \/ IcrDrainsStores => ~sbuf
    /\ Goto(IF apic_ops = "x2apic" /\ mode[Boot] = "xapic" THEN "fault" ELSE "wait_done")
    /\ inbox' = IF apic_ops = mode[Boot]
                THEN [inbox EXCEPT ![IpiTarget] = Append(@, "FIXED")] ELSE inbox
    /\ UNCHANGED <<apc, bootVars, apicVars, intrVars, ipiVars>>

\* Mutant: __on_cpu() does not wait for the handler.
WaitDoneNot ==
    /\ BspStep("wait_done", "unlock")
    /\ UNCHANGED <<inbox, bootVars, apicVars, intrVars, ipiVars>>

WaitDone ==
    /\ BspStep("wait_done", "unlock")
    /\ ~sbuf                          \* until then the BSP reads its own 0
    /\ ipi_done # 0
    /\ UNCHANGED <<inbox, bootVars, apicVars, intrVars, ipiVars>>

SpinUnlock ==
    /\ BspStep("unlock", "lock")
    /\ ipi_lock' = 0
    /\ i' = i + 1
    /\ UNCHANGED <<inbox, bootVars, apicVars, intrVars, ipi_done, sbuf, handled>>

BenchmarkDone ==
    /\ BspStep("lock", "done")
    /\ i = Iterations
    /\ UNCHANGED <<inbox, bootVars, apicVars, intrVars, ipiVars>>

\* main() after harness_main(): platform_shutdown(), or while(1).
Shutdown == bpc = "done" /\ UNCHANGED vars

-----------------------------------------------------------------------------
(* An application processor. *)

Arrives(c, msg) == inbox[c] # <<>> /\ Head(inbox[c]) = msg
Consume(c) == inbox' = [inbox EXCEPT ![c] = Tail(@)]

\* INIT resets the CPU and its local APIC, all but its x2APIC mode.
AcceptInit(c) ==
    /\ Arrives(c, "INIT")
    /\ apc[c] # "absent"
    /\ Consume(c)
    /\ apc' = [apc EXCEPT ![c] = "wait_sipi"]
    /\ svr' = [svr EXCEPT ![c] = FALSE]
    /\ idtr' = [idtr EXCEPT ![c] = FALSE]
    /\ irr' = [irr EXCEPT ![c] = FALSE]
    /\ isr' = [isr EXCEPT ![c] = FALSE]
    /\ UNCHANGED <<bpc, bootVars, mode, apic_ops, gate, ipiVars>>

\* STARTUP is accepted only in the state INIT leaves, and ignored otherwise.
AcceptSipi(c) ==
    /\ Arrives(c, "SIPI")
    /\ Consume(c)
    /\ apc' = [apc EXCEPT ![c] = IF @ = "wait_sipi" THEN "stack" ELSE @]
    /\ UNCHANGED <<bpc, bootVars, apicVars, intrVars, ipiVars>>

\* A fixed interrupt reaches the IRR of a software-enabled local APIC.
AcceptFixed(c) ==
    /\ Arrives(c, "FIXED")
    /\ Consume(c)
    /\ irr' = [irr EXCEPT ![c] = @ \/ svr[c]]
    /\ UNCHANGED <<bpc, apc, bootVars, apicVars, gate, isr, ipiVars>>

\* Mutant: the AP reads smp_stacktop and does not write it back.
TakeStackNoWriteBack(a) ==
    /\ ApStep(a, "stack", "print")
    /\ esp' = [esp EXCEPT ![a] = smp_stacktop]
    /\ UNCHANGED <<inbox, cur, started, smp_stacktop, apicVars, intrVars, ipiVars>>

\* ap_start32: lock xaddl takes the next stack.
TakeStack(a) ==
    /\ ApStep(a, "stack", "print")
    /\ esp' = [esp EXCEPT ![a] = smp_stacktop]
    /\ smp_stacktop' = smp_stacktop - 1
    /\ UNCHANGED <<inbox, cur, started, apicVars, intrVars, ipiVars>>

\* Mutant: the xchg on started comes first in mpenter().
MpenterPrintStarted(a) ==
    /\ ApStep(a, "print", "lidt")
    /\ started' = [started EXCEPT ![a] = 1]
    /\ UNCHANGED <<inbox, cur, smp_stacktop, esp, apicVars, intrVars, ipiVars>>

\* mpenter(): the cpu%d message looks up mycpu() and changes no state.
MpenterPrint(a) ==
    /\ ApStep(a, "print", "lidt")
    /\ UNCHANGED <<inbox, bootVars, apicVars, intrVars, ipiVars>>

MpenterLidt(a) ==
    /\ ApStep(a, "lidt", "enable_apic")
    /\ idtr' = [idtr EXCEPT ![a] = TRUE]
    /\ UNCHANGED <<inbox, bootVars, mode, svr, apic_ops, intrVars, ipiVars>>

\* Mutant: enable_x2apic() comes before the xchg on started.
MpenterEnableBoth(a) ==
    /\ ApStep(a, "enable_apic", "xchg")
    /\ enable_apic(a)
    /\ mode' = [mode EXCEPT ![a] = IF X2ApicSupported THEN "x2apic" ELSE @]
    /\ apic_ops' = IF X2ApicSupported THEN "x2apic" ELSE apic_ops
    /\ UNCHANGED <<inbox, bootVars, idtr, intrVars, ipiVars>>

\* Mutant: mpenter() leaves the local APIC software-disabled.
MpenterEnableNot(a) ==
    /\ ApStep(a, "enable_apic", "xchg")
    /\ UNCHANGED <<inbox, bootVars, apicVars, intrVars, ipiVars>>

MpenterEnableApic(a) ==
    /\ ApStep(a, "enable_apic", "xchg")
    /\ enable_apic(a)
    /\ UNCHANGED <<inbox, bootVars, mode, idtr, apic_ops, intrVars, ipiVars>>

\* xchg(&(mycpu()->started), 1)
MpenterXchg(a) ==
    /\ ApStep(a, "xchg", IF X2ApicSupported THEN "x2_msr" ELSE "sti")
    /\ \E m \in mycpu(a) :
          started' = [c \in CPU |-> IF c = m THEN 1 ELSE started[c]]
    /\ UNCHANGED <<inbox, cur, smp_stacktop, esp, apicVars, intrVars, ipiVars>>

ApX2Msr(a) ==
    /\ ApStep(a, "x2_msr", "x2_ops")
    /\ mode' = [mode EXCEPT ![a] = "x2apic"]
    /\ UNCHANGED <<inbox, bootVars, svr, idtr, apic_ops, intrVars, ipiVars>>

ApX2Ops(a) ==
    /\ ApStep(a, "x2_ops", "sti")
    /\ apic_ops' = "x2apic"
    /\ UNCHANGED <<inbox, bootVars, mode, svr, idtr, intrVars, ipiVars>>

\* ap_start64: sti, nop, then hlt in a loop.
Sti(a) ==
    /\ ApStep(a, "sti", "running")
    /\ UNCHANGED <<inbox, bootVars, apicVars, intrVars, ipiVars>>

Hlt(a) ==
    /\ ApStep(a, "running", "hlt")
    /\ UNCHANGED <<inbox, bootVars, apicVars, intrVars, ipiVars>>

\* The CPU takes the interrupt through boot_idt; without a complete gate it
\* faults again and again.
TakeInterrupt(a) ==
    /\ apc[a] \in {"running", "hlt"}
    /\ irr[a] /\ ~isr[a]
    /\ apc' = [apc EXCEPT ![a] =
                 IF idtr[a] /\ gate = "set" THEN "h_done" ELSE "fault"]
    /\ irr' = [irr EXCEPT ![a] = FALSE]
    /\ isr' = [isr EXCEPT ![a] = TRUE]
    /\ UNCHANGED <<bpc, inbox, bootVars, apicVars, gate, ipiVars>>

\* ipi(): ipi_done = 1 ...
IpiSetDone(a) ==
    /\ ApStep(a, "h_done", "h_eoi")
    /\ ipi_done' = 1
    /\ handled' = handled + 1
    /\ UNCHANGED <<inbox, bootVars, apicVars, intrVars, i, ipi_lock, sbuf>>

\* Mutant: the handler returns without an EOI.
IpiEoiNot(a) ==
    /\ ApStep(a, "h_eoi", "h_iret")
    /\ UNCHANGED <<inbox, bootVars, apicVars, intrVars, ipiVars>>

\* ... then apic_write(APIC_EOI, 0) through the shared accessors.
IpiEoi(a) ==
    /\ apc[a] = "h_eoi"
    /\ apc' = [apc EXCEPT ![a] =
                 IF apic_ops = "x2apic" /\ mode[a] = "xapic" THEN "fault" ELSE "h_iret"]
    /\ isr' = [isr EXCEPT ![a] = @ /\ apic_ops # mode[a]]
    /\ UNCHANGED <<bpc, inbox, bootVars, apicVars, gate, irr, ipiVars>>

IpiIret(a) ==
    /\ ApStep(a, "h_iret", "running")
    /\ UNCHANGED <<inbox, bootVars, apicVars, intrVars, ipiVars>>

-----------------------------------------------------------------------------
(* The system. *)

StartNext ==
    \/ BspEnableApic \/ SkipSelf \/ SendInit \/ SendSipi1 \/ SendSipi2
    \/ WaitStarted \/ StartothersDone \/ BspX2Msr \/ BspX2Ops

IpiNext ==
    \/ SetupIdt \/ GateClear \/ GatePresent \/ GateOffset
    \/ SpinLock \/ ClearDone \/ IcrWrite \/ WaitDone \/ SpinUnlock \/ BenchmarkDone

Bsp == StartNext \/ IpiNext

Mpenter(a) ==
    \/ TakeStack(a) \/ MpenterPrint(a) \/ MpenterLidt(a) \/ MpenterEnableApic(a)
    \/ MpenterXchg(a) \/ ApX2Msr(a) \/ ApX2Ops(a)

Idle(a) ==
    \/ Sti(a) \/ Hlt(a) \/ TakeInterrupt(a)
    \/ IpiSetDone(a) \/ IpiEoi(a) \/ IpiIret(a)

Accept(c) == AcceptInit(c) \/ AcceptSipi(c) \/ AcceptFixed(c)

Ap(a) == Mpenter(a) \/ Idle(a)

\* The BSP is never interrupted: it runs with interrupts disabled throughout.
Next ==
    \/ Bsp
    \/ DrainStore
    \/ \E a \in AP : Ap(a)
    \/ \E c \in CPU : Accept(c)
    \/ SpinStarted
    \/ Shutdown

Spec == Init /\ [][Next]_vars

\* Every processor keeps executing, every message and every store arrives.
Fairness ==
    /\ WF_vars(Bsp)
    /\ WF_vars(DrainStore)
    /\ \A a \in AP : WF_vars(Ap(a))
    /\ \A c \in CPU : WF_vars(Accept(c))

FairSpec == Spec /\ Fairness

-----------------------------------------------------------------------------
(* Properties. *)

\* Every variable keeps its type; the benchmark's index never passes ITERATION
\* and the handler never runs more often than that.
TypeOK ==
    /\ bpc \in BspPc
    /\ cur \in 0 .. NCpu
    /\ i \in 0 .. Iterations
    /\ apc \in [AP -> ApPc]
    /\ inbox \in [CPU -> Seq({"INIT", "SIPI", "FIXED"})]
    /\ mode \in [CPU -> {"xapic", "x2apic"}]
    /\ svr \in [CPU -> BOOLEAN]
    /\ idtr \in [CPU -> BOOLEAN]
    /\ apic_ops \in {"xapic", "x2apic"}
    /\ started \in [CPU -> {0, 1}]
    /\ smp_stacktop \in Int
    /\ esp \in [AP -> Int]
    /\ gate \in {"absent", "partial", "set"}
    /\ irr \in [CPU -> BOOLEAN]
    /\ isr \in [CPU -> BOOLEAN]
    /\ ipi_lock \in {0, 1}
    /\ ipi_done \in {0, 1}
    /\ sbuf \in BOOLEAN
    /\ handled \in 0 .. Iterations

\* Whenever a CPU is about to use its memory-mapped registers (lapicid() in
\* mycpu(), enable_apic(), lapicw()), its own local APIC is still in xAPIC
\* mode.  This is the answer to main.c:49, "must behind xchg ..., why?":
\* mycpu() reads the ID register through memory.
MmioOnlyInXapic ==
    /\ bpc \in {"enable_apic", "loop", "sipi1", "sipi2"} => mode[Boot] = "xapic"
    /\ \A a \in AP : apc[a] \in {"print", "enable_apic", "xchg"} => mode[a] = "xapic"

\* apic_ops is one pointer for all CPUs while the mode it stands for is per
\* CPU, and for a while they differ.  They agree on every CPU that is about to
\* use the pointer: the BSP sending an IPI, an AP acknowledging one.
OpsMatchMode ==
    /\ bpc = "icr" => apic_ops = mode[Boot]
    /\ \A a \in AP : apc[a] \in {"h_done", "h_eoi"} => apic_ops = mode[a]

\* No CPU takes an interrupt through a gate that set_idt_entry() has not
\* finished, or uses an APIC MSR in xAPIC mode: APs enable interrupts long
\* before the BSP fills the table they share.
NoFault ==
    /\ bpc # "fault"
    /\ \A a \in AP : apc[a] # "fault"

\* A CPU whose started flag the BSP has seen has its own stack, the shared IDT
\* loaded and its local APIC able to receive: mycpu() marked the right entry,
\* and it did so after all of that.
StartedIsUp ==
    \A a \in AP : started[a] = 1 =>
        /\ esp[a] # 0
        /\ idtr[a] /\ svr[a]
        /\ apc[a] \notin {"absent", "parked", "wait_sipi", "stack", "print", "lidt",
                          "enable_apic", "xchg"}

\* Two APs never share a stack, and the NCpu - 1 stacks from the top suffice:
\* no AP runs the trampoline twice, although each is sent two STARTUP messages.
StacksDistinct ==
    \A a, b \in AP : esp[a] # 0 =>
        /\ smp_stacktop < esp[a] /\ esp[a] <= StackTop
        /\ StackTop - NCpu < esp[a]
        /\ a # b => esp[a] # esp[b]

\* README: "Initialize APs ... in serial mode".  No two APs are between
\* accepting STARTUP and setting started at the same time.
Starting(a) ==
    apc[a] \in {"stack", "print", "lidt", "enable_apic", "xchg"}

SerialBringUp ==
    \A a, b \in AP : Starting(a) /\ Starting(b) => a = b

\* __on_cpu() returns after the handler has run for this very call: an
\* ipi_done left from an earlier interrupt never ends the wait, and a call
\* runs the handler once.
OneHandlerPerCall ==
    /\ bpc = "unlock" => handled = i + 1
    /\ bpc \in {"lock", "clear", "icr", "done"} => handled = i

\* An IPI is never sent while an earlier one is still on its way or pending
\* at the target, where the two would count as one.
NoCoalescedIpi ==
    bpc = "icr" =>
        /\ ~irr[IpiTarget]
        /\ \A k \in 1 .. Len(inbox[IpiTarget]) : inbox[IpiTarget][k] # "FIXED"

\* README, IPI: the benchmark measures the time "until the sending CPU
\* receives the response from the receiving CPU": every IPI gets one.
SenderGetsResponse == bpc = "wait_done" ~> bpc = "unlock"

\* If every processor of the table answers, the BSP comes to the end of the
\* benchmark and every AP ends up halted with nothing pending and no interrupt
\* left unacknowledged.  Otherwise startothers() waits forever for the first
\* one that does not: those before it are up and halted, and no later one is
\* ever woken.
Missing == {a \in AP : apc[a] = "absent"}
Halted(a) == apc[a] = "hlt" /\ ~irr[a] /\ ~isr[a]

Quiesces ==
    \/ <>[](bpc = "done" /\ \A a \in AP : Halted(a))
    \/ <>[](/\ bpc = "wait_started" /\ cur \in Missing
            /\ \A a \in AP : IF a < cur THEN Halted(a) ELSE apc[a] \in {"absent", "parked"})

=============================================================================
