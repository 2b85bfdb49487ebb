----------------------------- MODULE Exceptions -----------------------------
(***************************************************************************)
(* Exceptions, x86_64/desc.c: the processor pushes a frame, a stub for the  *)
(* vector completes it to a struct ex_regs, do_handle_exception() looks for *)
(* a handler, check_exception_table() for a place to resume; an exception   *)
(* nobody handles is printed and the processor loops.                       *)
(*                                                                         *)
(* A stack is a sequence of words, its top last; all words are numbers.     *)
(* The program runs instructions guarded by ASM_TRY and prints; the code of *)
(* the handlers itself raises no exception, and a processor other than the  *)
(* boot processor raises none before setup_idt() has filled the IDT.        *)
(***************************************************************************)
EXTENDS Integers, Sequences, SequencesExt

CONSTANTS
    Cpu, Boot,      \* processors, the one that calls setup_idt()
    Raisable,       \* for each, the vectors its program may raise
    ErrorCodes,     \* error codes the processor pushes
    Table,          \* exception table: a function from rip to handler
    NoCpu,
    MaxSteps        \* for each, guarded instructions and messages of its program

ASSUME ExceptionsAssumption ==
    /\ Boot \in Cpu /\ NoCpu \notin Cpu
    /\ Raisable \in [Cpu -> SUBSET (0 .. 31)]
    /\ ErrorCodes \subseteq Nat
    /\ DOMAIN Table \subseteq Nat \ {0} /\ \A r \in DOMAIN Table : Table[r] \in Nat \ DOMAIN Table
    /\ MaxSteps \in [Cpu -> Nat]

Reg == {"rax", "rcx", "rdx", "rbx", "rbp", "rsi", "rdi",
        "r8", "r9", "r10", "r11", "r12", "r13", "r14", "r15"}

\* What the C code may overwrite.
CallerSaved == Reg \ {"rbx", "rbp", "r12", "r13", "r14", "r15"}

\* struct ex_regs, from its lowest address.
ex_regs == <<"rax", "rcx", "rdx", "rbx", "dummy", "rbp", "rsi", "rdi",
             "r8", "r9", "r10", "r11", "r12", "r13", "r14", "r15",
             "vector", "error_code", "rip", "cs", "rflags">>

\* __handle_exception: the registers in the order they are pushed; "dummy" is
\* the word skipped by sub.
Pushed == <<"r15", "r14", "r13", "r12", "r11", "r10", "r9", "r8",
            "rdi", "rsi", "rbp", "dummy", "rbx", "rdx", "rcx", "rax">>

\* Mutant: the stub of #AC pushes an error code of its own.
StubVectorsAc == {0, 1, 2, 3, 4, 5, 6, 7, 16, 17, 18, 19}

\* Vectors with a stub that pushes 0 as error code (EX), and that does not
\* (EX_E); idt_handlers[] has an entry for each.
EX == {0, 1, 2, 3, 4, 5, 6, 7, 16, 18, 19}
EX_E == {8, 10, 11, 12, 13, 14, 17}

\* The processor: vectors that come with an error code; #GP, which a vector
\* without a gate raises; the frame of code segment 8 and data segment 16.
HasErrorCode == {8, 10, 11, 12, 13, 14, 17, 21, 29, 30}
GP == 13
CS == 8
SS == 16

VARIABLES
    gates,          \* vectors with a gate in boot_idt
    handlers,       \* vectors v with exception_handlers[v] = check_exception_table
    pc, regs, rip, rf, stack,   \* per processor: control point, registers, the
                    \* address and the RF bit of the guarded instruction
    gs4,            \* the word at %gs:4; the GS base of every processor is 0
    owner,          \* who holds the lock of printf()
    prints,         \* per processor: calls of printf() its report has left
    steps,          \* per processor: what its program has done
    raised,         \* history: the exception at hand and what it interrupted
    recorder        \* history: who wrote gs4 last

cpuVars == <<pc, regs, rip, rf, stack>>
outVars == <<owner, prints>>
vars == <<gates, handlers, cpuVars, gs4, outVars, steps, raised, recorder>>

None == [vector |-> -1, error_code |-> 0, rip |-> 0, rf |-> 0, regs |-> <<>>, stack |-> <<>>]

Init ==
    /\ gates = {} /\ handlers = {}
    /\ pc = [c \in Cpu |-> "run"]
    /\ regs = [c \in Cpu |-> [r \in Reg |-> CHOOSE k \in DOMAIN Pushed : Pushed[k] = r]]
    /\ rip = [c \in Cpu |-> 0] /\ rf = [c \in Cpu |-> 0]
    /\ stack \in {[c \in Cpu |-> <<>>], [c \in Cpu |-> <<99>>]}
    /\ gs4 = 0 /\ owner = NoCpu
    /\ prints = [c \in Cpu |-> 0] /\ steps = [c \in Cpu |-> 0]
    /\ raised = [c \in Cpu |-> None]
    /\ recorder = NoCpu

-----------------------------------------------------------------------------
(* Helpers. *)

Goto(c, from, to) == pc[c] = from /\ pc' = [pc EXCEPT ![c] = to]

\* regs->f of the struct at the top of the stack.
Field(c, f) ==
    stack[c][Len(stack[c]) + 1 - (CHOOSE k \in DOMAIN ex_regs : ex_regs[k] = f)]

SetField(c, f, v) ==
    [stack EXCEPT ![c][Len(stack[c]) + 1 - (CHOOSE k \in DOMAIN ex_regs : ex_regs[k] = f)] = v]

\* rflags with the RF bit, bit 16, and back.
Rflags(bit) == 2 + bit * 65536
RF(flags) == (flags \div 65536) % 2

\* Mutant: the RF bit is shifted into bit 7.
ExValLow(vector, error_code, bit) == vector + bit * 128 + error_code * 65536

\* The word check_exception_table() stores: vector, RF in bit 8, error code
\* from bit 16.  Vectors are below 256.
ExVal(vector, error_code, bit) == vector + bit * 256 + error_code * 65536

exception_vector == gs4 % 256
exception_rflags_rf == (gs4 \div 256) % 2

-----------------------------------------------------------------------------
(* The program. *)

handle_exception(v, fns) == fns \cup {v}

\* setup_idt(): gates for the vectors below 32 that have a stub, three handlers.
setup_idt ==
    /\ pc[Boot] = "run" /\ gates = {}
    /\ gates' = EX \cup EX_E
    /\ handlers' = handle_exception(13, handle_exception(6, handle_exception(0, handlers)))
    /\ UNCHANGED <<cpuVars, gs4, outVars, steps, raised, recorder>>

\* Called again it returns at once.
SetupAgain == pc[Boot] = "run" /\ gates # {} /\ UNCHANGED vars

\* ASM_TRY: gs:4 is cleared in front of the instruction at address r.
Try(c) ==
    /\ Goto(c, "run", "try")
    /\ gates # {} /\ steps[c] < MaxSteps[c]
    /\ \E r \in DOMAIN Table : rip' = [rip EXCEPT ![c] = r]
    /\ gs4' = 0
    /\ recorder' = c
    /\ steps' = [steps EXCEPT ![c] = @ + 1]
    /\ UNCHANGED <<gates, handlers, regs, rf, stack, outVars, raised>>

\* The instruction raises nothing.
Passes(c) ==
    /\ Goto(c, "try", "read")
    /\ UNCHANGED <<gates, handlers, regs, rip, rf, stack, gs4, outVars, steps, raised, recorder>>

\* The program asks exception_vector() and goes on.
Reads(c) ==
    /\ Goto(c, "read", "run")
    /\ raised' = [raised EXCEPT ![c] = None]
    /\ rip' = [rip EXCEPT ![c] = 0]
    /\ rf' = [rf EXCEPT ![c] = 0]
    /\ UNCHANGED <<gates, handlers, regs, stack, gs4, outVars, steps, recorder>>

\* printf(): an address that is not in the table.
PrintBegins(c) ==
    /\ Goto(c, "run", "print")
    /\ gates # {} /\ steps[c] < MaxSteps[c]
    /\ owner = NoCpu /\ owner' = c
    /\ rip' = [rip EXCEPT ![c] = 0]
    /\ steps' = [steps EXCEPT ![c] = @ + 1]
    /\ UNCHANGED <<gates, handlers, regs, rf, stack, gs4, prints, raised, recorder>>

PrintEnds(c) ==
    /\ Goto(c, "print", "run")
    /\ owner' = NoCpu
    /\ UNCHANGED <<gates, handlers, regs, rip, rf, stack, gs4, prints, steps, raised, recorder>>

\* An exception: the processor aligns the stack and pushes its frame, with an
\* error code if the vector has one.  The gate of a vector that
\* setup_idt() leaves alone is all zero, and its type is looked at before its
\* present bit: such a vector becomes #GP with the gate's index as error code.
Delivered(v) == IF v \in gates THEN v ELSE GP

Raise(c) ==
    /\ pc[c] \in {"try", "print"}
    /\ pc' = [pc EXCEPT ![c] = "stub"]
    /\ \E v \in Raisable[c], e \in ErrorCodes, bit \in {0, 1} :
          LET vec == Delivered(v)
              err == IF vec \notin HasErrorCode THEN 0
                     ELSE IF v = vec THEN e ELSE v * 8 + 2
              pad == IF Len(stack[c]) % 2 = 1 THEN <<0>> ELSE <<>>
          IN  /\ rf' = [rf EXCEPT ![c] = bit]
              /\ stack' = [stack EXCEPT ![c] =
                    @ \o pad \o <<SS, Len(@), Rflags(bit), CS, rip[c]>>
                      \o (IF vec \in HasErrorCode THEN <<err>> ELSE <<>>)]
              /\ raised' = [raised EXCEPT ![c] =
                    [vector |-> vec, error_code |-> err, rip |-> rip[c], rf |-> bit,
                     regs |-> regs[c], stack |-> stack[c]]]
    /\ UNCHANGED <<gates, handlers, regs, rip, gs4, outVars, steps, recorder>>

-----------------------------------------------------------------------------
(* Handling. *)

\* The stub of the vector and __handle_exception; the C code then uses the
\* registers for its own purposes.
Stub(c) ==
    /\ Goto(c, "stub", "dispatch")
    /\ LET v == raised[c].vector
           word(f) == IF f = "dummy" THEN 0 ELSE regs[c][f]
       IN  stack' = [stack EXCEPT ![c] =
              @ \o (IF v \in EX THEN <<0>> ELSE <<>>) \o <<v>>
                \o [k \in DOMAIN Pushed |-> word(Pushed[k])]]
    /\ regs' = [regs EXCEPT ![c] = [r \in Reg |-> IF r \in CallerSaved THEN -1 ELSE @[r]]]
    /\ UNCHANGED <<gates, handlers, rip, rf, gs4, outVars, steps, raised, recorder>>

\* The number of printf() calls of unhandled_exception().
Messages(vector) == IF vector = 14 THEN 3 ELSE 2

\* do_handle_exception()
Dispatch(c) ==
    /\ pc[c] = "dispatch"
    /\ IF Field(c, "vector") \in handlers
       THEN pc' = [pc EXCEPT ![c] = "check"] /\ UNCHANGED prints
       ELSE /\ pc' = [pc EXCEPT ![c] = "report"]
            /\ prints' = [prints EXCEPT ![c] = Messages(Field(c, "vector"))]
    /\ UNCHANGED <<gates, handlers, regs, rip, rf, stack, gs4, owner, steps, raised, recorder>>

\* check_exception_table(): record the exception, resume or report it.
check_exception_table(c) ==
    /\ pc[c] = "check"
    /\ gs4' = ExVal(Field(c, "vector"), Field(c, "error_code"), RF(Field(c, "rflags")))
    /\ recorder' = c
    /\ IF Field(c, "rip") \in DOMAIN Table
       THEN /\ pc' = [pc EXCEPT ![c] = "restore"]
            /\ stack' = SetField(c, "rip", Table[Field(c, "rip")])
            /\ UNCHANGED prints
       ELSE /\ pc' = [pc EXCEPT ![c] = "report"]
            /\ prints' = [prints EXCEPT ![c] = Messages(Field(c, "vector"))]
            /\ UNCHANGED stack
    /\ UNCHANGED <<gates, handlers, regs, rip, rf, owner, steps, raised>>

\* Mutant: the error code stays on the stack.
DroppedVectorOnly == 1

\* The words __handle_exception drops in front of iretq: vector, error code.
Dropped == 2

\* __handle_exception pops the registers in the reverse order, drops vector and
\* error code; iretq takes rip, cs, rflags, rsp and ss.
Restore(c) ==
    /\ Goto(c, "restore", "read")
    /\ LET n == Len(stack[c])
           top == n - Len(Pushed) - Dropped      \* of what iretq pops
           popped(f) == stack[c][n - Len(Pushed) + (CHOOSE k \in DOMAIN Pushed : Pushed[k] = f)]
       IN  /\ regs' = [regs EXCEPT ![c] = [r \in Reg |-> popped(r)]]
           /\ rip' = [rip EXCEPT ![c] = stack[c][top]]
           /\ rf' = [rf EXCEPT ![c] = RF(stack[c][top - 2])]
           /\ stack' = [stack EXCEPT ![c] = SubSeq(@, 1, @[top - 3])]
    /\ UNCHANGED <<gates, handlers, gs4, outVars, steps, raised, recorder>>

\* unhandled_exception(): each printf() takes the lock, then the loop.
ReportBegins(c) ==
    /\ Goto(c, "report", "reporting")
    /\ prints[c] > 0 /\ owner = NoCpu
    /\ owner' = c
    /\ UNCHANGED <<gates, handlers, regs, rip, rf, stack, gs4, prints, steps, raised, recorder>>

\* Mutant: unhandled_exception() keeps the lock for its next message.
KeptLock(c) == c

FreedLock(c) == NoCpu

ReportEnds(c) ==
    /\ Goto(c, "reporting", "report")
    /\ owner' = FreedLock(c)
    /\ prints' = [prints EXCEPT ![c] = @ - 1]
    /\ UNCHANGED <<gates, handlers, regs, rip, rf, stack, gs4, steps, raised, recorder>>

Halts(c) ==
    /\ Goto(c, "report", "loop")
    /\ prints[c] = 0
    /\ UNCHANGED <<gates, handlers, regs, rip, rf, stack, gs4, outVars, steps, raised, recorder>>

-----------------------------------------------------------------------------
Handle(c) ==
    \/ Stub(c) \/ Dispatch(c) \/ check_exception_table(c) \/ Restore(c)
    \/ ReportBegins(c) \/ ReportEnds(c) \/ Halts(c)

Program(c) == Try(c) \/ Passes(c) \/ Reads(c) \/ PrintBegins(c) \/ PrintEnds(c) \/ Raise(c)

\* Processors that loop, that spin on the lock, or whose program is at its end.
Waits(c) ==
    /\ \/ pc[c] = "loop"
       \/ pc[c] = "report" /\ owner # NoCpu
       \/ pc[c] = "run" /\ steps[c] = MaxSteps[c]
    /\ UNCHANGED vars

Next == setup_idt \/ SetupAgain \/ \E c \in Cpu : Program(c) \/ Handle(c) \/ Waits(c)

Spec == Init /\ [][Next]_vars

\* A processor that handles an exception or prints keeps executing.
FairSpec == Spec /\ \A c \in Cpu : WF_vars(Handle(c)) /\ WF_vars(PrintEnds(c))

-----------------------------------------------------------------------------
(* Properties. *)

\* When C code looks at struct ex_regs, its fields describe the exception that
\* was raised and the registers it interrupted: every vector has the stub that
\* fits what the processor pushes for it, and the order in which the stub
\* pushes is the order of the struct.
FrameDescribesException ==
    \A c \in Cpu : pc[c] \in {"dispatch", "check"} =>
        /\ Field(c, "vector") = raised[c].vector
        /\ Field(c, "error_code") = raised[c].error_code
        /\ Field(c, "rip") = raised[c].rip
        /\ Field(c, "cs") = CS
        /\ Field(c, "rflags") = Rflags(raised[c].rf)
        /\ \A r \in Reg : Field(c, r) = raised[c].regs[r]

\* An exception that returns does so at the entry of the table for the
\* instruction that raised it, with every register, the stack and RF as they
\* were, although C code ran in between and the processor aligned the stack.
ResumesIntact ==
    \A c \in Cpu : pc[c] = "read" /\ raised[c] # None =>
        /\ rip[c] = Table[raised[c].rip]
        /\ regs[c] = raised[c].regs /\ stack[c] = raised[c].stack
        /\ rf[c] = raised[c].rf

\* After a guarded instruction exception_vector() and exception_rflags_rf() tell
\* what that instruction raised, or 0 if it raised nothing, unless another
\* processor has used gs:4 in the meantime: it is one word for all of them.
VectorOfGuarded ==
    \A c \in Cpu : pc[c] = "read" /\ recorder = c =>
        IF raised[c] = None THEN gs4 = 0
        ELSE /\ exception_vector = raised[c].vector
             /\ exception_rflags_rf = raised[c].rf

\* Every exception comes to an end: the program resumes, or the report is
\* printed and the processor loops.  The one exception is a report that waits
\* for the lock of printf() held by a processor that was itself interrupted
\* by an unhandled exception while printing: it is never given back.
LockLost == owner \in Cpu /\ pc[owner] \in {"report", "loop"} /\ raised[owner].rip = 0

EveryExceptionEnds ==
    \A c \in Cpu : pc[c] = "stub" ~> pc[c] \in {"read", "loop"} \/ LockLost

=============================================================================
