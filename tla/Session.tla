------------------------------ MODULE Session ------------------------------
(***************************************************************************)
(* A measuring session: the harness in the virtual machine writes to its    *)
(* serial port, the host program reads that output through a pipe and takes *)
(* a time stamp at each '{', '}', '[' and ']'.  The two share nothing else: *)
(* the host learns which benchmark runs, and when, from the text alone.     *)
(*                                                                         *)
(* The text is a sequence of atoms: the characters the host looks for, and  *)
(* words, numbers and white space as one atom each.  An atom carries the    *)
(* benchmark it was printed for (0: none).  What a benchmark computes is    *)
(* left out, what it prints is not.                                         *)
(***************************************************************************)
EXTENDS Integers, Sequences

CONSTANTS
    NBench,        \* benchmarks between _BENCHMARKS_START and _BENCHMARKS_END
    Printing,      \* what prints: sets of benchmarks whose init() does (when
                   \* heap_alloc_page() has no memory) and whose kernel does
    MayDie,        \* the virtual machine may end at any moment
    PipeSize,      \* atoms the pipe and the serial port hold
    LowWord,       \* 2^32: what "=A" keeps of the time-stamp counter
    PinWait,       \* 60000000000, the cycles harness_main() wants to wait
    PinTime,       \* cycles from '*' until the host has pinned the VCPUs
    PollMax        \* longest iteration of the waiting loop, in cycles

Bench == 1 .. NBench

ASSUME SessionAssumption ==
    /\ NBench \in Nat \ {0}
    /\ Printing \subseteq [init : SUBSET Bench, kernel : SUBSET Bench]
    /\ MayDie \in BOOLEAN
    /\ PipeSize \in Nat \ {0}
    /\ PollMax \in Nat \ {0} /\ PollMax <= LowWord
    /\ LowWord \in Nat /\ PinWait \in Nat /\ PinTime \in Nat
    /\ LowWord < PinWait /\ PinTime < PinWait

VARIABLES
    prints,     \* the case of Printing at hand
    gpc, b,     \* the harness: control point, index of the benchmark
    out,        \* rest of the string puts() is sending
    tsc,        \* low word of the counter, while harness_main() waits
    cycles1,    \* its value when the wait began
    elapsed,    \* cycles waited, counted up to PinWait
    tty,        \* the line: the serial port and the pipe to the host's stdin
    lost,       \* how much of what was sent has been lost
    whole,      \* benchmarks sent completely before the first loss
    closed,     \* the virtual machine is gone
    hpc,        \* the host: control point
    buf,        \* the line getline() is reading
    args,       \* words read by fscanf()
    stamp,      \* for each time stamp, the benchmark whose mark it was taken at
    rows,       \* the lines of results the host has printed
    pinned,     \* the host has run script/pin
    ended       \* the host has seen "[BENCHMARKS END]"

waitVars  == <<tsc, cycles1, elapsed>>
guestVars == <<prints, gpc, b, out, waitVars>>
lineVars  == <<tty, lost, whole>>
hostVars  == <<hpc, buf, args, stamp, rows, pinned, ended>>
vars == <<guestVars, lineVars, closed, hostVars>>

Atom(c) == [c |-> c, of |-> 0]
Mark(c, k) == [c |-> c, of |-> k]

nl  == Atom("nl")
sp  == Atom("sp")
txt == Atom("text")
White(x) == x.c \in {"nl", "sp"}

StarLine  == <<Atom("*"), nl>>
BeginLine == <<Atom("["), Atom("BENCHMARKS"), sp, Atom("BEGIN"), Atom("]"), nl>>
EndLine   == <<Atom("["), Atom("BENCHMARKS"), sp, Atom("END"), Atom("]"), nl>>

\* Stamps the host takes: around control() and around the kernel.
Stamps == {"control0", "control1", "kernel0", "kernel1"}

Init ==
    /\ prints \in Printing
    /\ gpc = "star" /\ b = 1
    /\ out = <<txt, sp, txt, nl>>       \* the last message of the boot
    /\ tsc \in 0 .. LowWord - 1 /\ cycles1 = 0 /\ elapsed = 0
    /\ tty = <<>> /\ lost = 0 /\ whole = 0 /\ closed = FALSE
    /\ hpc = "star" /\ buf = <<>> /\ args = <<>>
    /\ stamp = [s \in Stamps |-> 0]     \* uninitialised
    /\ rows = <<>> /\ pinned = FALSE /\ ended = FALSE

-----------------------------------------------------------------------------
(* The harness. *)

\* print_serial() sends the string with one rep/outsb, which never looks at the
\* port's status.  The last place of the line is the port's holding register: a
\* write that finds it occupied replaces what it holds.  Once the host is gone
\* nobody reads what is sent.  lost and whole only record: whole is the last
\* benchmark whose "]" the line took before anything was lost.
Closes(x) == x.c = "]" /\ x.of # 0

PutChar ==
    /\ ~closed
    /\ out # <<>>
    /\ out' = Tail(out)
    /\ \/ /\ hpc = "exit"
          /\ UNCHANGED <<tty, lost, whole>>
       \/ /\ hpc # "exit" /\ Len(tty) < PipeSize
          /\ tty' = Append(tty, Head(out))
          /\ whole' = IF lost = 0 /\ Closes(Head(out)) THEN Head(out).of ELSE whole
          /\ UNCHANGED lost
       \/ /\ hpc # "exit" /\ Len(tty) = PipeSize
          /\ tty' = [tty EXCEPT ![PipeSize] = Head(out)]
          /\ lost' = lost + 1
          /\ whole' = IF lost = 0 /\ Closes(tty[PipeSize]) THEN tty[PipeSize].of - 1 ELSE whole
    /\ UNCHANGED <<prints, gpc, b, waitVars, closed, hostVars>>

\* A statement of the harness that prints the given text.
Prints(from, text, to) ==
    /\ ~closed
    /\ gpc = from /\ out = <<>>
    /\ gpc' = to
    /\ out' = text
    /\ UNCHANGED <<prints, lineVars, closed, hostVars>>

PrintStar ==
    /\ Prints("star", StarLine, "rdtsc")
    /\ UNCHANGED <<b, waitVars>>

\* cycles2 = cycles1 = currentcycles()
FirstRead ==
    /\ Prints("rdtsc", <<>>, "wait")
    /\ cycles1' = tsc
    /\ UNCHANGED <<b, tsc, elapsed>>

\* The waiting loop.  The subtraction is one of unsigned 64-bit numbers, so a
\* low word that has wrapped makes the difference enormous.  Until the host
\* has pinned the VCPUs, at most PinTime cycles pass; a host that never sees
\* the star never does.
MoreCycles(d) ==
    LET sum == elapsed + d IN IF sum < PinWait THEN sum ELSE PinWait

\* Mutant: a signed comparison.
WaitedSigned(cycles2) == cycles2 - cycles1 >= PinWait

Waited(cycles2) == cycles2 < cycles1 \/ cycles2 - cycles1 >= PinWait

Poll ==
    /\ \E d \in 1 .. PollMax :
          /\ pinned \/ lost # 0 \/ elapsed + d <= PinTime
          /\ tsc' = (tsc + d) % LowWord
          /\ elapsed' = MoreCycles(d)
    /\ Prints("wait", <<>>, IF Waited(tsc') THEN "header" ELSE "wait")
    /\ UNCHANGED <<b, cycles1>>

PrintHeader ==
    /\ Prints("header", <<txt, sp, txt, sp, txt, nl>> \o BeginLine, "row")
    /\ UNCHANGED <<b, waitVars>>

\* Mutant: the loop over the benchmarks goes one too far.
PrintRowOneMore ==
    /\ b <= NBench + 1
    /\ Prints("row", <<Mark("category", b), sp, Mark("name", b), sp>>, "init")
    /\ UNCHANGED <<b, waitVars>>

\* harness_execute(): category and name, each padded to 15 characters ...
PrintRow ==
    /\ b <= NBench
    /\ Prints("row", <<Mark("category", b), sp, Mark("name", b), sp>>, "init")
    /\ UNCHANGED <<b, waitVars>>

\* ... init() ...
RunInit ==
    /\ Prints("init", IF b \in prints.init THEN <<txt, sp, txt, nl>> ELSE <<>>, "count")
    /\ UNCHANGED <<b, waitVars>>

\* ... the number of iterations and "{" ...
PrintCount ==
    /\ Prints("count", <<Mark("number", b), sp, Mark("{", b)>>, "control")
    /\ UNCHANGED <<b, waitVars>>

\* Mutant: the kernel's "[" is printed before the control's "}".
RunControlSwapped ==
    /\ Prints("control", <<Mark("[", b), Mark("}", b)>>, "kernel")
    /\ UNCHANGED <<b, waitVars>>

\* ... control(), which prints nothing, then "}" and "[" ...
RunControl ==
    /\ Prints("control", <<Mark("}", b), Mark("[", b)>>, "kernel")
    /\ UNCHANGED <<b, waitVars>>

\* ... the kernel ...
RunKernel ==
    /\ Prints("kernel", IF b \in prints.kernel THEN <<txt>> ELSE <<>>, "close")
    /\ UNCHANGED <<b, waitVars>>

\* ... "]" and cleanup().
PrintClose ==
    /\ Prints("close", <<Mark("]", b), nl>>, "row")
    /\ b' = b + 1
    /\ UNCHANGED waitVars

\* Mutant: the last line is printed once.
PrintEndOnce ==
    /\ b > NBench
    /\ Prints("row", EndLine, "shutdown")
    /\ UNCHANGED <<b, waitVars>>

\* The last line, twice.
PrintEnd ==
    /\ b > NBench
    /\ Prints("row", EndLine \o EndLine, "shutdown")
    /\ UNCHANGED <<b, waitVars>>

\* platform_shutdown(): the virtual machine ends, and with it the pipe.
Shutdown ==
    /\ gpc = "shutdown" /\ out = <<>> /\ ~closed
    /\ gpc' = "off"
    /\ closed' = TRUE
    /\ UNCHANGED <<prints, b, out, waitVars, lineVars, hostVars>>

\* The virtual machine may be killed or crash before that.
Die ==
    /\ MayDie /\ ~closed
    /\ closed' = TRUE
    /\ UNCHANGED <<guestVars, lineVars, hostVars>>

-----------------------------------------------------------------------------
(* The host. *)

\* The next character is there, and is peek; reading takes it.
Ready == tty # <<>>
peek == Head(tty)
getchar == tty' = Tail(tty)
Eof == tty = <<>> /\ closed

\* Mutant: read_start() does not look at getline()'s result.
ReadStartNoEof(from, str, to, atEof) ==
    /\ hpc = from
    /\ Ready /\ getchar
    /\ buf' = IF peek = nl THEN <<>> ELSE Append(buf, peek)
    /\ hpc' = IF Append(buf, peek) = str THEN to ELSE from
    /\ UNCHANGED <<guestVars, lost, whole, closed, args, stamp, rows>>

\* read_start(): lines are read until one is the expected line, or to the end
\* of the input.
ReadStart(from, str, to, atEof) ==
    /\ hpc = from
    /\ \/ /\ Ready /\ getchar
          /\ buf' = IF peek = nl THEN <<>> ELSE Append(buf, peek)
          /\ hpc' = IF Append(buf, peek) = str THEN to ELSE from
       \/ /\ Eof
          /\ buf' = <<>>
          /\ hpc' = atEof
          /\ UNCHANGED tty
    /\ UNCHANGED <<guestVars, lost, whole, closed, args, stamp, rows>>

ReadStar ==
    /\ ReadStart("star", StarLine, "pin", "begin")
    /\ UNCHANGED <<pinned, ended>>

\* do_command("./script/pin")
Pin ==
    /\ hpc = "pin"
    /\ hpc' = "begin"
    /\ pinned' = TRUE
    /\ UNCHANGED <<guestVars, lineVars, closed, buf, args, stamp, rows, ended>>

ReadBegin ==
    /\ ReadStart("begin", BeginLine, "scan", "end")
    /\ UNCHANGED <<pinned, ended>>

\* read_benchmark(): fscanf("%s%s%lld ").  Before a directive white space is
\* skipped; a word is a run of anything else; the trailing blank skips white
\* space up to the next character, which stays unread.  A word where the
\* number should be, or the end of the input, ends the loop.
ScanSkip ==
    /\ hpc = "scan"
    /\ Ready /\ White(peek) /\ getchar
    /\ UNCHANGED <<guestVars, lost, whole, closed, hostVars>>

ScanWord ==
    /\ hpc = "scan" /\ Len(args) < 2
    /\ Ready /\ ~White(peek) /\ getchar
    /\ args' = Append(args, <<peek>>)
    /\ hpc' = "word"
    /\ UNCHANGED <<guestVars, lost, whole, closed, buf, stamp, rows, pinned, ended>>

ScanMore ==
    /\ hpc = "word"
    /\ \/ /\ Ready /\ ~White(peek) /\ getchar
          /\ args' = [args EXCEPT ![Len(args)] = Append(@, peek)]
          /\ UNCHANGED hpc
       \/ /\ Eof \/ (Ready /\ White(peek))
          /\ hpc' = "scan"
          /\ UNCHANGED <<tty, args>>
    /\ UNCHANGED <<guestVars, lost, whole, closed, buf, stamp, rows, pinned, ended>>

\* Mutant: no blank after %lld, so the character read next is white space.
ScanNumberNoBlank ==
    /\ hpc = "scan" /\ Len(args) = 2
    /\ Ready /\ peek.c = "number" /\ getchar
    /\ args' = Append(args, <<peek>>)
    /\ hpc' = "control"
    /\ UNCHANGED <<guestVars, lost, whole, closed, buf, stamp, rows, pinned, ended>>

ScanNumber ==
    /\ hpc = "scan" /\ Len(args) = 2
    /\ Ready /\ peek.c = "number" /\ getchar
    /\ args' = Append(args, <<peek>>)
    /\ hpc' = "blank"
    /\ UNCHANGED <<guestVars, lost, whole, closed, buf, stamp, rows, pinned, ended>>

ScanBlank ==
    /\ hpc = "blank"
    /\ \/ /\ Ready /\ White(peek) /\ getchar
          /\ UNCHANGED hpc
       \/ /\ Eof \/ (Ready /\ ~White(peek))
          /\ hpc' = "control"
          /\ UNCHANGED tty
    /\ UNCHANGED <<guestVars, lost, whole, closed, buf, args, stamp, rows, pinned, ended>>

ScanFails ==
    /\ hpc = "scan"
    /\ Eof \/ (Len(args) = 2 /\ Ready /\ ~White(peek) /\ peek.c # "number")
    /\ args' = <<>>
    /\ hpc' = "end"
    /\ UNCHANGED <<guestVars, lineVars, closed, buf, stamp, rows, pinned, ended>>

\* read_time_start_char() reads one character.  If it is not the expected one,
\* or the input has ended, the stamps keep their old values.
TimeStart(from, mark, s, inside, skip) ==
    /\ hpc = from
    /\ \/ /\ Ready /\ getchar
          /\ hpc' = IF peek.c = mark THEN inside ELSE skip
          /\ stamp' = IF peek.c = mark THEN [stamp EXCEPT ![s] = peek.of] ELSE stamp
       \/ /\ Eof
          /\ hpc' = skip
          /\ UNCHANGED <<tty, stamp>>
    /\ UNCHANGED <<guestVars, lost, whole, closed, buf, args, rows, pinned, ended>>

\* read_time_end_char() reads up to its character.  At the end of the input it
\* reads EOF again and again.
TimeEnd(from, mark, s, to) ==
    /\ hpc = from
    /\ Ready /\ getchar
    /\ hpc' = IF peek.c = mark THEN to ELSE from
    /\ stamp' = IF peek.c = mark THEN [stamp EXCEPT ![s] = peek.of] ELSE stamp
    /\ UNCHANGED <<guestVars, lost, whole, closed, buf, args, rows, pinned, ended>>

ControlStart == TimeStart("control", "{", "control0", "in_control", "kernel")
ControlEnd   == TimeEnd("in_control", "}", "control1", "kernel")
KernelStart  == TimeStart("kernel", "[", "kernel0", "in_kernel", "report")
KernelEnd    == TimeEnd("in_kernel", "]", "kernel1", "report")

\* The row of results.
Report ==
    /\ hpc = "report"
    /\ rows' = Append(rows, [args |-> args, stamp |-> stamp])
    /\ args' = <<>>
    /\ hpc' = "scan"
    /\ UNCHANGED <<guestVars, lineVars, closed, buf, stamp, pinned, ended>>

ReadEnd ==
    /\ ReadStart("end", EndLine, "exit", "exit")
    /\ ended' = (ended \/ (~Eof /\ hpc' = "exit"))
    /\ UNCHANGED pinned

\* At the end both programs are gone, or the host spins.
SpinsAtEof == Eof /\ hpc \in {"in_control", "in_kernel"}

Over ==
    /\ closed
    /\ hpc = "exit" \/ SpinsAtEof
    /\ UNCHANGED vars

-----------------------------------------------------------------------------
Guest ==
    \/ PutChar \/ PrintStar \/ FirstRead \/ Poll \/ PrintHeader
    \/ PrintRow \/ RunInit \/ PrintCount \/ RunControl \/ RunKernel \/ PrintClose
    \/ PrintEnd \/ Shutdown

Host ==
    \/ ReadStar \/ Pin \/ ReadBegin
    \/ ScanSkip \/ ScanWord \/ ScanMore \/ ScanNumber \/ ScanBlank \/ ScanFails
    \/ ControlStart \/ ControlEnd \/ KernelStart \/ KernelEnd \/ Report
    \/ ReadEnd

Next == Guest \/ Host \/ Die \/ Over

Spec == Init /\ [][Next]_vars

\* Both programs keep running; nothing makes the virtual machine die.
FairSpec == Spec /\ WF_vars(Guest) /\ WF_vars(Host)

-----------------------------------------------------------------------------
(* Properties. *)

\* Every variable keeps its type.
TypeOK ==
    /\ prints \in Printing
    /\ gpc \in {"star", "rdtsc", "wait", "header", "row", "init", "count", "control",
                "kernel", "close", "shutdown", "off"}
    /\ b \in 1 .. NBench + 1
    /\ tsc \in 0 .. LowWord - 1 /\ cycles1 \in 0 .. LowWord - 1
    /\ elapsed \in 0 .. PinWait
    /\ Len(tty) <= PipeSize
    /\ lost \in Nat /\ whole \in 0 .. NBench
    /\ closed \in BOOLEAN
    /\ hpc \in {"star", "pin", "begin", "scan", "word", "blank", "control", "in_control",
                "kernel", "in_kernel", "report", "end", "exit"}
    /\ Len(args) <= 3 /\ (lost # 0 \/ Len(rows) <= NBench)
    /\ stamp \in [Stamps -> 0 .. NBench]
    /\ pinned \in BOOLEAN /\ ended \in BOOLEAN

\* The row the host should print for benchmark k.
RowOf(k) ==
    [args  |-> <<<<Mark("category", k)>>, <<Mark("name", k)>>, <<Mark("number", k)>>>>,
     stamp |-> [s \in Stamps |-> k]]

\* The host never attributes a measurement to the wrong benchmark: its k-th
\* row names the k-th benchmark and was computed from stamps taken at the four
\* marks of that benchmark, whatever init() and the kernel print in between.
\* The serial port may lose text; that spoils no row of a benchmark sent
\* completely before.  With nothing lost, only the last row may have stale
\* stamps, and only when the input ends before a mark.
RowsFaithful ==
    \A k \in 1 .. Len(rows) :
        \/ rows[k] = RowOf(k)
        \/ lost # 0 /\ k > whole
        \/ lost = 0 /\ k = Len(rows) /\ Eof /\ rows[k].args = RowOf(k).args

\* What the line delivers is reported: when no init() prints, the host does not
\* exit without a row for every benchmark sent completely before anything was
\* lost; and when nothing was lost and the virtual machine did not die early,
\* it has a row for every benchmark and has seen the final line.
NothingLost ==
    hpc = "exit" /\ prints.init = {} =>
        /\ Len(rows) >= whole
        /\ gpc = "off" /\ lost = 0 => Len(rows) = NBench /\ ended

\* Once the harness has left its waiting loop, or the virtual machine is gone,
\* the host comes to an end, except when the input ends inside a measurement,
\* where read_time_end_char() never returns.
HostSettles == gpc = "header" \/ closed ~> hpc = "exit" \/ SpinsAtEof

\* The wait for the host ends, although the low word of the counter is never
\* 60000000000 ahead of cycles1: it ends when the word wraps and is then seen
\* below cycles1, which is certain only if cycles1 is at least as large as the
\* longest step between two reads.
WaitEnds == gpc = "wait" /\ cycles1 >= PollMax ~> gpc # "wait" \/ closed

\* harness.c:86, "waiting until finished VCPUs pin": no benchmark starts
\* before the host has pinned the VCPUs.
PinnedBeforeBenchmarks == gpc \in {"header", "row", "init", "kernel"} => pinned

=============================================================================
