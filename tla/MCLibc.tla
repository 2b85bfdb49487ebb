------------------------------- MODULE MCLibc -------------------------------
(***************************************************************************)
(* The library functions for TLC: a behaviour is one call, of a string      *)
(* function or of a function that prints.                                   *)
(***************************************************************************)
EXTENDS Strings, Printf

\* Bytes that can all be told apart, for the functions that count, and every
\* way to place strings in memory.
SmallMemories == {[k \in Addr |-> k + 1]} \cup [Addr -> {NUL, 97}]

Number(flags, width, mods, conv, int) == Directive(flags, width, mods, conv, int, <<>>)
Words == {<<>>, <<"w">>, <<"w", "o", "r", "d">>}
Flags == FlagSets
Widths == {0, 3, 12}

Numbers ==
    {Number(f, w, m, c, n) : f \in Flags, w \in Widths, c \in {"d", "u", "x"},
        m \in {<<>>, <<"l">>, <<"l", "l">>, <<"z">>}, n \in {0, 42, 128, 137, 255}}
    \cup {Number(f, w, <<>>, "p", n) : f \in Flags, w \in Widths, n \in {0, 137}}
Others ==
    {Directive(f, w, <<>>, "s", 0, t) : f \in Flags, w \in Widths, t \in Words}
    \cup {Directive(f, 3, <<>>, "c", 0, <<"w">>) : f \in Flags}
    \cup {Number(<<>>, 0, <<>>, c, 0) : c \in {"%", "y", End}}
Few ==
    {Number(<<"#", "0">>, 3, <<"l">>, "x", 137), Number(<<>>, 0, <<>>, "d", 137),
     Directive(<<"-">>, 12, <<>>, "s", 0, <<"w">>), Number(<<>>, 0, <<>>, "%", 0)}

Job(fn, size, lead, dirs) == [fn |-> fn, size |-> size, lead |-> lead, dirs |-> dirs]

SmallJobs ==
    {Job("snprintf", s, <<"=">>, <<d>>) : s \in {1, 4, 16}, d \in Numbers \cup Others}
    \cup {Job("printf", BUFSZ, <<"=">>, <<d, e>>) : d \in Few, e \in Few}
    \cup {Job("print_binstr", BUFSZ, <<>>, <<Number(<<>>, 0, <<>>, "s", n)>>) :
             n \in {0, 1, 137, 255}}

libcVars == <<strVars, printfVars>>

NoString == /\ call = [fn |-> "none"] /\ mem = <<>> /\ i = 0 /\ dst = 0
            /\ at = "done" /\ ret = 0
NoPrintf == /\ job = Job("none", 1, <<>>, <<>>) /\ fmt = <<>> /\ args = <<>>
            /\ pc = "done" /\ props = NoProps /\ nlong = 0 /\ sent = <<>>
            /\ ps = [buffer |-> <<>>, remain |-> 0, added |-> 0]

Init == (StrInit /\ NoPrintf) \/ (PrintfInit /\ NoString)

Step == (StrStep /\ UNCHANGED printfVars) \/ (PrintfStep /\ UNCHANGED strVars)

Returned == at = "done" /\ pc = "done" /\ UNCHANGED libcVars

Spec == Init /\ [][Step \/ Returned]_libcVars

=============================================================================
