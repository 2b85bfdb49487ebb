------------------------------- MODULE Printf -------------------------------
(***************************************************************************)
(* printf() and snprintf(), lib/printf.c: a format is read character by     *)
(* character and text is added to a buffer of limited size.  A behaviour is *)
(* one call.                                                                *)
(*                                                                         *)
(* A string is a sequence of characters without its NUL, a number argument  *)
(* the LongBits bits va_arg() finds; int is narrower.                       *)
(***************************************************************************)
EXTENDS Integers, Sequences, SequencesExt

CONSTANTS
    IntBits, LongBits,   \* 32 and 64; long long is as wide as long
    BUFSZ,               \* 2000, the buffer of printf()
    Jobs                 \* the calls: function, size of the buffer, the text
                         \* in front of each directive, the directives

\* A directive of a format: %, flags, width (0: none), modifiers, conversion
\* (End: the format ends here); and the argument it takes, if any.
End == "end"
Directive(flags, width, mods, conv, int, str) ==
    [flags |-> flags, width |-> width, mods |-> mods, conv |-> conv,
     int |-> int, str |-> str]

Pow2[n \in Nat] == IF n = 0 THEN 1 ELSE 2 * Pow2[n - 1]

\* A width is an int.
INT_MAX == Pow2[IntBits - 1] - 1
Directives == [flags : Seq(STRING), width : 0 .. INT_MAX, mods : Seq(STRING), conv : STRING,
               int : Nat, str : Seq(STRING)]

\* print_binstr() calls printf() with "%s" and the bits of an unsigned long.
BinstrCall(j) ==
    /\ j.lead = <<>>
    /\ j.dirs = <<Directive(<<>>, 0, <<>>, "s", j.dirs[1].int, <<>>)>>
    /\ j.dirs[1].int < Pow2[LongBits]

BINSTR_SZ == LongBits + LongBits \div 4

ASSUME PrintfAssumption ==
    /\ IntBits \in Nat \ {0} /\ LongBits \in Nat /\ IntBits < LongBits /\ LongBits % 4 = 0
    /\ BUFSZ \in Nat \ {0} /\ BINSTR_SZ <= BUFSZ
    /\ \A j \in Jobs : /\ j.fn \in {"printf", "snprintf", "print_binstr"}
                       /\ j.size \in Nat \ {0} /\ (j.fn # "snprintf" => j.size = BUFSZ)
                       /\ j.lead \in Seq(STRING) /\ j.dirs \in Seq(Directives)
                       /\ j.fn = "print_binstr" => BinstrCall(j)

digits == <<"0", "1", "2", "3", "4", "5", "6", "7", "8", "9", "a", "b", "c", "d", "e", "f">>
digit(n) == digits[n + 1]
DecDigit == {digit(n) : n \in 0 .. 9}
DigitValue == [c \in DecDigit |-> CHOOSE n \in 0 .. 9 : digit(n) = c]
NulChar == "NUL"

VARIABLES
    job,           \* the call
    fmt, args,     \* what is left of the format and of its arguments
    pc,            \* "text", "spec" (morefmt), "puts" or "done"
    props, nlong,  \* of the directive being read
    ps,            \* pstream_t: the text in the buffer, remain and added
    sent           \* what printf() has handed to puts() or console_puts()

printfVars == <<job, fmt, args, pc, props, nlong, ps, sent>>

\* The text of n in a base, by place value.
Powers(base) == LET p[m \in Nat] == IF m = 0 THEN 1 ELSE base * p[m - 1] IN p
DigitsOf(n, base) ==
    LET p == Powers(base)
        m == CHOOSE m \in 1 .. LongBits : n < p[m] /\ (m = 1 \/ p[m - 1] <= n)
    IN  [k \in 1 .. m |-> digit((n \div p[m - k]) % base)]

\* The format with the given directives.
FormatOf(lead, dirs) ==
    FlattenSeq([k \in DOMAIN dirs |->
        lead \o <<"%">> \o dirs[k].flags
            \o (IF dirs[k].width = 0 THEN <<>> ELSE DigitsOf(dirs[k].width, 10))
            \o dirs[k].mods \o (IF dirs[k].conv = End THEN <<>> ELSE <<dirs[k].conv>>)])

\* Mutant: no group gets its separator.
EndsGroupNever(n) == FALSE

EndsGroup(n) == n % 4 = 0

\* binstr(): one character per bit, a separator between groups of four.
binstr(x) ==
    FlattenSeq([n \in 1 .. LongBits |->
        <<digit((x \div Pow2[LongBits - n]) % 2)>>
            \o (IF EndsGroup(n) /\ n # LongBits THEN <<"'">> ELSE <<>>)])

Takes(d) == d.conv \in {"d", "u", "x", "p", "s", "c"}
ArgsOf(dirs) ==
    FlattenSeq([k \in DOMAIN dirs |-> IF Takes(dirs[k]) THEN <<dirs[k]>> ELSE <<>>])

NoProps == [pad |-> " ", npad |-> 0, alternate |-> FALSE]

PrintfInit ==
    /\ job \in Jobs
    /\ fmt = FormatOf(job.lead, job.dirs)
    /\ args = IF job.fn = "print_binstr"
              THEN <<[job.dirs[1] EXCEPT !.str = binstr(job.dirs[1].int)]>>
              ELSE ArgsOf(job.dirs)
    /\ pc = "text" /\ props = NoProps /\ nlong = 0
    /\ ps = [buffer |-> <<>>, remain |-> job.size - 1, added |-> 0]
    /\ sent = <<>>

-----------------------------------------------------------------------------
(* Text and numbers. *)

\* Mutant: the last byte is not kept for the NUL.
StoredOneMore(p, n) == IF n <= p.remain THEN n ELSE p.remain + 1

\* Of n calls of addchar() those store their character that find remain > 0.
Stored(p, n) == IF n <= p.remain THEN n ELSE p.remain

addchars(p, t) ==
    LET n == Stored(p, Len(t))
    IN  [buffer |-> p.buffer \o SubSeq(t, 1, n),
         remain |-> p.remain - n, added |-> p.added + Len(t)]

addchar(p, c) == addchars(p, <<c>>)

Times(c, n) == IF n > 0 THEN [k \in 1 .. n |-> c] ELSE <<>>
UpToNul(t) ==
    IF NulChar \in Range(t)
    THEN SubSeq(t, 1, (CHOOSE k \in DOMAIN t : t[k] = NulChar
                          /\ \A j \in 1 .. k - 1 : t[j] # NulChar) - 1)
    ELSE t

\* Mutant: the padding on the right takes no account of the text.
RightPadAll(npad, len) == -npad

RightPad(npad, len) == -(npad + len)

\* npad > 0 pads on the left and leaves npad negative if the text is longer;
\* npad < 0 pads on the right.
print_str(p, str, pr) ==
    LET len   == Len(str)
        npad  == IF pr.npad > 0 THEN pr.npad - len ELSE pr.npad
        right == IF npad < 0 THEN RightPad(npad, len) ELSE 0
    IN  addchars(p, Times(pr.pad, npad) \o str \o Times(" ", right))

\* The digits of n, the last one first.
LowFirst(n, base) ==
    LET low[m \in Nat] ==
          IF m = 0 THEN <<>> ELSE <<digit(m % base)>> \o low[m \div base]
    IN  low[n]

\* n = -n leaves the smallest number as it is, and its negative remainders
\* index what lies in front of digits[]: some character junk, or a NUL.
LLONG_MIN == -Pow2[LongBits - 1]

print_int(p, n, pr, junk) ==
    LET low  == LowFirst(IF n < 0 THEN -n ELSE n, 10)
        read == IF n # LLONG_MIN THEN low
                ELSE [k \in DOMAIN low |-> IF low[k] = "0" THEN "0" ELSE junk]
        text == IF n < 0 THEN Append(read, "-") ELSE IF n = 0 THEN <<"0">> ELSE read
    IN  print_str(p, UpToNul(Reverse(text)), pr)

print_unsigned(p, n, base, pr) ==
    LET low    == LowFirst(n, base)
        prefix == n # 0 /\ pr.alternate /\ base = 16
    IN  IF prefix /\ pr.pad = "0"
        THEN print_str(addchars(p, <<"0", "x">>), Reverse(low),
                       [pr EXCEPT !.npad = IF @ > 0 THEN (IF @ > 2 THEN @ - 2 ELSE 0) ELSE @])
        ELSE print_str(p, Reverse(IF n = 0 THEN <<"0">>
                                  ELSE IF prefix THEN low \o <<"x", "0">> ELSE low), pr)

\* atol() of lib/string.c
atol(t) ==
    LET ch(k) == IF k <= Len(t) THEN t[k] ELSE NulChar
        start[k \in Nat] == IF ch(k) \in {" ", "\t"} THEN start[k + 1] ELSE k
        sign == start[1]
        acc[s \in Nat \X Nat] ==
            IF ch(s[1]) \in DecDigit THEN acc[<<s[1] + 1, s[2] * 10 + DigitValue[ch(s[1])]>>]
            ELSE s[2]
        first == IF ch(sign) \in {"-", "+"} THEN sign + 1 ELSE sign
    IN  (IF ch(sign) = "-" THEN -1 ELSE 1) * acc[<<first, 0>>]

\* The low w bits of v, as an unsigned and as a signed number.
Unsigned(v, w) == v % Pow2[w]
Signed(v, w) ==
    IF Unsigned(v, w) < Pow2[w - 1] THEN Unsigned(v, w) ELSE Unsigned(v, w) - Pow2[w]

\* fmtnum(): the number at the start of f, as an int, and f behind it.
NumberLen(f) ==
    LET sign == IF f # <<>> /\ f[1] = "-" THEN 1 ELSE 0
        len[k \in Nat] == IF k < Len(f) /\ f[k + 1] \in DecDigit THEN len[k + 1] ELSE k
    IN  len[sign]

fmtnum(f) == /\ props' = [props EXCEPT !.npad = Signed(atol(f), IntBits),
                                       !.pad = IF Head(fmt) = "0" THEN "0" ELSE @]
             /\ fmt' = SubSeq(f, NumberLen(f) + 1, Len(f))

-----------------------------------------------------------------------------
(* vsnprintf(). *)

\* va_arg(): of int and unsigned, the low bits.
Bits == IF nlong = 0 THEN IntBits ELSE LongBits

Literal ==
    /\ pc = "text" /\ fmt # <<>> /\ Head(fmt) # "%"
    /\ ps' = addchar(ps, Head(fmt))
    /\ fmt' = Tail(fmt)
    /\ UNCHANGED <<job, args, pc, props, nlong, sent>>

Percent ==
    /\ pc = "text" /\ fmt # <<>> /\ Head(fmt) = "%"
    /\ pc' = "spec" /\ props' = NoProps /\ nlong' = 0
    /\ fmt' = Tail(fmt)
    /\ UNCHANGED <<job, args, ps, sent>>

\* A character after which "goto morefmt" reads on.
ReadsOn(c) ==
    /\ pc = "spec" /\ fmt # <<>> /\ Head(fmt) \in c
    /\ UNCHANGED <<job, args, pc, ps, sent>>

FlagHash ==
    /\ ReadsOn({"#"})
    /\ props' = [props EXCEPT !.alternate = TRUE]
    /\ fmt' = Tail(fmt) /\ UNCHANGED nlong

FlagZero == ReadsOn({"0"}) /\ fmtnum(Tail(fmt)) /\ UNCHANGED nlong

FlagNumber == ReadsOn((DecDigit \ {"0"}) \cup {"-"}) /\ fmtnum(fmt) /\ UNCHANGED nlong

ModLong == ReadsOn({"l"}) /\ nlong' = nlong + 1 /\ fmt' = Tail(fmt) /\ UNCHANGED props

ModSize == ReadsOn({"t", "z"}) /\ nlong' = 1 /\ fmt' = Tail(fmt) /\ UNCHANGED props

\* A conversion that adds to the stream and ends the directive.
Converts(c) ==
    /\ pc = "spec" /\ fmt # <<>> /\ Head(fmt) \in c
    /\ pc' = "text"
    /\ fmt' = Tail(fmt)
    /\ UNCHANGED <<job, props, nlong, sent>>

Arg == args # <<>> /\ args' = Tail(args)

ConvInt ==
    /\ Converts({"d"}) /\ Arg
    /\ \E junk \in {"?", NulChar} : ps' = print_int(ps, Signed(Head(args).int, Bits), props, junk)

ConvUnsigned ==
    /\ Converts({"u", "x"}) /\ Arg
    /\ ps' = print_unsigned(ps, Unsigned(Head(args).int, Bits),
                            IF Head(fmt) = "x" THEN 16 ELSE 10, props)

ConvPointer ==
    /\ Converts({"p"}) /\ Arg
    /\ ps' = print_unsigned(ps, Head(args).int, 16, [props EXCEPT !.alternate = TRUE])

ConvString == Converts({"s"}) /\ Arg /\ ps' = print_str(ps, Head(args).str, props)

ConvChar == Converts({"c"}) /\ Arg /\ ps' = addchar(ps, Head(args).str[1])

\* %% and any other character stand for themselves.
Letters == {"d", "u", "x", "p", "s", "c", "#", "-", "l", "t", "z"} \cup DecDigit

ConvOther ==
    /\ fmt # <<>> /\ Converts({Head(fmt)} \ Letters)
    /\ ps' = addchar(ps, Head(fmt))
    /\ UNCHANGED args

\* The format ends after a %.
SpecEnds ==
    /\ pc = "spec" /\ fmt = <<>>
    /\ pc' = "text"
    /\ UNCHANGED <<job, fmt, args, props, nlong, ps, sent>>

\* *s.buffer = 0, and the return.
Finish ==
    /\ pc = "text" /\ fmt = <<>>
    /\ pc' = IF job.fn # "snprintf" THEN "puts" ELSE "done"
    /\ UNCHANGED <<job, fmt, args, props, nlong, ps, sent>>

Puts ==
    /\ pc = "puts"
    /\ pc' = "done"
    /\ sent' = UpToNul(ps.buffer)
    /\ UNCHANGED <<job, fmt, args, props, nlong, ps>>

PrintfStep ==
    \/ Literal \/ Percent
    \/ FlagHash \/ FlagZero \/ FlagNumber \/ ModLong \/ ModSize
    \/ ConvInt \/ ConvUnsigned \/ ConvPointer \/ ConvString \/ ConvChar \/ ConvOther
    \/ SpecEnds \/ Finish \/ Puts

PrintfReturned == pc = "done" /\ UNCHANGED printfVars

PrintfSpec ==
    PrintfInit /\ [][PrintfStep \/ PrintfReturned]_printfVars

-----------------------------------------------------------------------------
(* Properties. *)

\* Whatever is printed, the text and its NUL stay within the size bytes the
\* caller gave, and added counts the characters that were dropped too.
StaysInBuffer ==
    /\ Len(ps.buffer) + 1 <= job.size
    /\ ps.remain = job.size - 1 - Len(ps.buffer)
    /\ ps.added >= Len(ps.buffer) /\ (ps.remain > 0 => ps.added = Len(ps.buffer))

Has(d, flag) == flag \in Range(d.flags)
WidthOf(d) == IF d.mods = <<>> THEN IntBits ELSE LongBits
HexPrefix(d) ==
    \/ d.conv = "p" /\ d.int # 0
    \/ d.conv = "x" /\ Has(d, "#") /\ Unsigned(d.int, WidthOf(d)) # 0

Bare(d) ==
    CASE d.conv = "d" ->
            LET n == Signed(d.int, WidthOf(d))
            IN  IF n < 0 THEN <<"-">> \o DigitsOf(-n, 10) ELSE DigitsOf(n, 10)
      [] d.conv = "u" -> DigitsOf(Unsigned(d.int, WidthOf(d)), 10)
      [] d.conv = "x" -> DigitsOf(Unsigned(d.int, WidthOf(d)), 16)
      [] d.conv = "p" -> DigitsOf(d.int, 16)
      [] d.conv \in {"s", "c"} -> d.str
      [] d.conv = End -> <<>>
      [] OTHER -> <<d.conv>>

\* What a directive prints: the width is a minimum, '-' puts the padding on the
\* right, '0' fills with zeros between 0x and the digits (but in front of a
\* minus sign); characters are not padded.
TextOf(d) ==
    LET prefix == IF HexPrefix(d) THEN <<"0", "x">> ELSE <<>>
        all    == prefix \o Bare(d)
        fill   == d.width - Len(all)
    IN  IF d.conv = "c" \/ ~Takes(d) THEN Bare(d)
        ELSE IF Has(d, "-") THEN all \o Times(" ", fill)
        ELSE IF Has(d, "0") THEN prefix \o Times("0", fill) \o Bare(d)
        ELSE Times(" ", fill) \o all

Expected == FlattenSeq([k \in DOMAIN job.dirs |-> job.lead \o TextOf(job.dirs[k])])

\* The directives C gives a meaning: flags and a modifier that go together, an
\* argument of its type, and for %d a number that has a negative.
FlagSets == {<<>>, <<"0">>, <<"-">>, <<"#">>, <<"#", "0">>, <<"#", "-">>}
Modifiers == {<<>>, <<"l">>, <<"l", "l">>, <<"t">>, <<"z">>}
Smallest(d) == d.conv = "d" /\ Signed(d.int, WidthOf(d)) = LLONG_MIN
Legal(d) ==
    /\ d.flags \in FlagSets /\ d.mods \in Modifiers
    /\ d.conv \notin {"#", "-", "l", "t", "z", NulChar} \cup DecDigit
    /\ d.int < Pow2[LongBits] /\ ~Smallest(d)
    /\ NulChar \notin Range(d.str) /\ (d.conv = "c" => Len(d.str) = 1)
LegalJob ==
    /\ "%" \notin Range(job.lead) /\ NulChar \notin Range(job.lead)
    /\ \A k \in DOMAIN job.dirs :
          Legal(job.dirs[k]) /\ (job.dirs[k].conv = End => k = Len(job.dirs))

\* A call prints exactly the text its directives describe, cut to the buffer,
\* and returns its full length: flags and widths of one directive do not leak
\* into the next, each takes the argument meant for it.  printf() hands this
\* text on.  atol() reads back the number that %d printed, padded with blanks
\* or not.
PrintsExpected ==
    pc = "done" /\ job.fn # "print_binstr" /\ LegalJob =>
        /\ ps.added = Len(Expected)
        /\ ps.buffer = SubSeq(Expected, 1, IF Len(Expected) < job.size
                                           THEN Len(Expected) ELSE job.size - 1)
        /\ job.fn # "snprintf" => sent = ps.buffer
        /\ Len(job.dirs) = 1 /\ ps.added < job.size =>
              LET d == job.dirs[1]
              IN  d.conv = "d" /\ ~Has(d, "0") =>
                      atol(SubSeq(ps.buffer, Len(job.lead) + 1, Len(ps.buffer)))
                          = Signed(d.int, WidthOf(d))

\* defs.h:69, "One byte per bit, a ' between each group of 4 bits, and a null
\* terminator", is what the size BINSTR_SZ and the assertion in binstr() rely
\* on: the text fills its array exactly, and read back without the separators
\* it is x.
ReadBack(t) ==
    LET v[k \in Nat] == IF k = 0 THEN 0
                        ELSE IF t[k] = "'" THEN v[k - 1]
                        ELSE 2 * v[k - 1] + (IF t[k] = "1" THEN 1 ELSE 0)
    IN  v[Len(t)]

BinstrFills ==
    job.fn = "print_binstr" /\ pc = "done" =>
        /\ Len(sent) + 1 = BINSTR_SZ
        /\ \A k \in DOMAIN sent : IF k % 5 = 0 THEN sent[k] = "'" ELSE sent[k] \in {"0", "1"}
        /\ ReadBack(sent) = job.dirs[1].int

=============================================================================
