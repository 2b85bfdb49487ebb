------------------------------ MODULE Strings ------------------------------
(***************************************************************************)
(* The string library, lib/string.c.  The functions that write (memset,     *)
(* memcpy, memmove, strcpy, strcat) are loops over a small memory, one byte *)
(* per step; those that only read are functions of their strings.           *)
(*                                                                         *)
(* A behaviour is one call.  A C string is a sequence of bytes whose last   *)
(* is NUL, a pointer into it an index, and 0 the null pointer: to read past *)
(* the end of a string is an error, not a value.                            *)
(***************************************************************************)
EXTENDS Integers, Sequences

CONSTANTS
    MemSize,   \* bytes of memory
    Memories,  \* what they hold when a function that writes is called
    Byte,      \* the bytes of strings, NUL among them
    MaxLen     \* longest string, not counting the NUL

NUL == 0
Star == 42     \* '*'

\* More than any string is long.
SIZE_MAX == 65535

ASSUME StringsAssumption ==
    /\ MemSize \in Nat \ {0} /\ MaxLen \in 0 .. SIZE_MAX - 1
    /\ Byte \subseteq 0 .. 255 /\ NUL \in Byte
    /\ Memories \subseteq [0 .. MemSize - 1 -> 0 .. 255]

Addr == 0 .. MemSize - 1
Body == UNION {[1 .. k -> Byte \ {NUL}] : k \in 0 .. MaxLen}
CString == {Append(t, NUL) : t \in Body}

VARIABLES
    call,      \* the function, its arguments and the memory it was called in
    mem,
    i,         \* bytes the running loop has written
    dst,       \* where strcat() writes: the end of its first string
    at,        \* control point: "seek", "copy" or "done"
    ret        \* what a function that only reads returns

strVars == <<call, mem, i, dst, at, ret>>

Writers == {"memset", "memcpy", "memmove", "strcpy", "strcat"}
Readers == {"strncmp", "strcmp", "memcmp", "strchr", "memchr", "strstr", "simple_glob"}

-----------------------------------------------------------------------------
(* The functions that read. *)

strlen(s) ==
    LET len[k \in 1 .. Len(s)] == IF s[k] = NUL THEN 0 ELSE 1 + len[k + 1]
    IN  len[1]

\* Plain char is signed.
schar(c) == IF c < 128 THEN c ELSE c - 256

strncmp(a, b, n) ==
    LET cmp[k \in Nat] ==
          IF k = n THEN 0
          ELSE IF a[k + 1] # b[k + 1] \/ a[k + 1] = NUL
               THEN schar(a[k + 1]) - schar(b[k + 1]) ELSE cmp[k + 1]
    IN  cmp[0]

strcmp(a, b) == strncmp(a, b, SIZE_MAX)

\* memcmp() of n bytes from index p of a with those from the start of b.
memcmp(a, p, b, n) ==
    LET cmp[k \in Nat] ==
          IF k = n THEN 0
          ELSE IF a[p + k] # b[1 + k] THEN a[p + k] - b[1 + k] ELSE cmp[k + 1]
    IN  cmp[0]

strchr(s, c) ==
    LET find[k \in 1 .. Len(s)] ==
          IF s[k] = c THEN k ELSE IF s[k] = NUL THEN 0 ELSE find[k + 1]
    IN  find[1]

memchr(s, c, n) ==
    LET find[k \in 0 .. n] ==
          IF k = n THEN 0 ELSE IF s[k + 1] = c THEN k + 1 ELSE find[k + 1]
    IN  find[0]

\* Mutant: the last place where s2 fits is not tried.
FitsBefore(l1, l2) == l1 > l2

Fits(l1, l2) == l1 >= l2

strstr(s1, s2) ==
    LET l2 == strlen(s2)
        find[k \in Nat] ==
          IF ~Fits(strlen(s1) - k, l2) THEN 0
          ELSE IF memcmp(s1, 1 + k, s2, l2) = 0 THEN 1 + k ELSE find[k + 1]
    IN  IF l2 = 0 THEN 1 ELSE find[0]

\* Mutant: a pattern with a star at its end may match anywhere.
AtStartAnywhere(p) == p # 0

AtStart(p) == p = 1

simple_glob(text, pattern) ==
    LET star_start == pattern[1] = Star
        rest     == IF star_start THEN Tail(pattern) ELSE pattern
        m        == strlen(rest)
        star_end == m > 0 /\ rest[m] = Star
        n        == IF star_end THEN m - 1 ELSE m
        copy     == Append(SubSeq(rest, 1, n), NUL)
        text_len == strlen(text)
    IN  CASE star_start /\ star_end -> strstr(text, copy) # 0
          [] star_end /\ ~star_start -> AtStart(strstr(text, copy))
          [] star_start /\ ~star_end ->
                n <= text_len /\ strcmp(SubSeq(text, text_len - n + 1, Len(text)), copy) = 0
          [] OTHER -> strcmp(text, copy) = 0

Result(c) ==
    CASE c.fn = "strncmp"     -> strncmp(c.a, c.b, c.n)
      [] c.fn = "strcmp"      -> strcmp(c.a, c.b)
      [] c.fn = "memcmp"      -> memcmp(c.a, 1, c.b, c.n)
      [] c.fn = "strchr"      -> strchr(c.a, c.n)
      [] c.fn = "memchr"      -> memchr(c.a, c.n, Len(c.a))
      [] c.fn = "strstr"      -> strstr(c.a, c.b)
      [] c.fn = "simple_glob" -> IF simple_glob(c.a, c.b) THEN 1 ELSE 0

-----------------------------------------------------------------------------
(* The calls, and the functions that write. *)

Disjoint(d, s, n) == d + n <= s \/ s + n <= d

\* The string that starts at p in memory m ends at EndOf(m, p).
EndOf(m, p) ==
    IF \E e \in Addr : e >= p /\ m[e] = NUL
    THEN CHOOSE e \in Addr : e >= p /\ m[e] = NUL /\ \A k \in p .. e - 1 : m[k] # NUL
    ELSE MemSize

\* A call a C program may make: the areas are inside memory, and for all but
\* memmove() they do not overlap.  For memset() s is the character.
CopyCall(c) ==
    LET end == EndOf(c.m, c.s)
        len == end + 1 - c.s
        to  == IF c.fn = "strcat" THEN EndOf(c.m, c.d) ELSE c.d
    IN  CASE c.fn = "memset"  -> c.d + c.n <= MemSize
          [] c.fn = "memmove" -> c.d + c.n <= MemSize /\ c.s + c.n <= MemSize
          [] c.fn = "memcpy"  -> /\ c.d + c.n <= MemSize /\ c.s + c.n <= MemSize
                                 /\ Disjoint(c.d, c.s, c.n)
          [] OTHER -> /\ c.n = 0 /\ end < MemSize /\ to + len <= MemSize
                      /\ to + len <= c.s \/ end < c.d

ReadCall(c) ==
    CASE c.fn = "strncmp" -> c.n \in 0 .. MaxLen + 1
      [] c.fn = "memcmp"  -> c.n <= Len(c.a) /\ c.n <= Len(c.b)
      [] c.fn \in {"strchr", "memchr"} -> c.n \in Byte /\ c.b = <<NUL>>
      [] OTHER -> c.n = 0

StrInit ==
    /\ \/ /\ call \in [fn : Writers, d : Addr, s : Addr, n : 0 .. MemSize,
                       m : Memories]
          /\ CopyCall(call)
          /\ mem = call.m
       \/ /\ call \in [fn : Readers, a : CString, b : CString,
                       n : Byte \cup 0 .. MaxLen + 1]
          /\ ReadCall(call)
          /\ mem = [k \in Addr |-> NUL]
    /\ i = 0 /\ dst = 0 /\ ret = 0
    /\ at = IF call.fn \in {"strcpy", "strcat"} THEN "seek" ELSE "copy"

\* Mutant: a loop that stops one byte early.
LeftOneLess == i + 1 < call.n

Left == i < call.n

Write(p, v) ==
    /\ mem' = [mem EXCEPT ![p] = v]
    /\ i' = i + 1
    /\ UNCHANGED <<call, dst, at, ret>>

Memset ==
    /\ call.fn = "memset" /\ at = "copy" /\ Left
    /\ Write(call.d + i, call.s)

Memcpy ==
    /\ call.fn = "memcpy" /\ at = "copy" /\ Left
    /\ Write(call.d + i, mem[call.s + i])

\* Mutant: always from the low end.
forwardAlways == TRUE

\* memmove() copies from the low end when the destination is not above the
\* source, and from the high end otherwise.
forward == call.d <= call.s

Memmove ==
    /\ call.fn = "memmove" /\ at = "copy" /\ Left
    /\ LET k == IF forward THEN i ELSE call.n - 1 - i
       IN  Write(call.d + k, mem[call.s + k])

\* strcpy() makes its destination the empty string and calls strcat().
Strcpy ==
    /\ call.fn = "strcpy" /\ at = "seek"
    /\ mem' = [mem EXCEPT ![call.d] = NUL]
    /\ dst' = call.d
    /\ at' = "copy"
    /\ UNCHANGED <<call, i, ret>>

StrcatSeek ==
    /\ call.fn = "strcat" /\ at = "seek"
    /\ dst' = EndOf(mem, call.d)
    /\ at' = "copy"
    /\ UNCHANGED <<call, mem, i, ret>>

\* The NUL is copied too, and ends the loop.
StrcatCopy ==
    /\ call.fn \in {"strcpy", "strcat"} /\ at = "copy"
    /\ mem' = [mem EXCEPT ![dst + i] = mem[call.s + i]]
    /\ i' = i + 1
    /\ at' = IF mem[call.s + i] = NUL THEN "done" ELSE "copy"
    /\ UNCHANGED <<call, dst, ret>>

LoopEnds ==
    /\ call.fn \in {"memset", "memcpy", "memmove"} /\ at = "copy" /\ ~Left
    /\ at' = "done"
    /\ UNCHANGED <<call, mem, i, dst, ret>>

Answer ==
    /\ call.fn \in Readers /\ at = "copy"
    /\ ret' = Result(call)
    /\ at' = "done"
    /\ UNCHANGED <<call, mem, i, dst>>

StrStep ==
    \/ Memset \/ Memcpy \/ Memmove \/ Strcpy \/ StrcatSeek \/ StrcatCopy \/ LoopEnds
    \/ Answer

StrReturned == at = "done" /\ UNCHANGED strVars

StrSpec == StrInit /\ [][StrStep \/ StrReturned]_strVars

-----------------------------------------------------------------------------
(* Properties. *)

\* However source and destination overlap, memmove() never overwrites a byte it
\* has still to copy: at every moment the bytes copied so far are in place,
\* those left are as they were, and nothing else has changed.  memcpy() does
\* the same for areas that do not overlap.
Moved == IF call.fn = "memmove" /\ ~forward THEN call.n - i .. call.n - 1 ELSE 0 .. i - 1

MoveKeepsSource ==
    call.fn \in {"memmove", "memcpy"} =>
        /\ \A k \in Moved : mem[call.d + k] = call.m[call.s + k]
        /\ \A k \in (0 .. call.n - 1) \ Moved : mem[call.s + k] = call.m[call.s + k]
        /\ \A p \in Addr : mem[p] # call.m[p] => p - call.d \in Moved

\* What memory holds after a call: the target area has its new contents, and
\* not a byte around it has changed.  strcat() appends its second string, NUL
\* included, where the first one ended; strcpy() puts it in its place.
After(p) ==
    LET to  == IF call.fn = "strcat" THEN EndOf(call.m, call.d) ELSE call.d
        len == IF call.fn \in {"strcpy", "strcat"}
               THEN EndOf(call.m, call.s) + 1 - call.s ELSE call.n
    IN  IF p \notin to .. to + len - 1 THEN call.m[p]
        ELSE IF call.fn = "memset" THEN call.s ELSE call.m[call.s + p - to]

WritesTarget ==
    at = "done" /\ call.fn \in Writers => \A p \in Addr : mem[p] = After(p)

\* The searches find the first occurrence, and only one that is there: of a
\* character, the NUL included, or of a string that fits to the very end.  The
\* comparisons are decided by the first place where the strings differ, if it is
\* among those compared: as signed characters up to the NUL, as unsigned bytes
\* in memcmp().
First(S) == IF S = {} THEN 0 ELSE CHOOSE k \in S : \A j \in S : k <= j
Occurs(b, a) ==
    {k \in 1 .. Len(a) : k + Len(b) - 1 <= Len(a)
                            /\ \A j \in 1 .. Len(b) - 1 : a[k + j - 1] = b[j]}
Differ(a, b, n) ==
    First({k \in 1 .. n : k <= Len(a) /\ k <= Len(b) /\ a[k] # b[k]})
Below(c, d) == IF call.fn = "memcmp" THEN c < d ELSE schar(c) < schar(d)

AnswersByPosition ==
    at = "done" =>
        /\ call.fn \in {"strchr", "memchr"} =>
              ret = First({k \in 1 .. Len(call.a) : call.a[k] = call.n})
        /\ call.fn = "strstr" => ret = First(Occurs(call.b, call.a))
        /\ call.fn \in {"strncmp", "strcmp", "memcmp"} =>
              LET k == Differ(call.a, call.b, IF call.fn = "strcmp" THEN SIZE_MAX ELSE call.n)
              IN  /\ k = 0 <=> ret = 0
                  /\ k # 0 => (ret < 0 <=> Below(call.a[k], call.b[k]))

\* string.c:186, "Allows '*' at beginning and end of pattern": the text
\* matches if it is the rest of the pattern, with anything in front of it if
\* the pattern begins with a star and anything after it if it ends with one.
GlobMatches ==
    at = "done" /\ call.fn = "simple_glob" =>
        LET text  == SubSeq(call.a, 1, Len(call.a) - 1)
            pat   == SubSeq(call.b, 1, Len(call.b) - 1)
            start == pat # <<>> /\ pat[1] = Star
            rest  == IF start THEN Tail(pat) ELSE pat
            end   == rest # <<>> /\ rest[Len(rest)] = Star
            core  == IF end THEN SubSeq(rest, 1, Len(rest) - 1) ELSE rest
        IN  ret = 1 <=> \E u \in 0 .. Len(text) :
                       LET v == Len(text) - u - Len(core)
                       IN  /\ v >= 0
                           /\ SubSeq(text, u + 1, u + Len(core)) = core
                           /\ u = 0 \/ start
                           /\ v = 0 \/ end

=============================================================================
