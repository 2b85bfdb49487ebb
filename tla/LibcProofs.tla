----------------------------- MODULE LibcProofs -----------------------------
(***************************************************************************)
(* TLAPS proofs about Strings and Printf: the functions that write memory   *)
(* write what they should and nothing else, however the areas lie; those    *)
(* that search, compare or match give the answer of their reference         *)
(* definitions, for strings of any length; and printf() stays in its        *)
(* buffer, for any format and any arguments.                                *)
(***************************************************************************)
EXTENDS Strings, Printf, LeastNumber, SequenceTheorems

-----------------------------------------------------------------------------
(* Strings: the invariant. *)

Counted == {"memset", "memcpy", "memmove"}
Terminated == {"strcpy", "strcat"}

\* A call of a function that writes.
WriteCall(c) ==
    /\ c.fn \in Writers /\ c.d \in Addr /\ c.s \in Addr /\ c.n \in 0 .. MemSize
    /\ c.m \in [Addr -> Nat]
    /\ CopyCall(c)

\* Where strcpy() and strcat() write, and how many bytes.
To == IF call.fn = "strcat" THEN EndOf(call.m, call.d) ELSE call.d
Bytes == EndOf(call.m, call.s) + 1 - call.s

\* The loops that count stop after n bytes.
CountInv ==
    call.fn \in Counted =>
        /\ at \in {"copy", "done"} /\ i \in 0 .. call.n
        /\ at = "done" => i = call.n

SetInv ==
    call.fn = "memset" =>
        \A p \in Addr : mem[p] = IF p \in call.d .. call.d + i - 1 THEN call.s ELSE call.m[p]

\* strcpy() and strcat(): the bytes copied are in place, none is left out, and
\* nothing around the target has changed; the source is around the target.
CatInv ==
    call.fn \in Terminated =>
        /\ at \in {"seek", "copy", "done"}
        /\ at = "seek" => mem = call.m /\ i = 0
        /\ at # "seek" => /\ dst = To
                          /\ \A k \in 0 .. i - 1 : mem[To + k] = call.m[call.s + k]
                          /\ \A p \in Addr \ (To .. To + Bytes - 1) : mem[p] = call.m[p]
        /\ at = "copy" => i \in 0 .. Bytes - 1
        /\ at = "done" => i = Bytes

StrInv ==
    /\ call.fn \in Writers \cup Readers
    /\ call.fn \in Writers =>
          /\ WriteCall(call)
          /\ mem \in [Addr -> Nat]
          /\ CountInv /\ SetInv /\ MoveKeepsSource /\ CatInv

-----------------------------------------------------------------------------
(* Strings: the facts. *)

\* EndOf() finds the first NUL, or the end of memory if there is none.
LEMMA EndOfString ==
    ASSUME NEW m \in [Addr -> Nat], NEW p \in Addr
    PROVE  /\ EndOf(m, p) \in p .. MemSize
           /\ EndOf(m, p) < MemSize =>
                 m[EndOf(m, p)] = NUL /\ \A k \in p .. EndOf(m, p) - 1 : m[k] # NUL
  <1>1. MemSize \in Nat \ {0} /\ Addr = 0 .. MemSize - 1 /\ p \in Nat /\ p < MemSize
    BY StringsAssumption DEF Addr
  <1> DEFINE Ends == {e \in Addr : e >= p /\ m[e] = NUL}
             First0(e) == e >= p /\ m[e] = NUL /\ \A k \in p .. e - 1 : m[k] # NUL
  <1>2. CASE \E e \in Addr : e >= p /\ m[e] = NUL
    <2>1. Ends \in SUBSET Nat /\ Ends # {}
      BY <1>1, <1>2
    <2>2. PICK e \in Ends : \A y \in Ends : e =< y
      BY <2>1, LeastElement
    <2>3. \A k \in p .. e - 1 : m[k] # NUL
      <3> SUFFICES ASSUME NEW k \in p .. e - 1, m[k] = NUL PROVE FALSE
        OBVIOUS
      <3>1. k \in Addr /\ k >= p /\ k < e /\ e \in Nat /\ k \in Nat
        BY <1>1
      <3>2. k \in Ends
        BY <3>1
      <3> QED
        BY <2>2, <3>1, <3>2
    <2>4. e \in Addr /\ First0(e)
      BY <2>3
    <2>5. EndOf(m, p) = CHOOSE x \in Addr : First0(x)
      BY <1>2 DEF EndOf
    <2>6. EndOf(m, p) \in Addr /\ First0(EndOf(m, p))
      BY <2>4, <2>5
    <2> QED
      BY <1>1, <2>6
  <1>3. CASE ~ \E e \in Addr : e >= p /\ m[e] = NUL
    <2>1. EndOf(m, p) = MemSize
      BY <1>3 DEF EndOf
    <2> QED
      BY <1>1, <2>1
  <1> QED
    BY <1>2, <1>3

\* A string of b bytes at s, its NUL at e, and the target t.
LEMMA StringFits ==
    ASSUME NEW z \in Nat, NEW s \in 0 .. z - 1, NEW d \in 0 .. z - 1, NEW t \in d .. z,
           NEW e \in s .. z, e < z, NEW b, b = e + 1 - s,
           t + b =< z, t + b =< s \/ e < d
    PROVE  /\ b \in Nat \ {0} /\ s + b =< z /\ s + b - 1 = e /\ t \in 0 .. z - 1
           /\ \A k \in 0 .. b - 2 : s + k \in s .. e - 1
           /\ t + b =< s \/ s + b =< t
  OBVIOUS

\* What a call of strcpy() or strcat() may rely on: source and target are
\* inside memory and do not overlap.
LEMMA CatCall ==
    ASSUME WriteCall(call), call.fn \in Terminated
    PROVE  /\ MemSize \in Nat /\ Addr = 0 .. MemSize - 1 /\ call.s \in Nat /\ call.d \in Nat
           /\ To \in Addr /\ Bytes \in Nat \ {0}
           /\ To + Bytes =< MemSize /\ call.s + Bytes =< MemSize
           /\ call.m[call.s + Bytes - 1] = NUL
           /\ \A k \in 0 .. Bytes - 2 : call.m[call.s + k] # NUL
           /\ To + Bytes =< call.s \/ call.s + Bytes =< To
  <1>1. /\ MemSize \in Nat /\ Addr = 0 .. MemSize - 1
        /\ call.d \in Addr /\ call.s \in Addr /\ call.m \in [Addr -> Nat]
    BY StringsAssumption DEF Addr, WriteCall
  <1> DEFINE end == EndOf(call.m, call.s)
  <1>2. /\ end < MemSize /\ To + Bytes =< MemSize
        /\ To + Bytes =< call.s \/ end < call.d
    BY DEF WriteCall, CopyCall, Terminated, To, Bytes
  <1>3. /\ end \in call.s .. MemSize
        /\ call.m[end] = NUL /\ \A k \in call.s .. end - 1 : call.m[k] # NUL
    BY <1>1, <1>2, EndOfString
  <1>4. To \in call.d .. MemSize
    <2>1. EndOf(call.m, call.d) \in call.d .. MemSize
      BY <1>1, EndOfString
    <2> QED
      BY <1>1, <2>1 DEF To
  <1>5. Bytes = end + 1 - call.s
    BY DEF Bytes
  <1> HIDE DEF end
  <1>6. /\ Bytes \in Nat \ {0} /\ call.s + Bytes =< MemSize /\ call.s + Bytes - 1 = end
        /\ To \in 0 .. MemSize - 1
        /\ \A k \in 0 .. Bytes - 2 : call.s + k \in call.s .. end - 1
        /\ To + Bytes =< call.s \/ call.s + Bytes =< To
    <2> DEFINE s == call.s
               d == call.d
               t == To
               b == Bytes
    <2>1. /\ MemSize \in Nat /\ s \in 0 .. MemSize - 1 /\ d \in 0 .. MemSize - 1
          /\ t \in d .. MemSize /\ end \in s .. MemSize /\ end < MemSize
          /\ b = end + 1 - s /\ t + b =< MemSize /\ (t + b =< s \/ end < d)
      BY <1>1, <1>2, <1>3, <1>4, <1>5
    <2> HIDE DEF s, d, t, b
    <2>2. /\ b \in Nat \ {0} /\ s + b =< MemSize /\ s + b - 1 = end /\ t \in 0 .. MemSize - 1
          /\ \A k \in 0 .. b - 2 : s + k \in s .. end - 1
          /\ t + b =< s \/ s + b =< t
      BY <2>1, StringFits
    <2> QED
      BY <2>2, Zenon DEF s, d, t, b
  <1>7. call.m[call.s + Bytes - 1] = NUL
    BY <1>3, <1>6, Zenon
  <1>8. \A k \in 0 .. Bytes - 2 : call.m[call.s + k] # NUL
    BY <1>3, <1>6, Zenon
  <1>9. call.s \in Nat /\ call.d \in Nat /\ To \in Addr
    BY <1>1, <1>6
  <1> QED
    BY <1>1, <1>2, <1>6, <1>7, <1>8, <1>9, Zenon

\* What a call of a function that counts may rely on.
LEMMA CountCall ==
    ASSUME WriteCall(call), call.fn \in Counted
    PROVE  /\ MemSize \in Nat /\ Addr = 0 .. MemSize - 1
           /\ call.d \in Nat /\ call.s \in Nat /\ call.n \in Nat
           /\ call.d + call.n =< MemSize
           /\ call.fn # "memset" => call.s + call.n =< MemSize
           /\ call.fn = "memcpy" => call.d + call.n =< call.s \/ call.s + call.n =< call.d
  <1>1. /\ MemSize \in Nat /\ Addr = 0 .. MemSize - 1
        /\ call.d \in Nat /\ call.s \in Nat /\ call.n \in Nat
    BY StringsAssumption DEF Addr, WriteCall
  <1>2. /\ call.d + call.n =< MemSize
        /\ call.fn # "memset" => call.s + call.n =< MemSize
        /\ call.fn = "memcpy" => call.d + call.n =< call.s \/ call.s + call.n =< call.d
    BY DEF WriteCall, CopyCall, Counted, Disjoint
  <1> QED
    BY <1>1, <1>2

\* Copying n bytes from s to d in memory m: those in M are copied, a is memory.
Copied(a, m, d, s, n, M) ==
    /\ \A k \in M : a[d + k] = m[s + k]
    /\ \A k \in (0 .. n - 1) \ M : a[s + k] = m[s + k]
    /\ \A p \in DOMAIN a : a[p] # m[p] => p - d \in M

\* Memory with one byte replaced.
Poked(a, x, v) == [a EXCEPT ![x] = v]

\* Byte k may be copied next: it lies in the areas, and no byte still to be
\* copied is overwritten.
MayCopy(z, d, s, n, a, M, k) ==
    /\ z \in Nat /\ d \in Nat /\ s \in Nat /\ n \in Nat /\ d + n =< z /\ s + n =< z
    /\ a \in [0 .. z - 1 -> Nat]
    /\ M \in SUBSET (0 .. n - 1) /\ k \in (0 .. n - 1) \ M
    /\ \A j \in (0 .. n - 1) \ (M \cup {k}) : s + j # d + k

\* One byte more is copied.  Writing it must not destroy one that is left.
LEMMA CopyByte ==
    ASSUME NEW z, NEW d, NEW s, NEW n, NEW a, NEW M, NEW k, MayCopy(z, d, s, n, a, M, k),
           NEW m, Copied(a, m, d, s, n, M)
    PROVE  /\ Poked(a, d + k, a[s + k]) \in [0 .. z - 1 -> Nat]
           /\ Copied(Poked(a, d + k, a[s + k]), m, d, s, n, M \cup {k})
  <1> DEFINE b == Poked(a, d + k, a[s + k])
             N == M \cup {k}
  <1>0. /\ z \in Nat /\ d \in Nat /\ s \in Nat /\ n \in Nat /\ d + n =< z /\ s + n =< z
        /\ a \in [0 .. z - 1 -> Nat]
        /\ M \in SUBSET (0 .. n - 1) /\ k \in (0 .. n - 1) \ M
        /\ \A j \in (0 .. n - 1) \ (M \cup {k}) : s + j # d + k
    BY DEF MayCopy
  <1> USE <1>0
  <1>1. \A j \in 0 .. n - 1 : d + j \in 0 .. z - 1 /\ s + j \in 0 .. z - 1
    OBVIOUS
  <1>2. a[s + k] = m[s + k]
    BY DEF Copied
  <1>3. /\ b \in [0 .. z - 1 -> Nat]
        /\ \A p \in 0 .. z - 1 : b[p] = IF p = d + k THEN m[s + k] ELSE a[p]
    BY <1>1, <1>2 DEF Poked
  <1> HIDE DEF b
  <1>4. ASSUME NEW j \in N PROVE b[d + j] = m[s + j]
    <2>1. j \in 0 .. n - 1 /\ (j # k => j \in M)
      OBVIOUS
    <2>2. d + j \in 0 .. z - 1 /\ (j # k => d + j # d + k)
      BY <1>1, <2>1
    <2> QED
      BY <1>3, <2>1, <2>2 DEF Copied
  <1>5. ASSUME NEW j \in (0 .. n - 1) \ N PROVE b[s + j] = m[s + j]
    <2>1. s + j \in 0 .. z - 1 /\ s + j # d + k
      BY <1>1
    <2>2. a[s + j] = m[s + j]
      BY DEF Copied
    <2> QED
      BY <1>3, <2>1, <2>2
  <1>6. ASSUME NEW p \in DOMAIN b, b[p] # m[p] PROVE p - d \in N
    <2>1. p \in 0 .. z - 1 /\ p \in DOMAIN a
      BY <1>3
    <2>2. CASE p = d + k
      BY <2>2
    <2>3. CASE p # d + k
      BY <1>3, <1>6, <2>1, <2>3 DEF Copied
    <2> QED
      BY <2>2, <2>3
  <1>7. Copied(b, m, d, s, n, N)
    BY <1>4, <1>5, <1>6 DEF Copied
  <1> QED
    BY <1>3, <1>7 DEF b

\* Which bytes come next: from the low end, or from the high end.
LEMMA LowEnd ==
    ASSUME NEW n \in Nat, NEW j \in 0 .. n, j < n, NEW d \in Nat, NEW s \in Nat,
           d =< s \/ d + n =< s \/ s + n =< d
    PROVE  /\ 0 .. j - 1 \in SUBSET (0 .. n - 1) /\ j \in (0 .. n - 1) \ (0 .. j - 1)
           /\ 0 .. (j + 1) - 1 = (0 .. j - 1) \cup {j}
           /\ \A l \in (0 .. n - 1) \ ((0 .. j - 1) \cup {j}) : s + l # d + j
  OBVIOUS

\* From the high end, when the target is above the source.
LEMMA HighEnd ==
    ASSUME NEW n \in Nat, NEW j \in 0 .. n, j < n, NEW d \in Nat, NEW s \in Nat, ~(d =< s)
    PROVE  /\ n - j .. n - 1 \in SUBSET (0 .. n - 1)
           /\ n - 1 - j \in (0 .. n - 1) \ (n - j .. n - 1)
           /\ n - (j + 1) .. n - 1 = (n - j .. n - 1) \cup {n - 1 - j}
           /\ \A l \in (0 .. n - 1) \ ((n - j .. n - 1) \cup {n - 1 - j}) : s + l # d + (n - 1 - j)
  OBVIOUS

-----------------------------------------------------------------------------
(* Strings: the steps. *)

\* MoveKeepsSource in the words of Copied.
LEMMA MoveIsCopied ==
    ASSUME mem \in [Addr -> Nat], call.fn \in {"memmove", "memcpy"}
    PROVE  MoveKeepsSource <=> Copied(mem, call.m, call.d, call.s, call.n, Moved)
  BY DEF MoveKeepsSource, Copied

\* One byte of memmove() or memcpy().
LEMMA MoveStep ==
    ASSUME WriteCall(call), call.fn \in {"memmove", "memcpy"}, mem \in [Addr -> Nat],
           i \in 0 .. call.n, i < call.n, MoveKeepsSource,
           call' = call, i' = i + 1,
           NEW k, k = IF call.fn = "memmove" /\ ~forward THEN call.n - 1 - i ELSE i,
           mem' = [mem EXCEPT ![call.d + k] = mem[call.s + k]]
    PROVE  mem' \in [Addr -> Nat] /\ MoveKeepsSource'
  <1> DEFINE d == call.d
             s == call.s
             n == call.n
             m == call.m
             M == Moved
  <1>1. /\ MemSize \in Nat /\ Addr = 0 .. MemSize - 1
        /\ d \in Nat /\ s \in Nat /\ n \in Nat /\ d + n =< MemSize /\ s + n =< MemSize
        /\ call.fn = "memcpy" => d + n =< s \/ s + n =< d
    BY CountCall DEF Counted
  <1>2. Copied(mem, m, d, s, n, M)
    BY MoveIsCopied
  <1>3. i \in 0 .. n /\ i < n
    OBVIOUS
  <1>4. /\ M \in SUBSET (0 .. n - 1) /\ k \in (0 .. n - 1) \ M
        /\ Moved' = M \cup {k}
        /\ \A l \in (0 .. n - 1) \ (M \cup {k}) : s + l # d + k
    <2>1. CASE call.fn = "memmove" /\ ~forward
      <3>1. k = n - 1 - i /\ M = n - i .. n - 1 /\ ~(d =< s)
        BY <2>1 DEF Moved, forward
      <3>2. Moved' = n - (i + 1) .. n - 1
        BY <2>1 DEF Moved, forward
      <3> HIDE DEF d, s, n, m, M
      <3>3. /\ n - i .. n - 1 \in SUBSET (0 .. n - 1)
            /\ n - 1 - i \in (0 .. n - 1) \ (n - i .. n - 1)
            /\ n - (i + 1) .. n - 1 = (n - i .. n - 1) \cup {n - 1 - i}
            /\ \A l \in (0 .. n - 1) \ ((n - i .. n - 1) \cup {n - 1 - i}) : s + l # d + (n - 1 - i)
        BY <1>1, <1>3, <3>1, HighEnd
      <3> QED
        BY <3>1, <3>2, <3>3, Zenon
    <2>2. CASE ~(call.fn = "memmove" /\ ~forward)
      <3>1. k = i /\ M = 0 .. i - 1
        BY <2>2 DEF Moved, forward
      <3>2. Moved' = 0 .. (i + 1) - 1
        BY <2>2 DEF Moved, forward
      <3>3. d =< s \/ d + n =< s \/ s + n =< d
        BY <1>1, <2>2 DEF forward
      <3> HIDE DEF d, s, n, m, M
      <3>4. /\ 0 .. i - 1 \in SUBSET (0 .. n - 1) /\ i \in (0 .. n - 1) \ (0 .. i - 1)
            /\ 0 .. (i + 1) - 1 = (0 .. i - 1) \cup {i}
            /\ \A l \in (0 .. n - 1) \ ((0 .. i - 1) \cup {i}) : s + l # d + i
        BY <1>1, <1>3, <3>3, LowEnd
      <3> QED
        BY <3>1, <3>2, <3>4, Zenon
    <2> QED
      BY <2>1, <2>2
  <1>5. mem' = Poked(mem, d + k, mem[s + k]) /\ mem \in [0 .. MemSize - 1 -> Nat]
    BY <1>1 DEF Poked
  <1> HIDE DEF d, s, n, m, M
  <1>6. mem' \in [0 .. MemSize - 1 -> Nat] /\ Copied(mem', m, d, s, n, M \cup {k})
    <2>1. /\ Poked(mem, d + k, mem[s + k]) \in [0 .. MemSize - 1 -> Nat]
          /\ Copied(Poked(mem, d + k, mem[s + k]), m, d, s, n, M \cup {k})
      <3>1. MayCopy(MemSize, d, s, n, mem, M, k)
        BY <1>1, <1>4, <1>5 DEF MayCopy
      <3> QED  BY <1>2, <3>1, CopyByte
    <2> QED
      BY <1>5, <2>1, Zenon
  <1>7. mem' \in [Addr -> Nat]
    BY <1>1, <1>6
  <1>8. Copied(mem', call'.m, call'.d, call'.s, call'.n, Moved')
    BY <1>4, <1>6 DEF d, s, n, m
  <1> QED
    BY <1>7, <1>8 DEF MoveKeepsSource, Copied

\* One byte of memset().
LEMMA SetByte ==
    ASSUME NEW z \in Nat, NEW d \in Nat, NEW n \in Nat, d + n =< z, NEW v \in Nat,
           NEW j \in 0 .. n, j < n, NEW m, NEW a \in [0 .. z - 1 -> Nat],
           \A p \in 0 .. z - 1 : a[p] = IF p \in d .. d + j - 1 THEN v ELSE m[p]
    PROVE  /\ [a EXCEPT ![d + j] = v] \in [0 .. z - 1 -> Nat]
           /\ \A p \in 0 .. z - 1 : [a EXCEPT ![d + j] = v][p] =
                 IF p \in d .. d + (j + 1) - 1 THEN v ELSE m[p]
  <1>1. d + j \in 0 .. z - 1
    OBVIOUS
  <1>2. \A p \in 0 .. z - 1 : p \in d .. d + (j + 1) - 1 <=> p \in d .. d + j - 1 \/ p = d + j
    OBVIOUS
  <1> QED
    BY <1>1, <1>2

\* The first j of b bytes from s are copied to t; a is memory of size z.
Appended(a, m, z, t, s, b, j) ==
    /\ \A k \in 0 .. j - 1 : a[t + k] = m[s + k]
    /\ \A p \in (0 .. z - 1) \ (t .. t + b - 1) : a[p] = m[p]

\* One byte of strcat(): the source s is read behind the target t, or in front
\* of it; b bytes are copied in all.
LEMMA CatByte ==
    ASSUME NEW z \in Nat, NEW t \in 0 .. z - 1, NEW s \in Nat, NEW b \in Nat \ {0},
           t + b =< z, s + b =< z, t + b =< s \/ s + b =< t,
           NEW m, NEW a \in [0 .. z - 1 -> Nat], NEW j \in 0 .. b - 1,
           Appended(a, m, z, t, s, b, j)
    PROVE  /\ a[s + j] = m[s + j]
           /\ [a EXCEPT ![t + j] = a[s + j]] \in [0 .. z - 1 -> Nat]
           /\ Appended([a EXCEPT ![t + j] = a[s + j]], m, z, t, s, b, j + 1)
  <1>1. /\ t + j \in 0 .. z - 1 /\ t + j \in t .. t + b - 1
        /\ s + j \in (0 .. z - 1) \ (t .. t + b - 1)
    OBVIOUS
  <1>2. a[s + j] = m[s + j]
    BY <1>1 DEF Appended
  <1> DEFINE a2 == [a EXCEPT ![t + j] = a[s + j]]
  <1>3. a2 \in [0 .. z - 1 -> Nat] /\ \A p \in 0 .. z - 1 : a2[p] = IF p = t + j THEN m[s + j] ELSE a[p]
    BY <1>1, <1>2
  <1> HIDE DEF a2
  <1>4. ASSUME NEW k \in 0 .. (j + 1) - 1 PROVE a2[t + k] = m[s + k]
    <2>1. t + k \in 0 .. z - 1 /\ (k # j => k \in 0 .. j - 1 /\ t + k # t + j)
      OBVIOUS
    <2> QED
      BY <1>3, <2>1 DEF Appended
  <1>5. ASSUME NEW p \in (0 .. z - 1) \ (t .. t + b - 1) PROVE a2[p] = m[p]
    BY <1>1, <1>3 DEF Appended
  <1>6. Appended(a2, m, z, t, s, b, j + 1)
    BY <1>4, <1>5 DEF Appended
  <1> QED
    BY <1>2, <1>3, <1>6 DEF a2

\* The initial state satisfies the invariant.
LEMMA StrInitInv == StrInit => StrInv
  <1> SUFFICES ASSUME StrInit PROVE StrInv
    OBVIOUS
  <1>1. CASE call \in [fn : Readers, a : CString, b : CString, n : Byte \cup 0 .. MaxLen + 1]
    BY <1>1 DEF StrInv, Readers, Writers
  <1>2. CASE /\ call \in [fn : Writers, d : Addr, s : Addr, n : 0 .. MemSize, m : Memories]
             /\ CopyCall(call) /\ mem = call.m
    <2>1. call.m \in [Addr -> Nat]
      <3>1. call.m \in [Addr -> 0 .. 255]
        BY <1>2, StringsAssumption DEF Addr
      <3> QED
        BY <3>1
    <2>2. WriteCall(call) /\ mem \in [Addr -> Nat] /\ call.n \in Nat /\ call.fn \in Writers
      BY <1>2, <2>1, StringsAssumption DEF WriteCall
    <2>3. i = 0 /\ at = IF call.fn \in Terminated THEN "seek" ELSE "copy"
      BY DEF StrInit, Terminated
    <2>4. CountInv
      BY <2>2, <2>3 DEF CountInv, Counted, Terminated
    <2>5. SetInv
      <3>1. ASSUME call.fn = "memset", NEW p \in Addr
            PROVE  p \notin call.d .. call.d + i - 1
        <4>1. call.d \in Nat
          BY <2>2, StringsAssumption DEF WriteCall, Addr
        <4> QED
          BY <2>3, <4>1
      <3> QED
        BY <1>2, <3>1 DEF SetInv
    <2>6. MoveKeepsSource
      <3>1. call.fn \in {"memmove", "memcpy"} => Moved = {}
        BY <2>2, <2>3 DEF Moved
      <3> QED
        BY <1>2, <3>1 DEF MoveKeepsSource
    <2>7. CatInv
      BY <1>2, <2>3 DEF CatInv
    <2> QED
      BY <2>2, <2>4, <2>5, <2>6, <2>7 DEF StrInv
  <1> QED
    BY <1>1, <1>2 DEF StrInit

\* No step of a function that writes disturbs the invariant.
LEMMA StrNextInv == StrInv /\ [StrStep \/ StrReturned]_strVars => StrInv'
  <1> SUFFICES ASSUME StrInv, [StrStep \/ StrReturned]_strVars PROVE StrInv'
    OBVIOUS
  <1>1. call' = call
    BY DEF StrStep, StrReturned, strVars, Memset, Memcpy, Memmove, Strcpy, StrcatSeek,
           StrcatCopy, LoopEnds, Answer, Write
  <1>2. CASE call.fn \notin Writers
    BY <1>1, <1>2 DEF StrInv
  <1> SUFFICES ASSUME call.fn \in Writers PROVE StrInv'
    BY <1>2
  <1>3. WriteCall(call) /\ mem \in [Addr -> Nat] /\ CountInv /\ SetInv /\ MoveKeepsSource /\ CatInv
    BY DEF StrInv
  <1>4. WriteCall(call)'
    BY <1>1, <1>3 DEF WriteCall, CopyCall, EndOf, Disjoint
  <1>5. SUFFICES (mem \in [Addr -> Nat])' /\ CountInv' /\ SetInv' /\ MoveKeepsSource' /\ CatInv'
    BY <1>1, <1>4 DEF StrInv
  <1>6. ASSUME call.fn \in Counted
        PROVE  /\ MemSize \in Nat /\ Addr = 0 .. MemSize - 1
               /\ call.d \in Nat /\ call.s \in Nat /\ call.n \in Nat
               /\ call.d + call.n =< MemSize
    BY <1>3, <1>6, CountCall
  <1>7. ASSUME Memset
        PROVE  (mem \in [Addr -> Nat])' /\ CountInv' /\ SetInv' /\ MoveKeepsSource' /\ CatInv'
    <2> DEFINE d == call.d
               n == call.n
               v == call.s
               m == call.m
    <2>1. /\ call.fn = "memset" /\ at = "copy" /\ i < n /\ i \in 0 .. n
          /\ mem' = [mem EXCEPT ![d + i] = v] /\ i' = i + 1 /\ at' = at
      BY <1>3, <1>7 DEF Memset, Write, Left, CountInv, Counted
    <2>2. /\ MemSize \in Nat /\ Addr = 0 .. MemSize - 1
          /\ d \in Nat /\ v \in Nat /\ n \in Nat /\ d + n =< MemSize
      BY <1>6, <2>1 DEF Counted
    <2>3. \A p \in Addr : mem[p] = IF p \in d .. d + i - 1 THEN v ELSE m[p]
      BY <1>3, <2>1 DEF SetInv
    <2> HIDE DEF d, n, v, m
    <2>4. mem \in [0 .. MemSize - 1 -> Nat]
      BY <1>3, <2>2
    <2>5. /\ [mem EXCEPT ![d + i] = v] \in [0 .. MemSize - 1 -> Nat]
          /\ \A p \in 0 .. MemSize - 1 : [mem EXCEPT ![d + i] = v][p] =
                IF p \in d .. d + (i + 1) - 1 THEN v ELSE m[p]
      BY <2>1, <2>2, <2>3, <2>4, SetByte
    <2>6. mem' \in [Addr -> Nat]
      BY <2>1, <2>2, <2>5, Zenon
    <2>7. \A p \in Addr : mem'[p] = IF p \in d .. d + i' - 1 THEN v ELSE m[p]
      BY <2>1, <2>2, <2>5, Zenon
    <2>8. SetInv'
      BY <1>1, <2>7, Zenon DEF SetInv, d, v, m
    <2>9. i' \in 0 .. n
      BY <2>1, <2>2
    <2>10. CountInv'
      BY <1>1, <2>1, <2>9 DEF CountInv, n
    <2>11. MoveKeepsSource' /\ CatInv'
      BY <1>1, <2>1 DEF MoveKeepsSource, CatInv, Terminated
    <2> QED
      BY <2>6, <2>8, <2>10, <2>11
  <1>8. ASSUME Memcpy \/ Memmove
        PROVE  (mem \in [Addr -> Nat])' /\ CountInv' /\ SetInv' /\ MoveKeepsSource' /\ CatInv'
    <2>1. /\ call.fn \in {"memmove", "memcpy"} /\ at = "copy" /\ i < call.n
          /\ i \in 0 .. call.n /\ i' = i + 1 /\ at' = at /\ call.n \in Nat
      BY <1>3, <1>6, <1>8 DEF Memcpy, Memmove, Write, Left, CountInv, Counted
    <2> DEFINE k == IF call.fn = "memmove" /\ ~forward THEN call.n - 1 - i ELSE i
    <2>2. mem' = [mem EXCEPT ![call.d + k] = mem[call.s + k]]
      BY <1>8 DEF Memcpy, Memmove, Write
    <2>3. (mem \in [Addr -> Nat])' /\ MoveKeepsSource'
      BY <1>1, <1>3, <2>1, <2>2, MoveStep
    <2>4. i' \in 0 .. call.n
      BY <2>1
    <2>5. CountInv'
      BY <1>1, <2>1, <2>4 DEF CountInv
    <2>6. SetInv' /\ CatInv'
      BY <1>1, <2>1 DEF SetInv, CatInv, Terminated
    <2> QED
      BY <2>3, <2>5, <2>6
  <1>9. ASSUME LoopEnds
        PROVE  (mem \in [Addr -> Nat])' /\ CountInv' /\ SetInv' /\ MoveKeepsSource' /\ CatInv'
    <2>1. call.fn \in Counted /\ at = "copy" /\ ~(i < call.n) /\ at' = "done" /\ UNCHANGED <<mem, i>>
      BY <1>9 DEF LoopEnds, Counted, Left
    <2>2. i \in 0 .. call.n /\ call.n \in Nat
      BY <1>3, <1>6, <2>1 DEF CountInv
    <2>3. i = call.n
      BY <2>1, <2>2
    <2>4. CountInv'
      BY <1>1, <2>1, <2>2, <2>3 DEF CountInv
    <2>5. SetInv' /\ MoveKeepsSource'
      BY <1>1, <1>3, <2>1 DEF SetInv, MoveKeepsSource, Moved, forward
    <2>6. CatInv'
      BY <1>1, <2>1 DEF CatInv, Terminated, Counted
    <2> QED
      BY <1>3, <2>1, <2>4, <2>5, <2>6
  <1>10. ASSUME call.fn \in Terminated
         PROVE  CountInv' /\ SetInv' /\ MoveKeepsSource' /\ To' = To /\ Bytes' = Bytes
    BY <1>1, <1>10 DEF CountInv, SetInv, MoveKeepsSource, Terminated, Counted, To, Bytes, EndOf
  <1>11. ASSUME Strcpy \/ StrcatSeek
         PROVE  (mem \in [Addr -> Nat])' /\ CountInv' /\ SetInv' /\ MoveKeepsSource' /\ CatInv'
    <2>1. call.fn \in Terminated /\ at = "seek" /\ at' = "copy" /\ i' = i
      BY <1>11 DEF Strcpy, StrcatSeek, Terminated
    <2>2. mem = call.m /\ i = 0
      BY <1>3, <2>1 DEF CatInv
    <2>3. /\ MemSize \in Nat /\ Addr = 0 .. MemSize - 1
          /\ To \in Addr /\ Bytes \in Nat \ {0} /\ To + Bytes =< MemSize
      BY <1>3, <2>1, CatCall
    <2>4. /\ dst' = To
          /\ mem' = mem \/ mem' = [mem EXCEPT ![To] = NUL]
      BY <1>11, <2>2 DEF Strcpy, StrcatSeek, To
    <2>5. mem' \in [Addr -> Nat]
      BY <1>3, <2>4 DEF NUL
    <2>6. To \in To .. To + Bytes - 1 /\ 0 \in 0 .. Bytes - 1 /\ 0 .. 0 - 1 = {}
      BY <2>3
    <2>7. \A p \in Addr \ (To .. To + Bytes - 1) : mem'[p] = call.m[p]
      BY <1>3, <2>2, <2>4, <2>6
    <2>8. CatInv'
      BY <1>1, <1>10, <2>1, <2>2, <2>4, <2>6, <2>7 DEF CatInv
    <2> QED
      BY <1>10, <2>1, <2>5, <2>8
  <1>12. ASSUME StrcatCopy
         PROVE  (mem \in [Addr -> Nat])' /\ CountInv' /\ SetInv' /\ MoveKeepsSource' /\ CatInv'
    <2> DEFINE t == To
               b == Bytes
               s == call.s
               m == call.m
    <2>1. /\ call.fn \in Terminated /\ at = "copy" /\ i' = i + 1 /\ dst' = dst
          /\ mem' = [mem EXCEPT ![dst + i] = mem[s + i]]
          /\ at' = IF mem[s + i] = NUL THEN "done" ELSE "copy"
      BY <1>12 DEF StrcatCopy, Terminated
    <2>2. /\ dst = t /\ i \in 0 .. b - 1
          /\ \A k \in 0 .. i - 1 : mem[t + k] = m[s + k]
          /\ \A p \in Addr \ (t .. t + b - 1) : mem[p] = m[p]
      BY <1>3, <2>1 DEF CatInv
    <2>3. /\ MemSize \in Nat /\ Addr = 0 .. MemSize - 1 /\ s \in Nat
          /\ t \in Addr /\ b \in Nat \ {0} /\ t + b =< MemSize /\ s + b =< MemSize
          /\ m[s + b - 1] = NUL /\ (\A k \in 0 .. b - 2 : m[s + k] # NUL)
          /\ t + b =< s \/ s + b =< t
      BY <1>3, <2>1, CatCall
    <2> HIDE DEF t, b, s, m
    <2>4. mem \in [0 .. MemSize - 1 -> Nat] /\ t \in 0 .. MemSize - 1
      BY <1>3, <2>3
    <2>5. Appended(mem, m, MemSize, t, s, b, i)
      BY <2>2, <2>3 DEF Appended
    <2>6. /\ mem[s + i] = m[s + i]
          /\ [mem EXCEPT ![t + i] = mem[s + i]] \in [0 .. MemSize - 1 -> Nat]
          /\ Appended([mem EXCEPT ![t + i] = mem[s + i]], m, MemSize, t, s, b, i + 1)
      <3>1. /\ MemSize \in Nat /\ s \in Nat /\ b \in Nat \ {0} /\ i \in 0 .. b - 1
            /\ t + b =< MemSize /\ s + b =< MemSize /\ (t + b =< s \/ s + b =< t)
        BY <2>2, <2>3
      <3> QED
        BY <2>4, <2>5, <3>1, CatByte
    <2>7. /\ mem' \in [Addr -> Nat]
          /\ \A k \in 0 .. i' - 1 : mem'[t + k] = m[s + k]
          /\ \A p \in Addr \ (t .. t + b - 1) : mem'[p] = m[p]
      BY <2>1, <2>2, <2>3, <2>6, Zenon DEF Appended
    <2>8. CASE mem[s + i] = NUL
      <3>1. i = b - 1
        <4>1. i \notin 0 .. b - 2
          BY <2>3, <2>6, <2>8
        <4> QED
          BY <2>2, <2>3, <4>1
      <3>2. at' = "done" /\ i' = b
        BY <2>1, <2>3, <2>8, <3>1
      <3>3. CatInv'
        BY <1>1, <1>10, <2>1, <2>2, <2>7, <3>2 DEF CatInv, t, b, s, m
      <3> QED
        BY <1>10, <2>1, <2>7, <3>3
    <2>9. CASE mem[s + i] # NUL
      <3>1. i # b - 1
        BY <2>3, <2>6, <2>9
      <3>2. at' = "copy" /\ i' \in 0 .. b - 1
        <4>1. i \in 0 .. b - 1 /\ b \in Nat /\ i' = i + 1 /\ at' = "copy"
          BY <2>1, <2>2, <2>3, <2>9
        <4> QED
          BY <3>1, <4>1
      <3>3. CatInv'
        BY <1>1, <1>10, <2>1, <2>2, <2>7, <3>2 DEF CatInv, t, b, s, m
      <3> QED
        BY <1>10, <2>1, <2>7, <3>3
    <2> QED
      BY <2>8, <2>9
  <1>13. ASSUME UNCHANGED strVars
         PROVE  (mem \in [Addr -> Nat])' /\ CountInv' /\ SetInv' /\ MoveKeepsSource' /\ CatInv'
    <2>1. mem' = mem /\ i' = i /\ at' = at /\ dst' = dst
      BY <1>13 DEF strVars
    <2>2. Moved' = Moved /\ To' = To /\ Bytes' = Bytes
      BY <1>1, <2>1 DEF Moved, forward, To, Bytes, EndOf
    <2>3. CountInv' /\ SetInv'
      BY <1>1, <1>3, <2>1 DEF CountInv, SetInv
    <2>4. MoveKeepsSource'
      BY <1>1, <1>3, <2>1, <2>2 DEF MoveKeepsSource
    <2>5. CatInv'
      BY <1>1, <1>3, <2>1, <2>2 DEF CatInv
    <2> QED
      BY <1>3, <2>1, <2>3, <2>4, <2>5
  <1>14. ~Answer
    BY DEF Answer, Writers, Readers
  <1> QED
    BY <1>7, <1>8, <1>9, <1>11, <1>12, <1>13, <1>14 DEF StrStep, StrReturned

-----------------------------------------------------------------------------
(* Strings: the theorems. *)

\* StrInv holds in every reachable state.
LEMMA StrInvariance == StrSpec => []StrInv
  BY StrInitInv, StrNextInv, PTL DEF StrSpec

\* However large memory is and however the areas overlap, memmove() and
\* memcpy() destroy no byte they have still to copy.
THEOREM StringsMoveKeepsSource == StrSpec => []MoveKeepsSource
  <1>1. StrInv => MoveKeepsSource
    BY DEF StrInv, MoveKeepsSource, Writers
  <1> QED
    BY <1>1, StrInvariance, PTL

\* memset(), memcpy(), memmove(), strcpy() and strcat() leave in their target
\* what they should and do not touch a byte around it, for every memory, every
\* string and every legal placement of the areas.
THEOREM StringsWritesTarget == StrSpec => []WritesTarget
  <1>1. ASSUME StrInv, at = "done", call.fn \in Writers, NEW p \in Addr
        PROVE  mem[p] = After(p)
    <2>1. WriteCall(call) /\ mem \in [Addr -> Nat] /\ CountInv /\ SetInv /\ MoveKeepsSource /\ CatInv
      BY <1>1 DEF StrInv
    <2>2. CASE call.fn = "memset"
      <3>1. i = call.n
        BY <1>1, <2>1, <2>2 DEF CountInv, Counted
      <3> QED
        BY <2>1, <2>2, <3>1 DEF SetInv, After
    <2>3. CASE call.fn \in {"memmove", "memcpy"}
      <3> DEFINE d == call.d
                 s == call.s
                 n == call.n
      <3>1. i = n
        BY <1>1, <2>1, <2>3 DEF CountInv, Counted
      <3>2. Addr = 0 .. MemSize - 1 /\ MemSize \in Nat /\ d \in Nat /\ s \in Nat /\ n \in Nat
        BY <2>1, <2>3, CountCall DEF Counted
      <3>3. Moved = 0 .. n - 1
        BY <3>1, <3>2 DEF Moved
      <3>4. /\ \A k \in Moved : mem[d + k] = call.m[s + k]
            /\ mem[p] # call.m[p] => p - d \in Moved
        BY <2>1, <2>3 DEF MoveKeepsSource
      <3>5. After(p) = IF p \notin d .. d + n - 1 THEN call.m[p] ELSE call.m[s + p - d]
        BY <2>3 DEF After
      <3> HIDE DEF d, s, n
      <3>6. CASE p \in d .. d + n - 1
        <4>1. p - d \in 0 .. n - 1 /\ d + (p - d) = p /\ s + (p - d) = s + p - d
          BY <3>2, <3>6
        <4>2. mem[d + (p - d)] = call.m[s + (p - d)]
          BY <3>3, <3>4, <4>1
        <4> QED
          BY <3>5, <3>6, <4>1, <4>2
      <3>7. CASE p \notin d .. d + n - 1
        <4>1. p - d \notin 0 .. n - 1
          BY <3>2, <3>7
        <4> QED
          BY <3>3, <3>4, <3>5, <3>7, <4>1
      <3> QED
        BY <3>6, <3>7
    <2>4. CASE call.fn \in Terminated
      <3> DEFINE t == To
                 b == Bytes
                 s == call.s
      <3>1. /\ i = b
            /\ \A k \in 0 .. i - 1 : mem[t + k] = call.m[s + k]
            /\ p \notin t .. t + b - 1 => mem[p] = call.m[p]
        BY <1>1, <2>1, <2>4 DEF CatInv
      <3>2. /\ MemSize \in Nat /\ Addr = 0 .. MemSize - 1 /\ s \in Nat
            /\ t \in Addr /\ b \in Nat \ {0}
        BY <2>1, <2>4, CatCall
      <3>3. After(p) = IF p \notin t .. t + b - 1 THEN call.m[p] ELSE call.m[s + p - t]
        BY <2>4 DEF After, To, Bytes, Terminated
      <3> HIDE DEF t, b, s
      <3>4. CASE p \in t .. t + b - 1
        <4>1. p - t \in 0 .. i - 1 /\ t + (p - t) = p /\ s + (p - t) = s + p - t
          BY <3>1, <3>2, <3>4
        <4>2. mem[t + (p - t)] = call.m[s + (p - t)]
          BY <3>1, <4>1
        <4> QED
          BY <3>3, <3>4, <4>1, <4>2
      <3>5. CASE p \notin t .. t + b - 1
        BY <3>1, <3>3, <3>5
      <3> QED
        BY <3>4, <3>5
    <2> QED
      BY <1>1, <2>2, <2>3, <2>4 DEF Writers, Terminated
  <1>2. StrInv => WritesTarget
    BY <1>1 DEF WritesTarget
  <1> QED
    BY <1>2, StrInvariance, PTL

-----------------------------------------------------------------------------
(* Strings: the functions that read. *)

IsString(s) ==
    /\ s \in Seq(0 .. 255) /\ Len(s) >= 1 /\ s[Len(s)] = NUL
    /\ \A k \in 1 .. Len(s) - 1 : s[k] # NUL

\* The strings of the calls are C strings, and no longer than the longest.
LEMMA CStrings ==
    ASSUME NEW s \in CString
    PROVE  IsString(s) /\ Len(s) <= SIZE_MAX
  <1>1. PICK t \in Body : s = Append(t, NUL)
    BY DEF CString
  <1>2. PICK k \in 0 .. MaxLen : t \in [1 .. k -> Byte \ {NUL}]
    BY <1>1 DEF Body
  <1>3. k \in Nat /\ k < SIZE_MAX /\ Byte \subseteq 0 .. 255
    <2>1. MaxLen \in 0 .. SIZE_MAX - 1 /\ Byte \subseteq 0 .. 255
      BY StringsAssumption
    <2>2. SIZE_MAX \in Nat
      BY DEF SIZE_MAX
    <2> QED  BY <2>1, <2>2
  <1>4. t \in [1 .. k -> 0 .. 255] /\ \A j \in 1 .. k : t[j] # NUL
    BY <1>2, <1>3
  <1>5. t \in Seq(0 .. 255) /\ Len(t) = k
    BY <1>3, <1>4
  <1>6. s \in Seq(0 .. 255) /\ Len(s) = k + 1 /\ s[k + 1] = NUL /\ \A j \in 1 .. k : s[j] = t[j]
    BY <1>1, <1>5 DEF NUL
  <1> QED
    BY <1>3, <1>4, <1>6 DEF IsString, SIZE_MAX

\* The least element of a set is the first.
LEMMA FirstIs ==
    ASSUME NEW S, NEW x \in S, x \in Int, \A y \in S : y \in Int /\ x <= y
    PROVE  First(S) = x
  <1>1. \A y \in S : (\A j \in S : y <= j) => y = x
    OBVIOUS
  <1>2. S # {} /\ (CHOOSE k \in S : \A j \in S : k <= j) = x
    BY <1>1
  <1> QED
    BY <1>2 DEF First

LenEq(f, s) == f = [k \in 1 .. Len(s) |-> IF s[k] = NUL THEN 0 ELSE 1 + f[k + 1]]

\* strlen() does not count the NUL.
LEMMA StrlenIs ==
    ASSUME NEW s, IsString(s)
    PROVE  strlen(s) = Len(s) - 1
  <1> DEFINE n == Len(s)
             e == [k \in 1 .. n |-> n - k]
             f == CHOOSE g : LenEq(g, s)
             T == {m \in Nat : m < n => f[n - m] = m}
  <1>1. n \in Nat /\ n >= 1 /\ s[n] = NUL /\ \A k \in 1 .. n - 1 : s[k] # NUL
    BY DEF IsString
  <1>2. strlen(s) = f[1]
    BY Zenon DEF strlen, LenEq
  <1> HIDE DEF n
  <1>3. LenEq(e, s)
    <2>1. ASSUME NEW k \in 1 .. n PROVE e[k] = IF s[k] = NUL THEN 0 ELSE 1 + e[k + 1]
      <3>1. CASE k = n
        BY <1>1, <3>1
      <3>2. CASE k # n
        <4>1. k \in 1 .. n - 1 /\ k + 1 \in 1 .. n
          BY <1>1, <3>2
        <4> QED  BY <1>1, <4>1
      <3> QED  BY <3>1, <3>2
    <2>2. e = [k \in 1 .. n |-> IF s[k] = NUL THEN 0 ELSE 1 + e[k + 1]]
      BY <2>1
    <2> QED  BY <2>2 DEF LenEq, n
  <1> HIDE DEF e
  <1>4. LenEq(f, s)
    BY <1>3, Zenon
  <1> HIDE DEF f
  <1>5. \A k \in 1 .. n : f[k] = IF s[k] = NUL THEN 0 ELSE 1 + f[k + 1]
    BY <1>4 DEF LenEq, n
  <1>6. 0 \in T
    BY <1>1, <1>5
  <1>7. ASSUME NEW m \in Nat, m \in T
        PROVE  m + 1 \in T
    <2>1. CASE m + 1 < n
      <3>1. PICK k \in 1 .. n - 1 : k = n - (m + 1) /\ k + 1 = n - m
        BY <1>1, <2>1
      <3>2. f[k + 1] = m
        BY <1>1, <1>7, <2>1, <3>1
      <3>3. f[k] = 1 + f[k + 1]
        BY <1>1, <1>5
      <3> QED  BY <3>1, <3>2, <3>3
    <2>2. CASE ~(m + 1 < n)
      BY <2>2
    <2> QED  BY <2>1, <2>2
  <1> HIDE DEF T
  <1>8. Nat \subseteq T
    BY <1>6, <1>7, SetInduction
  <1>9. n - 1 \in T /\ n - (n - 1) = 1 /\ n - 1 < n
    BY <1>1, <1>8
  <1>10. f[1] = n - 1
    BY <1>9 DEF T
  <1> QED
    BY <1>2, <1>10 DEF n

ChrEq(f, s, c) ==
    f = [k \in 1 .. Len(s) |-> IF s[k] = c THEN k ELSE IF s[k] = NUL THEN 0 ELSE f[k + 1]]

\* strchr() finds the first c, be it the NUL.
LEMMA StrchrIs ==
    ASSUME NEW s, IsString(s), NEW c
    PROVE  strchr(s, c) = First({k \in 1 .. Len(s) : s[k] = c})
  <1> DEFINE n == Len(s)
             D == {k \in Nat : s[k] = c \/ s[k] = NUL}
             v == [k \in Nat |-> IF s[k] = c THEN k ELSE 0]
             f == CHOOSE g : ChrEq(g, s, c)
  <1>1. n \in Nat /\ n >= 1 /\ s[n] = NUL /\ \A k \in 1 .. n - 1 : s[k] # NUL
    BY DEF IsString
  <1>2. strchr(s, c) = f[1]
    BY Zenon DEF strchr, ChrEq
  <1> HIDE DEF n
  <1>3. ASSUME NEW g PROVE ChrEq(g, s, c) <=> Searches(g, 1 .. n, D, v)
    <2>1. ASSUME NEW k \in 1 .. n
          PROVE  (IF s[k] = c THEN k ELSE IF s[k] = NUL THEN 0 ELSE g[k + 1])
                   = (IF k \in D THEN v[k] ELSE g[k + 1])
      OBVIOUS
    <2> HIDE DEF D, v
    <2>2. [k \in 1 .. n |-> IF s[k] = c THEN k ELSE IF s[k] = NUL THEN 0 ELSE g[k + 1]]
            = [k \in 1 .. n |-> IF k \in D THEN v[k] ELSE g[k + 1]]
      BY <2>1
    <2> QED  BY <2>2 DEF ChrEq, Searches, n
  <1>4. \E g : Searches(g, 1 .. n, D, v)
    <2>1. \A k \in 1 .. n : k \notin D => k + 1 \in 1 .. n
      BY <1>1
    <2>2. 1 .. n \subseteq Nat
      BY <1>1
    <2> HIDE DEF D, v
    <2> QED  BY <2>1, <2>2, SearchExists
  <1>5. Searches(f, 1 .. n, D, v)
    <2> HIDE DEF D, v
    <2> QED  BY <1>3, <1>4, Zenon
  <1> HIDE DEF f
  <1>6. n \in D
    BY <1>1
  <1>7. PICK j \in 1 .. n : j \in D /\ (\A k \in 1 .. j - 1 : k \notin D) /\ f[1] = v[j]
    <2>1. 1 \in Nat /\ n \in Nat /\ n >= 1
      BY <1>1
    <2> HIDE DEF D, v
    <2> QED  BY <1>5, <1>6, <2>1, SearchEnds
  <1>8. f[1] = v[j]
    BY <1>7
  <1>9. CASE s[j] = c
    <2>1. j \in {k \in 1 .. n : s[k] = c} /\ j \in Int
      BY <1>1, <1>9
    <2>2. ASSUME NEW k \in {k \in 1 .. n : s[k] = c} PROVE k \in Int /\ j <= k
      BY <1>1, <1>7
    <2>3. First({k \in 1 .. n : s[k] = c}) = j
      BY <2>1, <2>2, FirstIs
    <2> QED  BY <1>2, <1>8, <1>9, <2>3 DEF n
  <1>10. CASE s[j] # c
    <2>1. s[j] = NUL /\ v[j] = 0
      BY <1>7, <1>10
    <2>2. j = n
      BY <1>1, <2>1
    <2>3. {k \in 1 .. n : s[k] = c} = {}
      <3>1. ASSUME NEW k \in 1 .. n PROVE s[k] # c
        BY <1>1, <1>7, <1>10, <2>2
      <3> QED  BY <3>1
    <2> QED  BY <1>2, <1>8, <2>1, <2>3 DEF First, n
  <1> QED
    BY <1>9, <1>10

MemchrEq(f, s, c, n) ==
    f = [k \in 0 .. n |-> IF k = n THEN 0 ELSE IF s[k + 1] = c THEN k + 1 ELSE f[k + 1]]

\* memchr() finds the first c among the n bytes.
LEMMA MemchrIs ==
    ASSUME NEW s, NEW c, NEW n \in Nat
    PROVE  memchr(s, c, n) = First({k \in 1 .. n : s[k] = c})
  <1> DEFINE D == {k \in Nat : k = n \/ s[k + 1] = c}
             v == [k \in Nat |-> IF k = n THEN 0 ELSE k + 1]
             f == CHOOSE g : MemchrEq(g, s, c, n)
  <1>2. memchr(s, c, n) = f[0]
    BY Zenon DEF memchr, MemchrEq
  <1>3. ASSUME NEW g PROVE MemchrEq(g, s, c, n) <=> Searches(g, 0 .. n, D, v)
    <2>1. ASSUME NEW k \in 0 .. n
          PROVE  (IF k = n THEN 0 ELSE IF s[k + 1] = c THEN k + 1 ELSE g[k + 1])
                   = (IF k \in D THEN v[k] ELSE g[k + 1])
      OBVIOUS
    <2> HIDE DEF D, v
    <2>2. [k \in 0 .. n |-> IF k = n THEN 0 ELSE IF s[k + 1] = c THEN k + 1 ELSE g[k + 1]]
            = [k \in 0 .. n |-> IF k \in D THEN v[k] ELSE g[k + 1]]
      BY <2>1
    <2> QED  BY <2>2 DEF MemchrEq, Searches
  <1>4. \E g : Searches(g, 0 .. n, D, v)
    <2>1. \A k \in 0 .. n : k \notin D => k + 1 \in 0 .. n
      OBVIOUS
    <2>2. 0 .. n \subseteq Nat
      OBVIOUS
    <2> HIDE DEF D, v
    <2> QED  BY <2>1, <2>2, SearchExists
  <1>5. Searches(f, 0 .. n, D, v)
    <2> HIDE DEF D, v
    <2> QED  BY <1>3, <1>4, Zenon
  <1> HIDE DEF f
  <1>6. n \in D
    OBVIOUS
  <1>7. PICK j \in 0 .. n : j \in D /\ (\A k \in 0 .. j - 1 : k \notin D) /\ f[0] = v[j]
    <2>1. 0 \in Nat /\ n >= 0
      OBVIOUS
    <2> HIDE DEF D, v
    <2> QED  BY <1>5, <1>6, <2>1, SearchEnds
  <1>8. ASSUME NEW k \in 1 .. j PROVE s[k] # c
    <2>1. k - 1 \in 0 .. j - 1 /\ k - 1 + 1 = k
      OBVIOUS
    <2> QED  BY <1>7, <2>1
  <1>9. CASE j # n
    <2>1. s[j + 1] = c /\ f[0] = j + 1
      BY <1>7, <1>9
    <2>2. j + 1 \in {k \in 1 .. n : s[k] = c} /\ j + 1 \in Int
      BY <1>9, <2>1
    <2>3. ASSUME NEW k \in {k \in 1 .. n : s[k] = c} PROVE k \in Int /\ j + 1 <= k
      BY <1>8
    <2>4. First({k \in 1 .. n : s[k] = c}) = j + 1
      BY <2>2, <2>3, FirstIs
    <2> QED  BY <1>2, <2>1, <2>4
  <1>10. CASE j = n
    <2>1. f[0] = 0
      BY <1>7, <1>10
    <2>2. {k \in 1 .. n : s[k] = c} = {}
      BY <1>8, <1>10
    <2> QED  BY <1>2, <2>1, <2>2 DEF First
  <1> QED
    BY <1>9, <1>10

MemcmpEq(f, a, p, b, n) ==
    f = [k \in Nat |-> IF k = n THEN 0
                       ELSE IF a[p + k] # b[1 + k] THEN a[p + k] - b[1 + k] ELSE f[k + 1]]

\* The comparison of n bytes ends with r after j equal ones.
EndsWith(a, p, b, n, r, j) ==
    /\ \A k \in 0 .. j - 1 : a[p + k] = b[1 + k]
    /\ j = n => r = 0
    /\ j # n => a[p + j] # b[1 + j] /\ r = a[p + j] - b[1 + j]

\* memcmp() is the difference of the first bytes that differ, if they do.
LEMMA MemcmpIs ==
    ASSUME NEW a, NEW p, NEW b, NEW n \in Nat
    PROVE  \E j \in 0 .. n : EndsWith(a, p, b, n, memcmp(a, p, b, n), j)
  <1> DEFINE D == {k \in Nat : k = n \/ a[p + k] # b[1 + k]}
             v == [k \in Nat |-> IF k = n THEN 0 ELSE a[p + k] - b[1 + k]]
             f == CHOOSE g : MemcmpEq(g, a, p, b, n)
  <1>2. memcmp(a, p, b, n) = f[0]
    BY Zenon DEF memcmp, MemcmpEq
  <1>3. ASSUME NEW g PROVE MemcmpEq(g, a, p, b, n) <=> Searches(g, Nat, D, v)
    <2>1. ASSUME NEW k \in Nat
          PROVE  (IF k = n THEN 0
                  ELSE IF a[p + k] # b[1 + k] THEN a[p + k] - b[1 + k] ELSE g[k + 1])
                   = (IF k \in D THEN v[k] ELSE g[k + 1])
      OBVIOUS
    <2> HIDE DEF D, v
    <2>2. [k \in Nat |-> IF k = n THEN 0
                         ELSE IF a[p + k] # b[1 + k] THEN a[p + k] - b[1 + k] ELSE g[k + 1]]
            = [k \in Nat |-> IF k \in D THEN v[k] ELSE g[k + 1]]
      BY <2>1
    <2> QED  BY <2>2 DEF MemcmpEq, Searches
  <1>4. \E g : Searches(g, Nat, D, v)
    <2>1. \A k \in Nat : k \notin D => k + 1 \in Nat
      OBVIOUS
    <2> HIDE DEF D, v
    <2> QED  BY <2>1, SearchExists
  <1>5. Searches(f, Nat, D, v)
    <2> HIDE DEF D, v
    <2> QED  BY <1>3, <1>4, Zenon
  <1> HIDE DEF f
  <1>6. n \in D
    OBVIOUS
  <1>7. PICK j \in 0 .. n : j \in D /\ (\A k \in 0 .. j - 1 : k \notin D) /\ f[0] = v[j]
    <2>1. PICK dom : dom = Nat
      OBVIOUS
    <2>2. 0 \in Nat /\ n >= 0 /\ \A k \in 0 .. n : k \in dom
      BY <2>1
    <2> HIDE DEF D, v
    <2>3. Searches(f, dom, D, v)
      BY <1>5, <2>1
    <2> QED  BY <1>6, <2>2, <2>3, SearchEnds
  <1>8. \A k \in 0 .. j - 1 : a[p + k] = b[1 + k]
    BY <1>7
  <1>9. (j = n => f[0] = 0) /\ (j # n => a[p + j] # b[1 + j] /\ f[0] = a[p + j] - b[1 + j])
    BY <1>7
  <1>10. EndsWith(a, p, b, n, f[0], j)
    BY <1>8, <1>9 DEF EndsWith
  <1> QED
    BY <1>2, <1>10, Zenon

StrncmpEq(f, a, b, n) ==
    f = [k \in Nat |-> IF k = n THEN 0
                       ELSE IF a[k + 1] # b[k + 1] \/ a[k + 1] = NUL
                            THEN schar(a[k + 1]) - schar(b[k + 1]) ELSE f[k + 1]]

\* After j characters that agree the result is r.
Compared(a, b, n, r, j) ==
    /\ \A k \in 1 .. j : a[k] = b[k] /\ a[k] # NUL
    /\ j = n => r = 0
    /\ j # n => /\ a[j + 1] # b[j + 1] \/ a[j + 1] = NUL
                /\ r = schar(a[j + 1]) - schar(b[j + 1])

\* strncmp() stops at the first characters that differ, at the NUL of both, or
\* after n characters.
LEMMA StrncmpIs ==
    ASSUME NEW a, NEW b, NEW n \in Nat
    PROVE  \E j \in 0 .. n : Compared(a, b, n, strncmp(a, b, n), j)
  <1> DEFINE D == {k \in Nat : k = n \/ a[k + 1] # b[k + 1] \/ a[k + 1] = NUL}
             v == [k \in Nat |-> IF k = n THEN 0 ELSE schar(a[k + 1]) - schar(b[k + 1])]
             f == CHOOSE g : StrncmpEq(g, a, b, n)
  <1>2. strncmp(a, b, n) = f[0]
    BY Zenon DEF strncmp, StrncmpEq
  <1>3. ASSUME NEW g PROVE StrncmpEq(g, a, b, n) <=> Searches(g, Nat, D, v)
    <2>1. ASSUME NEW k \in Nat
          PROVE  (IF k = n THEN 0
                  ELSE IF a[k + 1] # b[k + 1] \/ a[k + 1] = NUL
                       THEN schar(a[k + 1]) - schar(b[k + 1]) ELSE g[k + 1])
                   = (IF k \in D THEN v[k] ELSE g[k + 1])
      OBVIOUS
    <2> HIDE DEF D, v
    <2>2. [k \in Nat |-> IF k = n THEN 0
                         ELSE IF a[k + 1] # b[k + 1] \/ a[k + 1] = NUL
                              THEN schar(a[k + 1]) - schar(b[k + 1]) ELSE g[k + 1]]
            = [k \in Nat |-> IF k \in D THEN v[k] ELSE g[k + 1]]
      BY <2>1
    <2> QED  BY <2>2 DEF StrncmpEq, Searches
  <1>4. \E g : Searches(g, Nat, D, v)
    <2>1. \A k \in Nat : k \notin D => k + 1 \in Nat
      OBVIOUS
    <2> HIDE DEF D, v
    <2> QED  BY <2>1, SearchExists
  <1>5. Searches(f, Nat, D, v)
    <2> HIDE DEF D, v
    <2> QED  BY <1>3, <1>4, Zenon
  <1> HIDE DEF f
  <1>6. n \in D
    OBVIOUS
  <1>7. PICK j \in 0 .. n : j \in D /\ (\A k \in 0 .. j - 1 : k \notin D) /\ f[0] = v[j]
    <2>1. PICK dom : dom = Nat
      OBVIOUS
    <2>2. 0 \in Nat /\ n >= 0 /\ \A k \in 0 .. n : k \in dom
      BY <2>1
    <2> HIDE DEF D, v
    <2>3. Searches(f, dom, D, v)
      BY <1>5, <2>1
    <2> QED  BY <1>6, <2>2, <2>3, SearchEnds
  <1>8. ASSUME NEW k \in 1 .. j PROVE a[k] = b[k] /\ a[k] # NUL
    <2>1. k - 1 \in 0 .. j - 1 /\ k - 1 + 1 = k /\ k - 1 \in Nat
      OBVIOUS
    <2>2. k - 1 \notin D
      BY <1>7, <2>1
    <2> QED  BY <2>1, <2>2
  <1>9. /\ j = n => f[0] = 0
        /\ j # n => /\ a[j + 1] # b[j + 1] \/ a[j + 1] = NUL
                    /\ f[0] = schar(a[j + 1]) - schar(b[j + 1])
    BY <1>7
  <1>10. Compared(a, b, n, f[0], j)
    BY <1>8, <1>9 DEF Compared
  <1> QED
    BY <1>2, <1>10, Zenon

\* An area of bytes.
IsBytes(a) == Len(a) \in Nat /\ \A k \in 1 .. Len(a) : a[k] \in 0 .. 255

\* A string is one.
LEMMA StringBytes ==
    ASSUME NEW s, IsString(s)
    PROVE  /\ Len(s) \in Nat /\ Len(s) >= 1 /\ s[Len(s)] = NUL
           /\ \A k \in 1 .. Len(s) - 1 : s[k] # NUL
           /\ IsBytes(s)
  <1>1. /\ Len(s) \in Nat /\ Len(s) >= 1 /\ s[Len(s)] = NUL
        /\ \A k \in 1 .. Len(s) - 1 : s[k] # NUL
    BY DEF IsString
  <1>2. PICK B : B = 0 .. 255
    OBVIOUS
  <1>3. s \in Seq(B)
    BY <1>2 DEF IsString
  <1>4. \A k \in 1 .. Len(s) : s[k] \in B
    BY <1>3
  <1> QED
    BY <1>1, <1>2, <1>4 DEF IsBytes

\* Signed characters differ where bytes do.
LEMMA ScharDiffers ==
    ASSUME NEW c \in 0 .. 255, NEW d \in 0 .. 255
    PROVE  schar(c) \in Int /\ schar(d) \in Int /\ (schar(c) = schar(d) <=> c = d)
  BY DEF schar

\* The first place where two strings differ.
LEMMA DifferIs ==
    ASSUME NEW a, NEW b, NEW n \in Nat, NEW k \in 1 .. n, Len(a) \in Nat, Len(b) \in Nat,
           k <= Len(a), k <= Len(b), a[k] # b[k], \A m \in 1 .. k - 1 : a[m] = b[m]
    PROVE  Differ(a, b, n) = k
  <1> DEFINE S == {m \in 1 .. n : m <= Len(a) /\ m <= Len(b) /\ a[m] # b[m]}
  <1>1. k \in S /\ k \in Int
    OBVIOUS
  <1>2. ASSUME NEW m \in S PROVE m \in Int /\ k <= m
    OBVIOUS
  <1> HIDE DEF S
  <1>3. First(S) = k
    BY <1>1, <1>2, FirstIs
  <1> QED
    BY <1>3 DEF Differ, S

\* Strings that agree in their first n bytes differ nowhere in them.
LEMMA NoneDiffers ==
    ASSUME NEW a, NEW b, NEW n \in Nat,
           \A m \in 1 .. n : m <= Len(a) /\ m <= Len(b) => a[m] = b[m]
    PROVE  Differ(a, b, n) = 0
  <1>1. {m \in 1 .. n : m <= Len(a) /\ m <= Len(b) /\ a[m] # b[m]} = {}
    OBVIOUS
  <1> QED
    BY <1>1 DEF Differ, First

\* strncmp() is decided by the first place where the strings differ.
LEMMA StrncmpDecides ==
    ASSUME NEW a, IsString(a), NEW b, IsString(b), NEW n \in Nat
    PROVE  LET k == Differ(a, b, n)
               r == strncmp(a, b, n)
           IN  /\ k = 0 <=> r = 0
               /\ k # 0 => (r < 0 <=> schar(a[k]) < schar(b[k]))
  <1> DEFINE r == strncmp(a, b, n)
             la == Len(a)
             lb == Len(b)
  <1>1. /\ la \in Nat /\ la >= 1 /\ a[la] = NUL /\ \A k \in 1 .. la - 1 : a[k] # NUL
        /\ \A k \in 1 .. la : a[k] \in 0 .. 255
    BY StringBytes DEF IsBytes
  <1>2. /\ lb \in Nat /\ lb >= 1 /\ b[lb] = NUL /\ \A k \in 1 .. lb - 1 : b[k] # NUL
        /\ \A k \in 1 .. lb : b[k] \in 0 .. 255
    BY StringBytes DEF IsBytes
  <1>3. PICK j \in 0 .. n :
              /\ \A k \in 1 .. j : a[k] = b[k] /\ a[k] # NUL
              /\ j = n => r = 0
              /\ j # n => /\ a[j + 1] # b[j + 1] \/ a[j + 1] = NUL
                          /\ r = schar(a[j + 1]) - schar(b[j + 1])
    <2>1. PICK j \in 0 .. n : Compared(a, b, n, r, j)
      BY StrncmpIs, Zenon
    <2> HIDE DEF r, la, lb
    <2> QED  BY <2>1, Zenon DEF Compared
  <1> HIDE DEF r, la, lb
  <1>4. j + 1 <= la /\ j + 1 <= lb
    <2>1. la \notin 1 .. j
      BY <1>1, <1>3
    <2>2. lb \notin 1 .. j
      BY <1>2, <1>3
    <2> QED  BY <1>1, <1>2, <2>1, <2>2
  <1>5. CASE j = n
    <2>1. Differ(a, b, n) = 0
      BY <1>3, <1>5, NoneDiffers
    <2> QED  BY <1>3, <1>5, <2>1 DEF r
  <1>6. CASE j # n /\ a[j + 1] # b[j + 1]
    <2>1. j + 1 \in 1 .. n /\ \A m \in 1 .. j + 1 - 1 : a[m] = b[m]
      BY <1>3, <1>6
    <2>2. Differ(a, b, n) = j + 1
      BY <1>1, <1>2, <1>4, <1>6, <2>1, DifferIs DEF la, lb
    <2>3. a[j + 1] \in 0 .. 255 /\ b[j + 1] \in 0 .. 255
      BY <1>1, <1>2, <1>4
    <2>4. PICK c, d : c = schar(a[j + 1]) /\ d = schar(b[j + 1]) /\ c \in Int /\ d \in Int /\ c # d
      <3>1. PICK x \in 0 .. 255, y \in 0 .. 255 : x = a[j + 1] /\ y = b[j + 1] /\ x # y
        BY <1>6, <2>3
      <3>2. schar(x) \in Int /\ schar(y) \in Int /\ schar(x) # schar(y)
        BY <3>1, ScharDiffers, Zenon
      <3> QED  BY <3>1, <3>2, ZenonT(40)
    <2>5. r = c - d
      BY <1>3, <1>6, <2>4
    <2>6. r # 0 /\ (r < 0 <=> c < d)
      BY <2>4, <2>5
    <2> QED  BY <2>2, <2>4, <2>6 DEF r
  <1>7. CASE j # n /\ a[j + 1] = b[j + 1]
    <2>1. a[j + 1] = NUL /\ b[j + 1] = NUL
      BY <1>3, <1>7
    <2>2. la = j + 1
      BY <1>1, <1>4, <2>1
    <2>3. ASSUME NEW m \in 1 .. n, m <= la PROVE a[m] = b[m]
      BY <1>3, <1>7, <2>2, <2>3
    <2>4. Differ(a, b, n) = 0
      BY <2>3, NoneDiffers DEF la
    <2>5. r = 0
      <3>1. schar(a[j + 1]) = 0 /\ schar(b[j + 1]) = 0
        BY <2>1 DEF schar, NUL
      <3> QED  BY <1>3, <1>7, <3>1
    <2> QED  BY <2>4, <2>5 DEF r
  <1> QED
    BY <1>5, <1>6, <1>7

\* memcmp() likewise, as unsigned bytes.
LEMMA MemcmpDecides ==
    ASSUME NEW a, IsBytes(a), NEW b, IsBytes(b), NEW n \in Nat, n <= Len(a), n <= Len(b)
    PROVE  LET k == Differ(a, b, n)
               r == memcmp(a, 1, b, n)
           IN  /\ k = 0 <=> r = 0
               /\ k # 0 => (r < 0 <=> a[k] < b[k])
  <1> DEFINE r == memcmp(a, 1, b, n)
  <1>0. PICK j \in 0 .. n : EndsWith(a, 1, b, n, r, j)
    BY MemcmpIs, Zenon
  <1> HIDE DEF r
  <1>1. /\ \A k \in 0 .. j - 1 : a[1 + k] = b[1 + k]
        /\ j = n => r = 0
        /\ j # n => a[1 + j] # b[1 + j] /\ r = a[1 + j] - b[1 + j]
    BY <1>0 DEF EndsWith
  <1>2. ASSUME NEW k \in 1 .. j PROVE a[k] = b[k]
    <2>1. k - 1 \in 0 .. j - 1 /\ 1 + (k - 1) = k
      OBVIOUS
    <2> QED  BY <1>1, <2>1
  <1>3. CASE j = n
    <2>1. Differ(a, b, n) = 0
      BY <1>2, <1>3, NoneDiffers
    <2> QED  BY <1>1, <1>3, <2>1 DEF r
  <1>4. CASE j # n
    <2>1. PICK k \in 1 .. n : k = 1 + j
      BY <1>4
    <2>2. Len(a) \in Nat /\ Len(b) \in Nat /\ a[k] \in 0 .. 255 /\ b[k] \in 0 .. 255
      BY DEF IsBytes
    <2>3. a[k] # b[k] /\ r = a[k] - b[k] /\ \A m \in 1 .. k - 1 : a[m] = b[m]
      BY <1>1, <1>2, <1>4, <2>1
    <2>4. Differ(a, b, n) = k
      BY <2>2, <2>3, DifferIs
    <2>5. PICK x \in 0 .. 255, y \in 0 .. 255 : x = a[k] /\ y = b[k]
      BY <2>2
    <2>6. x # y /\ r = x - y /\ k # 0
      BY <2>3, <2>5
    <2>7. k # 0 /\ r # 0 /\ (r < 0 <=> x < y)
      BY <2>6
    <2> QED  BY <2>4, <2>5, <2>7 DEF r
  <1> QED
    BY <1>3, <1>4

\* The n bytes at p in a are those of b.
Equal(a, p, b, n) == \A k \in 0 .. n - 1 : a[p + k] = b[1 + k]

\* memcmp() is 0 for equal areas.
LEMMA MemcmpZero ==
    ASSUME NEW a, IsBytes(a), NEW b, IsBytes(b), NEW n \in Nat, NEW p \in Nat \ {0},
           p + n - 1 <= Len(a), n <= Len(b)
    PROVE  memcmp(a, p, b, n) = 0 <=> Equal(a, p, b, n)
  <1> DEFINE r == memcmp(a, p, b, n)
  <1>0. PICK j \in 0 .. n : EndsWith(a, p, b, n, r, j)
    BY MemcmpIs, Zenon
  <1> HIDE DEF r
  <1>1. /\ \A k \in 0 .. j - 1 : a[p + k] = b[1 + k]
        /\ j = n => r = 0
        /\ j # n => a[p + j] # b[1 + j] /\ r = a[p + j] - b[1 + j]
    BY <1>0 DEF EndsWith
  <1>2. CASE j = n
    BY <1>1, <1>2 DEF r, Equal
  <1>3. CASE j # n
    <2>1. j \in 0 .. n - 1 /\ a[p + j] \in 0 .. 255 /\ b[1 + j] \in 0 .. 255
      BY <1>3 DEF IsBytes
    <2>2. PICK x \in 0 .. 255, y \in 0 .. 255 : x = a[p + j] /\ y = b[1 + j]
      BY <2>1
    <2>3. x # y /\ r = x - y
      BY <1>1, <1>3, <2>2
    <2>4. r # 0
      BY <2>3
    <2> QED  BY <1>1, <1>3, <2>1, <2>4 DEF r, Equal
  <1> QED
    BY <1>2, <1>3

\* strcmp() is 0 for equal strings.
LEMMA StrcmpZero ==
    ASSUME NEW a, IsString(a), NEW b, IsString(b), Len(a) <= SIZE_MAX, Len(b) <= SIZE_MAX
    PROVE  strcmp(a, b) = 0 <=> Len(a) = Len(b) /\ \A k \in 1 .. Len(a) - 1 : a[k] = b[k]
  <1> DEFINE la == Len(a)
             lb == Len(b)
  <1>1. la \in Nat /\ la >= 1 /\ a[la] = NUL /\ \A k \in 1 .. la - 1 : a[k] # NUL
    BY StringBytes
  <1>2. lb \in Nat /\ lb >= 1 /\ b[lb] = NUL /\ \A k \in 1 .. lb - 1 : b[k] # NUL
    BY StringBytes
  <1>3. PICK n \in Nat : n = SIZE_MAX
    BY DEF SIZE_MAX
  <1>4. strcmp(a, b) = 0 <=> Differ(a, b, n) = 0
    BY <1>3, StrncmpDecides DEF strcmp
  <1> HIDE DEF la, lb
  <1>5. la <= n /\ lb <= n
    BY <1>3 DEF la, lb
  <1>6. ASSUME NEW k \in 1 .. n, k <= la, k <= lb, a[k] # b[k]
        PROVE  Differ(a, b, n) # 0
    <2> DEFINE D == {m \in Nat : m <= la /\ m <= lb /\ a[m] # b[m]}
    <2>1. k \in D /\ 1 \in Nat /\ k >= 1 /\ k \in Nat
      BY <1>6
    <2> HIDE DEF D
    <2>2. PICK j \in 1 .. k : j \in D /\ \A m \in 1 .. j - 1 : m \notin D
      BY <2>1, FirstFrom
    <2>3. j \in 1 .. n /\ j <= la /\ j <= lb /\ a[j] # b[j]
      BY <2>2 DEF D
    <2>4. ASSUME NEW m \in 1 .. j - 1 PROVE a[m] = b[m]
      BY <1>1, <1>2, <2>2, <2>3 DEF D
    <2>5. Differ(a, b, n) = j
      BY <1>1, <1>2, <2>3, <2>4, DifferIs DEF la, lb
    <2> QED  BY <2>5
  <1>7. CASE la = lb /\ \A k \in 1 .. la - 1 : a[k] = b[k]
    <2>1. ASSUME NEW k \in 1 .. n, k <= la PROVE a[k] = b[k]
      BY <1>1, <1>2, <1>7, <2>1
    <2>2. Differ(a, b, n) = 0
      BY <2>1, NoneDiffers DEF la
    <2> QED  BY <1>4, <1>7, <2>2 DEF la, lb
  <1>8. CASE la = lb /\ ~ \A k \in 1 .. la - 1 : a[k] = b[k]
    <2>1. PICK k \in 1 .. la - 1 : a[k] # b[k]
      BY <1>8
    <2>2. k \in 1 .. n /\ k <= la /\ k <= lb
      BY <1>1, <1>5, <1>8
    <2> QED  BY <1>4, <1>6, <1>8, <2>1, <2>2 DEF la, lb
  <1>9. CASE la # lb
    <2>1. PICK k \in 1 .. n : k = IF la < lb THEN la ELSE lb
      BY <1>1, <1>2, <1>5
    <2>2. k <= la /\ k <= lb /\ a[k] # b[k]
      BY <1>1, <1>2, <1>9, <2>1
    <2> QED  BY <1>4, <1>6, <1>9, <2>2 DEF la, lb
  <1> QED
    BY <1>7, <1>8, <1>9

\* The n bytes of b are at k + 1 in a.
Holds(a, b, n, k) == \A m \in 1 .. n : a[k + m] = b[m]

StrstrEq(f, a, b) ==
    f = [k \in Nat |-> IF ~Fits(strlen(a) - k, strlen(b)) THEN 0
                       ELSE IF memcmp(a, 1 + k, b, strlen(b)) = 0 THEN 1 + k ELSE f[k + 1]]

\* strstr() finds the first occurrence, the one at the very end included.
LEMMA StrstrIs ==
    ASSUME NEW a, IsString(a), NEW b, IsString(b)
    PROVE  strstr(a, b) = First(Occurs(b, a))
  <1> DEFINE la == Len(a) - 1
             lb == Len(b) - 1
             D == {k \in Nat : ~Fits(strlen(a) - k, strlen(b)) \/ memcmp(a, 1 + k, b, strlen(b)) = 0}
             v == [k \in Nat |-> IF ~Fits(strlen(a) - k, strlen(b)) THEN 0 ELSE 1 + k]
             f == CHOOSE g : StrstrEq(g, a, b)
             S == Occurs(b, a)
  <1>1. /\ la \in Nat /\ Len(a) = la + 1 /\ strlen(a) = la
        /\ lb \in Nat /\ Len(b) = lb + 1 /\ strlen(b) = lb
    BY StringBytes, StrlenIs
  <1>2. strstr(a, b) = IF strlen(b) = 0 THEN 1 ELSE f[0]
    BY Zenon DEF strstr, StrstrEq
  <1>3. ASSUME NEW g PROVE StrstrEq(g, a, b) <=> Searches(g, Nat, D, v)
    <2>1. ASSUME NEW k \in Nat
          PROVE  (IF ~Fits(strlen(a) - k, strlen(b)) THEN 0
                  ELSE IF memcmp(a, 1 + k, b, strlen(b)) = 0 THEN 1 + k ELSE g[k + 1])
                   = (IF k \in D THEN v[k] ELSE g[k + 1])
      OBVIOUS
    <2> HIDE DEF D, v
    <2>2. [k \in Nat |-> IF ~Fits(strlen(a) - k, strlen(b)) THEN 0
                         ELSE IF memcmp(a, 1 + k, b, strlen(b)) = 0 THEN 1 + k ELSE g[k + 1]]
            = [k \in Nat |-> IF k \in D THEN v[k] ELSE g[k + 1]]
      BY <2>1
    <2> QED  BY <2>2 DEF StrstrEq, Searches
  <1>4. \E g : Searches(g, Nat, D, v)
    <2>1. \A k \in Nat : k \notin D => k + 1 \in Nat
      OBVIOUS
    <2> HIDE DEF D, v
    <2> QED  BY <2>1, SearchExists
  <1>5. Searches(f, Nat, D, v)
    <2> HIDE DEF D, v
    <2> QED  BY <1>3, <1>4, Zenon
  <1> HIDE DEF f
  <1>6. ASSUME NEW k \in Nat, k + lb <= la
        PROVE  memcmp(a, 1 + k, b, strlen(b)) = 0 <=> Holds(a, b, lb, k)
    <2>1. IsBytes(a) /\ IsBytes(b)
      BY StringBytes
    <2>2. PICK p \in Nat \ {0} : p = 1 + k /\ p + lb - 1 <= Len(a) /\ lb <= Len(b)
      BY <1>1, <1>6
    <2> HIDE DEF la, lb, D, v, S
    <2>3. memcmp(a, p, b, lb) = 0 <=> Equal(a, p, b, lb)
      BY <1>1, <2>1, <2>2, MemcmpZero
    <2>4. Equal(a, p, b, lb) <=> Holds(a, b, lb, k)
      <3>1. ASSUME \A m \in 0 .. lb - 1 : a[p + m] = b[1 + m], NEW j \in 1 .. lb
            PROVE  a[k + j] = b[j]
        <4>1. j - 1 \in 0 .. lb - 1 /\ p + (j - 1) = k + j /\ 1 + (j - 1) = j
          BY <1>1, <2>2
        <4> QED  BY <3>1, <4>1
      <3>2. ASSUME Holds(a, b, lb, k), NEW m \in 0 .. lb - 1
            PROVE  a[p + m] = b[1 + m]
        <4>1. 1 + m \in 1 .. lb /\ k + (1 + m) = p + m
          BY <1>1, <2>2
        <4> QED  BY <3>2, <4>1 DEF Holds
      <3> QED  BY <3>1, <3>2 DEF Holds, Equal
    <2> QED  BY <1>1, <2>2, <2>3, <2>4
  <1>7. ASSUME NEW k \in Nat
        PROVE  /\ k \in D <=> (la < k + lb \/ Holds(a, b, lb, k))
               /\ v[k] = IF la < k + lb THEN 0 ELSE 1 + k
    <2>1. Fits(strlen(a) - k, strlen(b)) <=> k + lb <= la
      BY <1>1 DEF Fits
    <2> HIDE DEF la, lb
    <2> QED  BY <1>1, <1>6, <2>1
  <1>8. ASSUME NEW k
        PROVE  k \in S <=> k \in Nat /\ k >= 1 /\ k + lb <= la + 1 /\ Holds(a, b, lb, k - 1)
    <2>1. ASSUME k \in Nat
          PROVE  (\A j \in 1 .. Len(b) - 1 : a[k + j - 1] = b[j]) <=> Holds(a, b, lb, k - 1)
      <3>1. \A j \in 1 .. lb : k + j - 1 = (k - 1) + j
        BY <1>1, <2>1
      <3> QED  BY <3>1 DEF Holds
    <2>2. k \in S <=> k \in 1 .. Len(a) /\ k + Len(b) - 1 <= Len(a)
                        /\ \A j \in 1 .. Len(b) - 1 : a[k + j - 1] = b[j]
      BY DEF Occurs
    <2> HIDE DEF S, la, lb
    <2> QED  BY <1>1, <2>1, <2>2
  <1> HIDE DEF la, lb, D, v, S
  <1>9. CASE lb = 0
    <2>1. Holds(a, b, lb, 0) /\ 1 - 1 = 0
      BY <1>9 DEF Holds
    <2>2. 1 \in S
      BY <1>1, <1>8, <1>9, <2>1
    <2>3. \A k \in S : k \in Int /\ 1 <= k
      BY <1>8
    <2>4. First(S) = 1
      BY <2>2, <2>3, FirstIs
    <2> QED  BY <1>1, <1>2, <1>9, <2>4 DEF S
  <1>10. CASE lb # 0
    <2>1. PICK j \in Nat : j \in D /\ (\A k \in 0 .. j - 1 : k \notin D) /\ f[0] = v[j]
      <3>1. PICK dom : dom = Nat
        OBVIOUS
      <3>2. PICK e \in Nat : e = la + 1 /\ e \in D /\ e >= 0 /\ \A k \in 0 .. e : k \in dom
        BY <1>1, <1>7, <1>10, <3>1
      <3>3. Searches(f, dom, D, v) /\ 0 \in Nat
        BY <1>5, <3>1
      <3> QED  BY <3>2, <3>3, SearchEnds
    <2>2. strstr(a, b) = v[j]
      BY <1>1, <1>2, <1>10, <2>1
    <2>3. ASSUME NEW k \in S PROVE k \in Nat /\ k - 1 \in D /\ j <= k - 1
      <3>1. k \in Nat /\ k >= 1 /\ k - 1 \in Nat /\ Holds(a, b, lb, k - 1)
        BY <1>8
      <3>2. k - 1 \in D
        BY <1>7, <3>1
      <3> QED  BY <2>1, <3>1, <3>2
    <2>4. CASE la < j + lb
      <3>1. S = {}
        BY <1>1, <1>8, <2>3, <2>4
      <3> QED  BY <1>7, <2>2, <2>4, <3>1 DEF First, S
    <2>5. CASE ~(la < j + lb)
      <3>1. Holds(a, b, lb, j) /\ v[j] = 1 + j /\ (1 + j) - 1 = j
        BY <1>7, <2>1, <2>5
      <3>2. 1 + j \in S /\ 1 + j \in Int
        BY <1>1, <1>8, <2>5, <3>1
      <3>3. \A k \in S : k \in Int /\ 1 + j <= k
        BY <2>3
      <3>4. First(S) = 1 + j
        BY <3>2, <3>3, FirstIs
      <3> QED  BY <2>2, <3>1, <3>4 DEF S
    <2> QED  BY <2>4, <2>5
  <1> QED
    BY <1>9, <1>10

\* A call of a function that reads.
ReaderCall(c) ==
    /\ c \in [fn : Readers, a : CString, b : CString, n : Byte \cup 0 .. MaxLen + 1]
    /\ ReadCall(c)

ReadInv ==
    call.fn \in Readers =>
        /\ ReaderCall(call)
        /\ at \in {"copy", "done"}
        /\ at = "done" => ret = Result(call)

\* A function that reads answers once, with its result.
LEMMA ReadInvariance == StrSpec => []ReadInv
  <1>1. StrInit => ReadInv
    <2>1. ASSUME StrInit, call.fn \in Readers PROVE ReadInv
      <3>1. ReaderCall(call)
        BY <2>1 DEF StrInit, ReaderCall, Readers, Writers
      <3>2. at = "copy"
        BY <2>1 DEF StrInit, Readers
      <3> QED  BY <3>1, <3>2 DEF ReadInv
    <2> QED  BY <2>1 DEF ReadInv
  <1>2. ReadInv /\ [StrStep \/ StrReturned]_strVars => ReadInv'
    <2> SUFFICES ASSUME ReadInv, [StrStep \/ StrReturned]_strVars PROVE ReadInv'
      OBVIOUS
    <2>1. call' = call
      BY DEF StrStep, StrReturned, strVars, Memset, Memcpy, Memmove, Strcpy, StrcatSeek,
             StrcatCopy, LoopEnds, Answer, Write
    <2>2. CASE call.fn \notin Readers
      BY <2>1, <2>2 DEF ReadInv
    <2>3. CASE call.fn \in Readers
      <3>1. \/ UNCHANGED strVars
            \/ at = "copy" /\ at' = "done" /\ ret' = Result(call)
        BY <2>3 DEF StrStep, StrReturned, strVars, Memset, Memcpy, Memmove, Strcpy, StrcatSeek,
                    StrcatCopy, LoopEnds, Answer, Write, Readers
      <3>2. PICK c : c = call /\ c = call'
        BY <2>1
      <3>3. ReaderCall(c) /\ (at = "done" => ret = Result(c)) /\ at \in {"copy", "done"}
        BY <2>3, <3>2 DEF ReadInv
      <3>4. at' \in {"copy", "done"} /\ (at' = "done" => ret' = Result(c))
        BY <3>1, <3>2, <3>3 DEF strVars
      <3> QED  BY <3>2, <3>3, <3>4 DEF ReadInv
    <2> QED  BY <2>2, <2>3
  <1> QED
    BY <1>1, <1>2, PTL DEF StrSpec

\* The searches return the first position, whatever the strings; the
\* comparisons are decided by the first place where the strings differ.
LEMMA ResultByPosition ==
    ASSUME NEW c, ReaderCall(c)
    PROVE  /\ c.fn \in {"strchr", "memchr"} =>
                 Result(c) = First({k \in 1 .. Len(c.a) : c.a[k] = c.n})
           /\ c.fn = "strstr" => Result(c) = First(Occurs(c.b, c.a))
           /\ c.fn \in {"strncmp", "strcmp", "memcmp"} =>
                 LET k == Differ(c.a, c.b, IF c.fn = "strcmp" THEN SIZE_MAX ELSE c.n)
                 IN  /\ k = 0 <=> Result(c) = 0
                     /\ k # 0 => (Result(c) < 0 <=> IF c.fn = "memcmp" THEN c.a[k] < c.b[k]
                                                    ELSE schar(c.a[k]) < schar(c.b[k]))
  <1> DEFINE a == c.a
             b == c.b
             n == c.n
  <1>1. IsString(a) /\ IsString(b)
    BY CStrings DEF ReaderCall
  <1>2. n \in Nat
    <2>1. n \in Byte \cup 0 .. MaxLen + 1
      BY DEF ReaderCall
    <2>2. Byte \subseteq 0 .. 255 /\ MaxLen \in Nat
      <3>1. MaxLen \in 0 .. SIZE_MAX - 1 /\ Byte \subseteq 0 .. 255
        BY StringsAssumption
      <3>2. SIZE_MAX \in Nat
        BY DEF SIZE_MAX
      <3> QED  BY <3>1, <3>2
    <2>3. \A x \in Byte \cup 0 .. MaxLen + 1 : x \in Nat
      BY <2>2
    <2> QED  BY <2>1, <2>3
  <1>3. Len(a) \in Nat /\ IsBytes(a) /\ IsBytes(b)
    BY <1>1, StringBytes
  <1>4. CASE c.fn = "strchr"
    <2>1. Result(c) = strchr(a, n)
      BY <1>4 DEF Result
    <2> HIDE DEF a, b, n
    <2>2. Result(c) = First({k \in 1 .. Len(a) : a[k] = n})
      BY <1>1, <2>1, StrchrIs
    <2> QED  BY <1>4, <2>2 DEF a, n
  <1>5. CASE c.fn = "memchr"
    <2>1. Result(c) = memchr(a, n, Len(a))
      BY <1>5 DEF Result
    <2> HIDE DEF a, b, n
    <2>2. Result(c) = First({k \in 1 .. Len(a) : a[k] = n})
      BY <1>3, <2>1, MemchrIs
    <2> QED  BY <1>5, <2>2 DEF a, n
  <1>6. CASE c.fn = "strstr"
    <2>1. Result(c) = strstr(a, b)
      BY <1>6 DEF Result
    <2> HIDE DEF a, b, n
    <2>2. Result(c) = First(Occurs(b, a))
      BY <1>1, <2>1, StrstrIs
    <2> QED  BY <1>6, <2>2 DEF a, b
  <1>7. CASE c.fn \in {"strncmp", "strcmp"}
    <2>1. PICK m \in Nat : m = IF c.fn = "strcmp" THEN SIZE_MAX ELSE c.n
      BY <1>2 DEF SIZE_MAX
    <2>2. Result(c) = strncmp(a, b, m)
      BY <1>7, <2>1 DEF Result, strcmp
    <2>3. PICK k, r : k = Differ(a, b, m) /\ r = strncmp(a, b, m)
      OBVIOUS
    <2> HIDE DEF a, b, n
    <2>4. /\ k = 0 <=> r = 0
          /\ k # 0 => (r < 0 <=> schar(a[k]) < schar(b[k]))
      BY <1>1, <2>3, StrncmpDecides
    <2> QED  BY <1>7, <2>1, <2>2, <2>3, <2>4 DEF a, b
  <1>8. CASE c.fn = "memcmp"
    <2>1. n <= Len(a) /\ n <= Len(b)
      BY <1>8 DEF ReaderCall, ReadCall
    <2>2. Result(c) = memcmp(a, 1, b, n)
      BY <1>8 DEF Result
    <2>3. PICK k, r : k = Differ(a, b, n) /\ r = memcmp(a, 1, b, n)
      OBVIOUS
    <2> HIDE DEF a, b, n
    <2>4. /\ k = 0 <=> r = 0
          /\ k # 0 => (r < 0 <=> a[k] < b[k])
      BY <1>2, <1>3, <2>1, <2>3, MemcmpDecides
    <2> QED  BY <1>8, <2>2, <2>3, <2>4 DEF a, b, n
  <1> HIDE DEF a, b, n
  <1> QED
    BY <1>4, <1>5, <1>6, <1>7, <1>8

\* For strings of any length up to SIZE_MAX: strchr(), memchr() and strstr()
\* return the first occurrence, and strcmp(), strncmp() and memcmp() are decided
\* by the first place where the strings differ.
THEOREM StringsAnswersByPosition == StrSpec => []AnswersByPosition
  <1>1. ReadInv => AnswersByPosition
    <2> SUFFICES ASSUME ReadInv, at = "done", call.fn \in Readers
                 PROVE  AnswersByPosition
      BY DEF AnswersByPosition, Readers
    <2>1. ReaderCall(call) /\ ret = Result(call)
      BY DEF ReadInv
    <2>2. PICK c : c = call
      OBVIOUS
    <2>3. ReaderCall(c) /\ ret = Result(c)
      BY <2>1, <2>2
    <2> QED  BY <2>2, <2>3, ResultByPosition DEF AnswersByPosition, Below
  <1> QED
    BY <1>1, ReadInvariance, PTL

-----------------------------------------------------------------------------
(* Strings: simple_glob(). *)

\* What GlobMatches says of the text a and the pattern b.
Matches(a, b) ==
    LET text  == SubSeq(a, 1, Len(a) - 1)
        pat   == SubSeq(b, 1, Len(b) - 1)
        start == pat # <<>> /\ pat[1] = Star
        rest  == IF start THEN Tail(pat) ELSE pat
        end   == rest # <<>> /\ rest[Len(rest)] = Star
        core  == IF end THEN SubSeq(rest, 1, Len(rest) - 1) ELSE rest
    IN  \E u \in 0 .. Len(text) :
          LET v == Len(text) - u - Len(core)
          IN  /\ v >= 0
              /\ SubSeq(text, u + 1, u + Len(core)) = core
              /\ u = 0 \/ start
              /\ v = 0 \/ end

\* The bytes of a string, but for the NUL.
NonNul == 1 .. 255

\* A string is its body with a NUL behind it.
LEMMA BodyOf ==
    ASSUME NEW s, IsString(s)
    PROVE  /\ SubSeq(s, 1, Len(s) - 1) \in Seq(NonNul)
           /\ Len(SubSeq(s, 1, Len(s) - 1)) = Len(s) - 1
           /\ \A k \in 1 .. Len(s) - 1 : SubSeq(s, 1, Len(s) - 1)[k] = s[k]
           /\ s = Append(SubSeq(s, 1, Len(s) - 1), NUL)
  <1>1. /\ Len(s) \in Nat /\ Len(s) >= 1 /\ s[Len(s)] = NUL
        /\ \A k \in 1 .. Len(s) - 1 : s[k] # NUL /\ s[k] \in 0 .. 255
    BY StringBytes DEF IsBytes
  <1>2. PICK n : n = Len(s) - 1 /\ n \in Nat
    BY <1>1
  <1>3. SubSeq(s, 1, n) = [k \in 1 .. n |-> s[k]]
    <2>1. SubSeq(s, 1, n) = [k \in 1 .. (1 + n - 1) |-> s[1 + k - 1]]
      BY <1>2 DEF IsString
    <2> QED  BY <1>2, <2>1
  <1>4. \A k \in 1 .. n : s[k] \in NonNul
    BY <1>1, <1>2 DEF NUL, NonNul
  <1>5. PICK t : t = SubSeq(s, 1, n)
    OBVIOUS
  <1>6. t \in Seq(NonNul) /\ Len(t) = n /\ \A k \in 1 .. n : t[k] = s[k]
    BY <1>2, <1>3, <1>4, <1>5
  <1>7. s = Append(t, NUL)
    <2>1. s \in Seq(0 .. 255) /\ Len(s) = n + 1
      BY <1>1, <1>2 DEF IsString
    <2>2. Append(t, NUL) \in Seq(0 .. 255) /\ Len(Append(t, NUL)) = n + 1
      BY <1>6, SeqMonotonic DEF NUL, NonNul
    <2>3. \A k \in 1 .. n + 1 : s[k] = Append(t, NUL)[k]
      BY <1>1, <1>2, <1>6
    <2> QED  BY <2>1, <2>2, <2>3, SeqEqual
  <1> QED
    BY <1>2, <1>5, <1>6, <1>7

\* A sequence of other bytes with a NUL behind it is a string.
LEMMA StringOf ==
    ASSUME NEW t \in Seq(NonNul)
    PROVE  /\ IsString(Append(t, NUL)) /\ Len(Append(t, NUL)) = Len(t) + 1
           /\ \A k \in 1 .. Len(t) : Append(t, NUL)[k] = t[k]
           /\ SubSeq(Append(t, NUL), 1, Len(t)) = t
  <1>1. PICK s : s = Append(t, NUL)
    OBVIOUS
  <1>2. /\ s \in Seq(0 .. 255) /\ Len(s) = Len(t) + 1 /\ s[Len(t) + 1] = NUL
        /\ \A k \in 1 .. Len(t) : s[k] = t[k]
    BY <1>1 DEF NUL, NonNul
  <1>3. \A k \in 1 .. Len(t) : t[k] # NUL
    <2>1. \A k \in 1 .. Len(t) : t[k] \in NonNul
      OBVIOUS
    <2>2. \A c \in NonNul : c # NUL
      BY DEF NUL, NonNul
    <2> QED  BY <2>1, <2>2
  <1>4. IsString(s)
    <2>1. Len(t) \in Nat
      OBVIOUS
    <2>2. \A k \in 1 .. Len(s) - 1 : s[k] # NUL
      BY <1>2, <1>3, <2>1
    <2> QED  BY <1>2, <2>1, <2>2 DEF IsString
  <1>5. SubSeq(s, 1, Len(t)) = t
    BY <1>2
  <1> QED
    BY <1>1, <1>2, <1>4, <1>5

\* The rest of a pattern behind its first character.
LEMMA TailOf ==
    ASSUME NEW t \in Seq(NonNul), t # <<>>
    PROVE  /\ Tail(t) \in Seq(NonNul) /\ Len(Tail(t)) = Len(t) - 1
           /\ Tail(Append(t, NUL)) = Append(Tail(t), NUL)
  <1>1. t \in Seq(Int) /\ Append(t, NUL) \in Seq(Int) /\ NUL \in Int
    <2>1. NonNul \subseteq Int /\ NUL \in Int
      BY DEF NonNul, NUL
    <2>2. t \in Seq(Int)
      BY <2>1, SeqMonotonic
    <2> QED  BY <2>1, <2>2
  <1>2. Tail(t) \in Seq(NonNul) /\ Len(Tail(t)) = Len(t) - 1
    OBVIOUS
  <1>3. PICK n \in Nat : Len(t) = n + 1
    <2>1. Len(t) \in Nat \ {0}
      BY EmptySeq
    <2>2. Len(t) - 1 \in Nat /\ Len(t) = (Len(t) - 1) + 1
      BY <2>1
    <2> QED  BY <2>2
  <1>4. PICK x : x = Tail(Append(t, NUL))
    OBVIOUS
  <1>5. PICK y : y = Append(Tail(t), NUL)
    OBVIOUS
  <1>6. x \in Seq(Int) /\ Len(x) = n + 1 /\ \A k \in 1 .. n + 1 : x[k] = Append(t, NUL)[k + 1]
    BY <1>1, <1>3, <1>4
  <1>7. Tail(t) \in Seq(Int) /\ Len(Tail(t)) = n /\ \A k \in 1 .. n : Tail(t)[k] = t[k + 1]
    BY <1>1, <1>3
  <1>8. y \in Seq(Int) /\ Len(y) = n + 1 /\ y[n + 1] = NUL /\ \A k \in 1 .. n : y[k] = Tail(t)[k]
    BY <1>1, <1>5, <1>7
  <1>9. ASSUME NEW k \in 1 .. n + 1 PROVE x[k] = y[k]
    <2>1. CASE k = n + 1
      BY <1>1, <1>3, <1>6, <1>8, <2>1
    <2>2. CASE k # n + 1
      <3>1. k \in 1 .. n /\ k + 1 \in 1 .. Len(t)
        BY <1>3, <2>2
      <3>2. Append(t, NUL)[k + 1] = t[k + 1]
        BY <1>1, <3>1
      <3> QED  BY <1>6, <1>7, <1>8, <3>1, <3>2
    <2> QED  BY <2>1, <2>2
  <1>10. x = y
    BY <1>6, <1>8, <1>9, SeqEqual
  <1> QED
    BY <1>2, <1>4, <1>5, <1>10

\* The text holds core at u + 1.
LEMMA SubSeqHolds ==
    ASSUME NEW text \in Seq(NonNul), NEW core \in Seq(NonNul), NEW u \in Nat,
           u + Len(core) <= Len(text)
    PROVE  SubSeq(text, u + 1, u + Len(core)) = core
             <=> Holds(Append(text, NUL), core, Len(core), u)
  <1> DEFINE n == Len(core)
             s == SubSeq(text, u + 1, u + n)
             a == Append(text, NUL)
  <1>1. n \in Nat /\ Len(text) \in Nat /\ \A k \in 1 .. Len(text) : text[k] \in NonNul
    OBVIOUS
  <1>2. \A k \in 1 .. Len(text) : a[k] = text[k]
    BY StringOf
  <1>3. u + 1 \in Int /\ u + n \in Int /\ \A k \in (u + 1) .. (u + n) : text[k] \in NonNul
    BY <1>1
  <1>4. s \in Seq(NonNul) /\ Len(s) = n /\ \A k \in 1 .. n : s[k] = text[u + k]
    <2>1. /\ s \in Seq(NonNul)
          /\ Len(s) = IF u + 1 <= u + n THEN (u + n) - (u + 1) + 1 ELSE 0
          /\ \A k \in 1 .. (u + n) - (u + 1) + 1 : s[k] = text[(u + 1) + k - 1]
      BY <1>3, SubSeqProperties
    <2> HIDE DEF s, n
    <2>2. (u + n) - (u + 1) + 1 = n /\ \A k \in 1 .. n : (u + 1) + k - 1 = u + k
      BY <1>1
    <2> QED  BY <1>1, <2>1, <2>2
  <1>5. \A k \in 1 .. n : a[u + k] = s[k]
    <2> HIDE DEF s, a
    <2>1. n + u <= Len(text)
      BY <1>1
    <2> HIDE DEF n
    <2>2. ASSUME NEW k \in 1 .. n PROVE u + k \in 1 .. Len(text)
      BY <1>1, <2>1
    <2> QED  BY <1>2, <1>4, <2>2
  <1> HIDE DEF s, a
  <1>6. s = core <=> \A k \in 1 .. n : s[k] = core[k]
    BY <1>4, SeqEqual
  <1>7. s = core <=> Holds(a, core, n, u)
    BY <1>5, <1>6 DEF Holds
  <1> QED
    BY <1>7 DEF s, a

\* Where strstr() finds a string.
LEMMA StrstrHolds ==
    ASSUME NEW text \in Seq(NonNul), NEW core \in Seq(NonNul)
    PROVE  LET r == strstr(Append(text, NUL), Append(core, NUL))
               At(u) == u + Len(core) <= Len(text) /\ Holds(Append(text, NUL), core, Len(core), u)
           IN  /\ r # 0 <=> \E u \in 0 .. Len(text) : At(u)
               /\ r = 1 <=> At(0)
  <1> DEFINE a == Append(text, NUL)
             b == Append(core, NUL)
             n == Len(core)
             t == Len(text)
             S == Occurs(b, a)
             At(u) == u + n <= t /\ Holds(a, core, n, u)
  <1>1. /\ IsString(a) /\ IsString(b) /\ Len(a) = t + 1 /\ Len(b) = n + 1
        /\ n \in Nat /\ t \in Nat /\ \A k \in 1 .. n : b[k] = core[k]
    BY StringOf
  <1>2. strstr(a, b) = First(S)
    BY <1>1, StrstrIs
  <1>3. ASSUME NEW k
        PROVE  k \in S <=> k \in 1 .. t + 1 /\ At(k - 1)
    <2>1. k \in S <=> k \in 1 .. Len(a) /\ k + Len(b) - 1 <= Len(a)
                        /\ \A j \in 1 .. Len(b) - 1 : a[k + j - 1] = b[j]
      BY DEF Occurs
    <2> HIDE DEF S, a, b, n, t
    <2>2. ASSUME k \in 1 .. t + 1
          PROVE  (\A j \in 1 .. Len(b) - 1 : a[k + j - 1] = b[j]) <=> Holds(a, core, n, k - 1)
      <3>1. \A j \in 1 .. n : k + j - 1 = (k - 1) + j
        BY <1>1, <2>2
      <3>2. Len(b) - 1 = n
        BY <1>1
      <3> QED  BY <1>1, <3>1, <3>2 DEF Holds
    <2>3. ASSUME k \in 1 .. t + 1
          PROVE  k + Len(b) - 1 <= Len(a) <=> (k - 1) + n <= t
      BY <1>1, <2>3
    <2> QED  BY <1>1, <2>1, <2>2, <2>3
  <1> HIDE DEF S, a, b, n, t
  <1>4. \A k \in S : k \in Int /\ 1 <= k
    BY <1>1, <1>3
  <1>5. S = {} \/ First(S) \in S
    <2>1. ASSUME S # {} PROVE First(S) \in S
      <3>1. S \subseteq Nat
        BY <1>4
      <3>2. PICK x \in S : \A y \in S : x =< y
        BY <2>1, <3>1, LeastElement
      <3>3. First(S) = x
        BY <1>4, <3>2, FirstIs
      <3> QED  BY <3>3
    <2> QED  BY <2>1
  <1>6. First(S) # 0 <=> S # {}
    <2>1. S = {} => First(S) = 0
      BY DEF First
    <2>2. First(S) \in S => First(S) # 0
      BY <1>4
    <2> QED  BY <1>5, <2>1, <2>2
  <1>7. First(S) = 1 <=> 1 \in S
    <2>1. ASSUME 1 \in S PROVE First(S) = 1
      BY <1>4, <2>1, FirstIs
    <2>2. ASSUME First(S) = 1 PROVE 1 \in S
      <3>1. S # {}
        BY <1>6, <2>2
      <3> QED  BY <1>5, <2>2, <3>1
    <2> QED  BY <2>1, <2>2
  <1>8. S # {} <=> \E u \in 0 .. t : At(u)
    <2>1. ASSUME NEW k \in S PROVE k - 1 \in 0 .. t /\ At(k - 1)
      BY <1>1, <1>3
    <2>2. ASSUME NEW u \in 0 .. t, At(u) PROVE u + 1 \in S
      <3>1. (u + 1) - 1 = u /\ u + 1 \in 1 .. t + 1
        BY <1>1
      <3>2. At((u + 1) - 1)
        BY <2>2, <3>1
      <3> QED  BY <1>3, <3>1, <3>2
    <2> HIDE DEF At
    <2> QED  BY <2>1, <2>2
  <1>9. 1 \in S <=> At(0)
    <2>1. 1 \in 1 .. t + 1 /\ 1 - 1 = 0
      BY <1>1
    <2> QED  BY <1>3, <2>1
  <1>10. /\ strstr(a, b) # 0 <=> \E u \in 0 .. t : At(u)
         /\ strstr(a, b) = 1 <=> At(0)
    <2> HIDE DEF At
    <2> QED  BY <1>2, <1>6, <1>7, <1>8, <1>9
  <1> QED
    BY <1>10 DEF a, b, n, t

\* The end of the text is core.
LEMMA StrcmpHolds ==
    ASSUME NEW text \in Seq(NonNul), NEW core \in Seq(NonNul),
           Len(text) < SIZE_MAX, Len(core) < SIZE_MAX, NEW u \in 0 .. Len(text)
    PROVE  strcmp(SubSeq(Append(text, NUL), u + 1, Len(text) + 1), Append(core, NUL)) = 0
             <=> u + Len(core) = Len(text) /\ Holds(Append(text, NUL), core, Len(core), u)
  <1> DEFINE a == Append(text, NUL)
             b == Append(core, NUL)
             n == Len(core)
             t == Len(text)
             s == SubSeq(a, u + 1, t + 1)
  <1>1. /\ IsString(a) /\ IsString(b) /\ Len(a) = t + 1 /\ Len(b) = n + 1
        /\ n \in Nat /\ t \in Nat /\ \A k \in 1 .. n : b[k] = core[k]
    BY StringOf
  <1>2. /\ a[t + 1] = NUL /\ (\A k \in 1 .. t : a[k] # NUL) /\ \A k \in 1 .. t + 1 : a[k] \in 0 .. 255
    <2> HIDE DEF a, b, t, n, s
    <2>1. /\ a[Len(a)] = NUL /\ \A k \in 1 .. Len(a) - 1 : a[k] # NUL
          /\ \A k \in 1 .. Len(a) : a[k] \in 0 .. 255
      BY <1>1, StringBytes DEF IsBytes
    <2>2. (t + 1) - 1 = t
      BY <1>1
    <2> QED  BY <1>1, <2>1, <2>2
  <1> HIDE DEF a, b, n
  <1>3. /\ s \in Seq(0 .. 255) /\ Len(s) = t - u + 1
        /\ \A k \in 1 .. t - u + 1 : s[k] = a[u + k]
    <2>1. u + 1 \in Int /\ t + 1 \in Int /\ \A k \in (u + 1) .. (t + 1) : a[k] \in 0 .. 255
      BY <1>1, <1>2
    <2>2. /\ s \in Seq(0 .. 255)
          /\ Len(s) = IF u + 1 <= t + 1 THEN (t + 1) - (u + 1) + 1 ELSE 0
          /\ \A k \in 1 .. (t + 1) - (u + 1) + 1 : s[k] = a[(u + 1) + k - 1]
      BY <2>1, SubSeqProperties
    <2> HIDE DEF s
    <2>3. (t + 1) - (u + 1) + 1 = t - u + 1 /\ \A k \in 1 .. t - u + 1 : (u + 1) + k - 1 = u + k
      BY <1>1
    <2> QED  BY <1>1, <2>2, <2>3
  <1> HIDE DEF s
  <1>4. IsString(s)
    <2>1. s[t - u + 1] = a[t + 1]
      BY <1>1, <1>3
    <2>2. ASSUME NEW k \in 1 .. Len(s) - 1 PROVE s[k] # NUL
      <3>1. k \in 1 .. t - u + 1 /\ u + k \in 1 .. t
        BY <1>1, <1>3
      <3> QED  BY <1>2, <1>3, <3>1
    <2> QED  BY <1>1, <1>2, <1>3, <2>1, <2>2 DEF IsString
  <1>5. Len(s) <= SIZE_MAX /\ Len(b) <= SIZE_MAX
    BY <1>1, <1>3 DEF SIZE_MAX, n
  <1>6. strcmp(s, b) = 0 <=> Len(s) = Len(b) /\ \A k \in 1 .. Len(s) - 1 : s[k] = b[k]
    BY <1>1, <1>4, <1>5, StrcmpZero
  <1>7. Len(s) = Len(b) <=> u + n = t
    BY <1>1, <1>3
  <1>8. ASSUME u + n = t
        PROVE  (\A k \in 1 .. Len(s) - 1 : s[k] = b[k]) <=> Holds(a, core, n, u)
    <2>1. Len(s) - 1 = n
      BY <1>1, <1>3, <1>8
    <2>2. \A k \in 1 .. n : s[k] = a[u + k]
      BY <1>1, <1>3, <1>8
    <2> QED  BY <1>1, <2>1, <2>2 DEF Holds
  <1>9. strcmp(s, b) = 0 <=> u + n = t /\ Holds(a, core, n, u)
    BY <1>6, <1>7, <1>8
  <1> QED
    BY <1>9 DEF s, a, b, n

\* The parts of a pattern, as simple_glob() finds them in the string and as
\* GlobMatches does in its body.
LEMMA PatternParts ==
    ASSUME NEW pat \in Seq(NonNul), NEW b, b = Append(pat, NUL)
    PROVE  LET start == pat # <<>> /\ pat[1] = Star
               rest  == IF start THEN Tail(pat) ELSE pat
           IN  /\ b[1] = Star <=> start
               /\ (IF b[1] = Star THEN Tail(b) ELSE b) = Append(rest, NUL)
               /\ rest \in Seq(NonNul) /\ Len(rest) <= Len(pat)
  <1> DEFINE start == pat # <<>> /\ pat[1] = Star
             rest  == IF start THEN Tail(pat) ELSE pat
  <1>1. b[1] = Star <=> start
    <2>1. CASE pat = <<>>
      <3>1. b[1] = NUL
        BY <2>1
      <3> QED  BY <2>1, <3>1 DEF NUL, Star
    <2>2. CASE pat # <<>>
      <3>1. Len(pat) \in Nat \ {0}
        BY <2>2, EmptySeq
      <3>2. b[1] = pat[1]
        BY <3>1, StringOf
      <3> QED  BY <2>2, <3>2
    <2> QED  BY <2>1, <2>2
  <1>2. rest \in Seq(NonNul) /\ Len(rest) <= Len(pat)
    <2>1. Len(pat) \in Nat
      OBVIOUS
    <2>2. start => Tail(pat) \in Seq(NonNul) /\ Len(Tail(pat)) = Len(pat) - 1
      BY TailOf
    <2>3. Len(pat) - 1 <= Len(pat) /\ Len(pat) <= Len(pat)
      BY <2>1
    <2> QED  BY <2>2, <2>3
  <1>3. (IF b[1] = Star THEN Tail(b) ELSE b) = Append(rest, NUL)
    <2>1. start => Tail(b) = Append(Tail(pat), NUL)
      BY TailOf
    <2> HIDE DEF start
    <2> QED  BY <1>1, <2>1, Zenon
  <1> QED
    BY <1>1, <1>2, <1>3, Zenon

\* Whether a star ends a string, and how long it is without that star.
StarEnds(s) == strlen(s) > 0 /\ s[strlen(s)] = Star
CoreLen(s) == IF StarEnds(s) THEN strlen(s) - 1 ELSE strlen(s)

\* The same of the body of a string.
EndsInStar(rest) == rest # <<>> /\ rest[Len(rest)] = Star
CoreOf(rest) == IF EndsInStar(rest) THEN SubSeq(rest, 1, Len(rest) - 1) ELSE rest

\* The rest of a pattern likewise: its core, and whether a star ends it.
LEMMA RestParts ==
    ASSUME NEW rest \in Seq(NonNul), NEW s, s = Append(rest, NUL)
    PROVE  /\ StarEnds(s) <=> EndsInStar(rest)
           /\ CoreOf(rest) \in Seq(NonNul) /\ Len(CoreOf(rest)) <= Len(rest)
           /\ CoreLen(s) = Len(CoreOf(rest))
           /\ Append(SubSeq(s, 1, CoreLen(s)), NUL) = Append(CoreOf(rest), NUL)
  <1> DEFINE m    == strlen(s)
             star == m > 0 /\ s[m] = Star
             n    == IF star THEN m - 1 ELSE m
             end  == rest # <<>> /\ rest[Len(rest)] = Star
             core == IF end THEN SubSeq(rest, 1, Len(rest) - 1) ELSE rest
             l    == Len(rest)
  <1>1. /\ IsString(s) /\ Len(s) = l + 1 /\ l \in Nat
        /\ \A k \in 1 .. l : s[k] = rest[k]
    BY StringOf
  <1>2. m = l
    <2>1. m = Len(s) - 1
      BY <1>1, StrlenIs
    <2> HIDE DEF m, l
    <2> QED  BY <1>1, <2>1
  <1>3. rest # <<>> <=> l > 0
    <2>1. l = 0 <=> rest = <<>>
      BY EmptySeq
    <2> HIDE DEF l
    <2> QED  BY <1>1, <2>1
  <1>4. star <=> end
    <2> HIDE DEF m, l
    <2>1. l > 0 => s[l] = rest[l]
      BY <1>1
    <2> QED  BY <1>2, <1>3, <2>1 DEF l
  <1>5. ASSUME NEW j \in 0 .. l
        PROVE  /\ SubSeq(rest, 1, j) \in Seq(NonNul) /\ Len(SubSeq(rest, 1, j)) = j
               /\ SubSeq(s, 1, j) = SubSeq(rest, 1, j)
    <2>1. \A k \in 1 .. j : rest[k] \in NonNul /\ s[k] = rest[k]
      BY <1>1, ElementOfSeq
    <2>2. /\ SubSeq(rest, 1, j) = [k \in 1 .. j |-> rest[k]]
          /\ SubSeq(s, 1, j) = [k \in 1 .. j |-> s[k]]
      BY <1>1 DEF IsString
    <2> HIDE DEF m, l
    <2>3. SubSeq(s, 1, j) = SubSeq(rest, 1, j)
      BY <2>1, <2>2
    <2>4. 1 \in Int /\ j \in Int /\ j \in Nat
      BY <1>1
    <2>5. /\ SubSeq(rest, 1, j) \in Seq(NonNul)
          /\ Len(SubSeq(rest, 1, j)) = IF 1 <= j THEN j - 1 + 1 ELSE 0
      BY <2>1, <2>4, SubSeqProperties
    <2>6. Len(SubSeq(rest, 1, j)) = j
      BY <2>4, <2>5
    <2> QED  BY <2>3, <2>5, <2>6
  <1>6. SubSeq(rest, 1, l) = rest
    BY SubSeqFull
  <1>7. PICK e : e = IF end THEN l - 1 ELSE l
    OBVIOUS
  <1>8. e \in 0 .. l /\ n = e
    <2>1. end => l > 0
      BY <1>3
    <2> HIDE DEF end, star, m, l
    <2> QED  BY <1>1, <1>2, <1>4, <1>7, <2>1
  <1>9. core = SubSeq(rest, 1, e)
    <2> HIDE DEF end
    <2> QED  BY <1>6, <1>7, Zenon
  <1>10. core \in Seq(NonNul) /\ Len(core) = e /\ SubSeq(s, 1, e) = core
    <2> HIDE DEF core, l
    <2> QED  BY <1>5, <1>8, <1>9
  <1>11. core \in Seq(NonNul) /\ Len(core) <= Len(rest) /\ n = Len(core)
    <2> HIDE DEF core, n
    <2> QED  BY <1>1, <1>8, <1>10
  <1>12. Append(SubSeq(s, 1, n), NUL) = Append(core, NUL)
    <2> HIDE DEF core, n
    <2> QED  BY <1>8, <1>10
  <1> QED
    BY <1>4, <1>11, <1>12, Zenon DEF StarEnds, CoreLen, EndsInStar, CoreOf

\* simple_glob() of a text with the parts of a pattern.
Decides(a, copy, n, start, end) ==
    CASE start /\ end -> strstr(a, copy) # 0
      [] end /\ ~start -> AtStart(strstr(a, copy))
      [] start /\ ~end ->
            n <= strlen(a) /\ strcmp(SubSeq(a, strlen(a) - n + 1, Len(a)), copy) = 0
      [] OTHER -> strcmp(a, copy) = 0

\* There is a place for core in the t bytes of a.
Placed(a, t, core, n, start, end) ==
    \E u \in 0 .. t : /\ u + n <= t /\ Holds(a, core, n, u)
                      /\ u = 0 \/ start
                      /\ u + n = t \/ end

\* Its four cases are the four ways to place core in the text.
LEMMA DecidesPlaces ==
    ASSUME NEW text \in Seq(NonNul), NEW core \in Seq(NonNul),
           Len(text) < SIZE_MAX, Len(core) < SIZE_MAX,
           NEW start \in BOOLEAN, NEW end \in BOOLEAN
    PROVE  Decides(Append(text, NUL), Append(core, NUL), Len(core), start, end)
             <=> Placed(Append(text, NUL), Len(text), core, Len(core), start, end)
  <1> DEFINE a == Append(text, NUL)
             b == Append(core, NUL)
             n == Len(core)
             t == Len(text)
             H(u) == Holds(a, core, n, u)
             Places == \E u \in 0 .. t : /\ u + n <= t /\ H(u) /\ (u = 0 \/ start)
                                         /\ u + n = t \/ end
  <1>1. n \in Nat /\ t \in Nat /\ IsString(a) /\ Len(a) = t + 1
    BY StringOf
  <1>2. strlen(a) = t
    <2>1. strlen(a) = Len(a) - 1
      BY <1>1, StrlenIs
    <2> HIDE DEF a, t
    <2> QED  BY <1>1, <2>1
  <1>3. /\ strstr(a, b) # 0 <=> \E u \in 0 .. t : u + n <= t /\ H(u)
        /\ strstr(a, b) = 1 <=> 0 + n <= t /\ H(0)
    BY StrstrHolds, Zenon
  <1>4. ASSUME NEW u \in 0 .. t
        PROVE  strcmp(SubSeq(a, u + 1, t + 1), b) = 0 <=> u + n = t /\ H(u)
    BY StrcmpHolds
  <1>5. SubSeq(a, 0 + 1, t + 1) = a
    <2>1. a \in Seq(0 .. 255)
      BY <1>1 DEF IsString
    <2>2. SubSeq(a, 1, Len(a)) = a
      BY <2>1, SubSeqFull
    <2>3. 0 + 1 = 1
      OBVIOUS
    <2> HIDE DEF a, t
    <2> QED  BY <1>1, <2>2, <2>3
  <1> HIDE DEF a, b, n, t, H
  <1>6. CASE start /\ end
    <2>1. Decides(a, b, n, start, end) <=> strstr(a, b) # 0
      BY <1>6 DEF Decides
    <2> QED  BY <1>3, <1>6, <2>1 DEF a, b, n, t, H, Placed
  <1>7. CASE end /\ ~start
    <2>1. Decides(a, b, n, start, end) <=> strstr(a, b) = 1
      BY <1>7 DEF Decides, AtStart
    <2>2. Places <=> 0 + n <= t /\ H(0)
      BY <1>1, <1>7
    <2>3. Decides(a, b, n, start, end) <=> Places
      BY <1>3, <2>1, <2>2
    <2> QED  BY <2>3 DEF a, b, n, t, H, Placed
  <1>8. CASE start /\ ~end
    <2>1. Decides(a, b, n, start, end)
            <=> n <= t /\ strcmp(SubSeq(a, t - n + 1, t + 1), b) = 0
      BY <1>1, <1>2, <1>8 DEF Decides
    <2>2. Places <=> n <= t /\ H(t - n)
      <3>1. ASSUME Places PROVE n <= t /\ H(t - n)
        <4>1. PICK u \in 0 .. t : u + n = t /\ H(u)
          BY <1>8, <3>1
        <4>2. u = t - n /\ n <= t
          BY <1>1, <4>1
        <4> QED  BY <4>1, <4>2
      <3>2. ASSUME n <= t, H(t - n) PROVE Places
        <4>1. t - n \in 0 .. t /\ (t - n) + n = t
          BY <1>1, <3>2
        <4> QED  BY <1>1, <1>8, <3>2, <4>1
      <3> QED  BY <3>1, <3>2
    <2>3. ASSUME n <= t
          PROVE  strcmp(SubSeq(a, t - n + 1, t + 1), b) = 0 <=> H(t - n)
      <3>1. PICK u \in 0 .. t : u = t - n /\ u + n = t
        BY <1>1, <2>3
      <3> QED  BY <1>4, <3>1
    <2>4. Decides(a, b, n, start, end) <=> Places
      BY <2>1, <2>2, <2>3
    <2> QED  BY <2>4 DEF a, b, n, t, H, Placed
  <1>9. CASE ~start /\ ~end
    <2>1. Decides(a, b, n, start, end) <=> strcmp(a, b) = 0
      BY <1>9 DEF Decides
    <2>2. strcmp(a, b) = 0 <=> 0 + n = t /\ H(0)
      <3>1. PICK u \in 0 .. t : u = 0
        BY <1>1
      <3>2. strcmp(SubSeq(a, u + 1, t + 1), b) = 0 <=> u + n = t /\ H(u)
        BY <1>4
      <3> QED  BY <1>5, <3>1, <3>2
    <2>3. Places <=> 0 + n = t /\ H(0)
      BY <1>1, <1>9
    <2>4. Decides(a, b, n, start, end) <=> Places
      BY <2>1, <2>2, <2>3
    <2> QED  BY <2>4 DEF a, b, n, t, H, Placed
  <1> QED
    BY <1>6, <1>7, <1>8, <1>9

\* simple_glob() matches the texts it should.
LEMMA GlobIs ==
    ASSUME NEW a, IsString(a), NEW b, IsString(b), Len(a) <= SIZE_MAX, Len(b) <= SIZE_MAX
    PROVE  simple_glob(a, b) <=> Matches(a, b)
  <1> DEFINE text  == SubSeq(a, 1, Len(a) - 1)
             pat   == SubSeq(b, 1, Len(b) - 1)
             start == pat # <<>> /\ pat[1] = Star
             rest  == IF start THEN Tail(pat) ELSE pat
             end   == EndsInStar(rest)
             core  == CoreOf(rest)
             s     == IF b[1] = Star THEN Tail(b) ELSE b
             star  == StarEnds(s)
             n     == CoreLen(s)
  <1>1. /\ text \in Seq(NonNul) /\ Len(text) = Len(a) - 1 /\ a = Append(text, NUL)
        /\ pat \in Seq(NonNul) /\ Len(pat) = Len(b) - 1 /\ b = Append(pat, NUL)
    BY BodyOf
  <1>2. Len(a) \in Nat /\ Len(b) \in Nat
    BY StringBytes
  <1>3. /\ b[1] = Star <=> start
        /\ s = Append(rest, NUL) /\ rest \in Seq(NonNul) /\ Len(rest) <= Len(pat)
    <2> HIDE DEF pat
    <2> QED  BY <1>1, PatternParts, Zenon
  <1>4. /\ star <=> end
        /\ core \in Seq(NonNul) /\ Len(core) <= Len(rest) /\ n = Len(core)
        /\ Append(SubSeq(s, 1, n), NUL) = Append(core, NUL)
    <2> HIDE DEF rest, s
    <2> QED  BY <1>3, RestParts
  <1>5. simple_glob(a, b) = Decides(a, Append(SubSeq(s, 1, n), NUL), n, b[1] = Star, star)
    BY Zenon DEF simple_glob, Decides, StarEnds, CoreLen
  <1>6. Len(text) < SIZE_MAX /\ Len(core) < SIZE_MAX
    <2>1. Len(core) \in Nat /\ Len(rest) \in Nat /\ Len(pat) \in Nat
      <3> HIDE DEF core, rest, pat
      <3> QED  BY <1>1, <1>3, <1>4
    <2> HIDE DEF core, rest, pat, text, n, star
    <2> QED  BY <1>1, <1>2, <1>3, <1>4, <2>1 DEF SIZE_MAX
  <1>7. Matches(a, b) <=> \E u \in 0 .. Len(text) :
                            /\ Len(text) - u - Len(core) >= 0
                            /\ SubSeq(text, u + 1, u + Len(core)) = core
                            /\ u = 0 \/ start
                            /\ Len(text) - u - Len(core) = 0 \/ end
    BY Zenon DEF Matches, EndsInStar, CoreOf
  <1>8. PICK p \in BOOLEAN, q \in BOOLEAN : p = (b[1] = Star) /\ q = star
    BY DEF StarEnds
  <1>9. (p <=> start) /\ (q <=> end)
    <2> HIDE DEF start, star, end
    <2> QED  BY <1>3, <1>4, <1>8
  <1> HIDE DEF text, core, start, end, n, s, star
  <1>10. simple_glob(a, b) <=> Placed(a, Len(text), core, Len(core), p, q)
    <2>1. simple_glob(a, b) = Decides(a, Append(core, NUL), Len(core), p, q)
      BY <1>4, <1>5, <1>8, Zenon
    <2>2. Decides(Append(text, NUL), Append(core, NUL), Len(core), p, q)
             <=> Placed(Append(text, NUL), Len(text), core, Len(core), p, q)
      BY <1>1, <1>4, <1>6, DecidesPlaces
    <2> QED  BY <1>1, <2>1, <2>2
  <1>11. ASSUME NEW u \in 0 .. Len(text)
         PROVE  /\ Len(text) - u - Len(core) >= 0 <=> u + Len(core) <= Len(text)
                /\ Len(text) - u - Len(core) = 0 <=> u + Len(core) = Len(text)
    <2>1. Len(core) \in Nat /\ Len(text) \in Nat
      BY <1>1, <1>4
    <2> QED  BY <2>1
  <1>12. ASSUME NEW u \in 0 .. Len(text), u + Len(core) <= Len(text)
         PROVE  SubSeq(text, u + 1, u + Len(core)) = core <=> Holds(a, core, Len(core), u)
    <2>1. Len(text) \in Nat
      BY <1>1
    <2>2. u \in Nat
      BY <2>1
    <2> QED  BY <1>1, <1>4, <1>12, <2>2, SubSeqHolds, Zenon
  <1> QED
    BY <1>7, <1>9, <1>10, <1>11, <1>12 DEF Placed

\* For every text and every pattern shorter than SIZE_MAX, with a star at its
\* beginning, at its end, at both or at neither, simple_glob() matches what
\* string.c:186 says it does.
THEOREM StringsGlobMatches == StrSpec => []GlobMatches
  <1>1. ReadInv => GlobMatches
    <2> SUFFICES ASSUME ReadInv, at = "done", call.fn = "simple_glob"
                 PROVE  ret = 1 <=> Matches(call.a, call.b)
      BY Zenon DEF GlobMatches, Matches
    <2>1. ReaderCall(call) /\ ret = Result(call)
      BY DEF ReadInv, Readers
    <2>2. PICK a, b : a = call.a /\ b = call.b
      OBVIOUS
    <2>3. IsString(a) /\ IsString(b) /\ Len(a) <= SIZE_MAX /\ Len(b) <= SIZE_MAX
      BY <2>1, <2>2, CStrings DEF ReaderCall
    <2>4. Result(call) = IF simple_glob(a, b) THEN 1 ELSE 0
      BY <2>2 DEF Result
    <2>5. simple_glob(a, b) <=> Matches(a, b)
      BY <2>3, GlobIs
    <2> QED  BY <2>1, <2>2, <2>4, <2>5
  <1> QED
    BY <1>1, ReadInvariance, PTL

-----------------------------------------------------------------------------
(* Printf: sequences, of whatever elements. *)

Sequence(s) == \E S : s \in Seq(S)

\* The length of a sequence is a number.
LEMMA SequenceLen ==
    ASSUME NEW s, Sequence(s)
    PROVE  Len(s) \in Nat
  BY DEF Sequence

\* Joining two sequences adds their lengths.
LEMMA SequenceConcat ==
    ASSUME NEW s, Sequence(s), NEW t, Sequence(t)
    PROVE  Sequence(s \o t) /\ Len(s \o t) = Len(s) + Len(t)
  <1>1. PICK S, T : s \in Seq(S) /\ t \in Seq(T)
    BY DEF Sequence
  <1>2. s \in Seq(S \cup T) /\ t \in Seq(S \cup T)
    <2>1. S \subseteq S \cup T /\ T \subseteq S \cup T
      OBVIOUS
    <2> QED  BY <1>1, <2>1, SeqMonotonic
  <1>3. PICK U : s \in Seq(U) /\ t \in Seq(U)
    BY <1>2
  <1>4. s \o t \in Seq(U) /\ Len(s \o t) = Len(s) + Len(t)
    BY <1>3
  <1> QED
    BY <1>4 DEF Sequence

\* A part of any function on numbers is a sequence.
LEMMA SequencePart ==
    ASSUME NEW s, NEW m \in Int, NEW n \in Int
    PROVE  Sequence(SubSeq(s, m, n)) /\ Len(SubSeq(s, m, n)) = IF m <= n THEN n - m + 1 ELSE 0
  <1>1. PICK S : S = {s[k] : k \in m .. n}
    OBVIOUS
  <1>2. \A k \in m .. n : s[k] \in S
    BY <1>1
  <1>3. /\ SubSeq(s, m, n) \in Seq(S)
        /\ Len(SubSeq(s, m, n)) = IF m <= n THEN n - m + 1 ELSE 0
    BY <1>2, SubSeqProperties
  <1> QED
    BY <1>3 DEF Sequence

\* A function on 1 .. n is a sequence of length n.
LEMMA SequenceFcn ==
    ASSUME NEW n \in Nat, NEW f, f = [k \in 1 .. n |-> f[k]]
    PROVE  Sequence(f) /\ Len(f) = n
  <1>1. PICK S : S = {f[k] : k \in 1 .. n}
    OBVIOUS
  <1>2. f \in [1 .. n -> S]
    BY <1>1
  <1>3. f \in Seq(S) /\ Len(f) = n
    BY <1>2
  <1> QED
    BY <1>3 DEF Sequence

\* The rest of a format or of an argument list is one again.
LEMMA SequenceTail ==
    ASSUME NEW s, Sequence(s), s # <<>>
    PROVE  Sequence(Tail(s))
  <1>1. PICK S : s \in Seq(S)
    BY DEF Sequence
  <1>2. Tail(s) \in Seq(S)
    BY <1>1
  <1> QED
    BY <1>2 DEF Sequence

\* The sequences written out in the model, of no, one or two elements.
LEMMA SequenceOne ==
    /\ Sequence(<<>>) /\ Len(<<>>) = 0
    /\ \A c : Sequence(<<c>>) /\ Len(<<c>>) = 1
    /\ \A c, d : Sequence(<<c, d>>) /\ Len(<<c, d>>) = 2
  <1>1. Sequence(<<>>) /\ Len(<<>>) = 0
    <2>1. <<>> \in Seq({}) /\ Len(<<>>) = 0
      OBVIOUS
    <2> QED  BY <2>1 DEF Sequence
  <1>2. ASSUME NEW c PROVE Sequence(<<c>>) /\ Len(<<c>>) = 1
    <2>1. <<c>> \in Seq({c}) /\ Len(<<c>>) = 1
      OBVIOUS
    <2> QED  BY <2>1 DEF Sequence
  <1>3. ASSUME NEW c, NEW d PROVE Sequence(<<c, d>>) /\ Len(<<c, d>>) = 2
    <2>1. <<c, d>> \in Seq({c, d}) /\ Len(<<c, d>>) = 2
      OBVIOUS
    <2> QED  BY <2>1 DEF Sequence
  <1> QED
    BY <1>1, <1>2, <1>3

\* Reversing, as the number printers do with their digits, gives a sequence.
LEMMA SequenceReverse ==
    ASSUME NEW s, Sequence(s)
    PROVE  Sequence(Reverse(s))
  <1>1. Len(s) \in Nat
    BY SequenceLen
  <1>2. Reverse(s) = [k \in 1 .. Len(s) |-> Reverse(s)[k]]
    BY DEF Reverse
  <1> QED
    BY <1>1, <1>2, SequenceFcn

\* Padding is a sequence, empty if the count is not positive.
LEMMA SequenceTimes ==
    ASSUME NEW c, NEW n \in Int
    PROVE  Sequence(Times(c, n))
  <1>1. CASE n > 0
    <2>1. n \in Nat /\ Times(c, n) = [k \in 1 .. n |-> Times(c, n)[k]]
      BY <1>1 DEF Times
    <2> QED  BY <2>1, SequenceFcn
  <1>2. CASE ~(n > 0)
    BY <1>2, SequenceOne DEF Times
  <1> QED
    BY <1>1, <1>2

\* The text up to the NUL.
LEMMA SequenceUpToNul ==
    ASSUME NEW t, Sequence(t)
    PROVE  Sequence(UpToNul(t))
  <1> DEFINE First0(k) == k \in DOMAIN t /\ t[k] = NulChar /\ \A j \in 1 .. k - 1 : t[j] # NulChar
  <1>1. CASE NulChar \in Range(t)
    <2>1. DOMAIN t = 1 .. Len(t) /\ Len(t) \in Nat
      BY DEF Sequence
    <2>2. PICK e \in 1 .. Len(t) : t[e] = NulChar
      BY <1>1, <2>1 DEF Range
    <2> DEFINE D == {k \in Nat : t[k] = NulChar}
    <2>3. e \in D /\ e \in Nat /\ e >= 1 /\ 1 \in Nat
      BY <2>1, <2>2
    <2> HIDE DEF D
    <2>4. PICK j \in 1 .. e : j \in D /\ \A n \in 1 .. j - 1 : n \notin D
      BY <2>3, FirstFrom
    <2>5. First0(j)
      <3>1. j \in DOMAIN t
        BY <2>1
      <3>2. t[j] = NulChar /\ \A n \in 1 .. j - 1 : t[n] # NulChar
        BY <2>3, <2>4 DEF D
      <3> QED  BY <3>1, <3>2
    <2>6. PICK k : First0(k) /\ UpToNul(t) = SubSeq(t, 1, k - 1)
      <3> DEFINE c == CHOOSE k \in DOMAIN t : t[k] = NulChar /\ \A n \in 1 .. k - 1 : t[n] # NulChar
      <3>1. First0(c)
        BY <2>5, Zenon
      <3>2. UpToNul(t) = SubSeq(t, 1, c - 1)
        BY <1>1, Zenon DEF UpToNul
      <3> HIDE DEF c, First0
      <3> QED  BY <3>1, <3>2
    <2>7. k - 1 \in Int
      BY <2>1, <2>6
    <2> QED  BY <2>6, <2>7, SequencePart
  <1>2. CASE NulChar \notin Range(t)
    BY <1>2 DEF UpToNul
  <1> QED
    BY <1>1, <1>2

\* Two sequences are sequences of the same elements.
LEMMA SequencesOf ==
    ASSUME NEW s, Sequence(s), NEW t, Sequence(t)
    PROVE  \E U : s \in Seq(U) /\ t \in Seq(U)
  <1>1. PICK S, T : s \in Seq(S) /\ t \in Seq(T)
    BY DEF Sequence
  <1>2. S \subseteq S \cup T /\ T \subseteq S \cup T
    OBVIOUS
  <1> QED
    BY <1>1, <1>2, SeqMonotonic

\* What stands where.
LEMMA ConcatAt ==
    ASSUME NEW s, Sequence(s), NEW t, Sequence(t), NEW k \in 1 .. Len(s) + Len(t)
    PROVE  (s \o t)[k] = IF k <= Len(s) THEN s[k] ELSE t[k - Len(s)]
  <1>1. PICK U : s \in Seq(U) /\ t \in Seq(U)
    BY SequencesOf
  <1> QED
    BY <1>1

\* Sequences are equal if they have the same elements in the same places.
LEMMA SequenceEqual ==
    ASSUME NEW s, Sequence(s), NEW t, Sequence(t), Len(s) = Len(t),
           \A k \in 1 .. Len(s) : s[k] = t[k]
    PROVE  s = t
  <1>1. PICK U : s \in Seq(U) /\ t \in Seq(U)
    BY SequencesOf
  <1> QED
    BY <1>1, SeqEqual

-----------------------------------------------------------------------------
(* Printf: the buffer. *)

\* The text of the stream p and its NUL are within size bytes.
InBuffer(p, size) ==
    /\ Sequence(p.buffer) /\ p.remain \in Nat /\ p.added \in Nat
    /\ Len(p.buffer) + 1 <= size /\ p.remain = size - 1 - Len(p.buffer)
    /\ p.added >= Len(p.buffer) /\ (p.remain > 0 => p.added = Len(p.buffer))

\* Whatever text is added, it stays there.
LEMMA AddsInBuffer ==
    ASSUME NEW size \in Nat, NEW p, InBuffer(p, size), NEW t, Sequence(t)
    PROVE  InBuffer(addchars(p, t), size)
  <1> DEFINE n == Stored(p, Len(t))
             q == addchars(p, t)
             b == p.buffer
             u == SubSeq(t, 1, n)
  <1>1. /\ Sequence(b) /\ p.remain \in Nat /\ p.added \in Nat /\ Len(b) \in Nat /\ Len(t) \in Nat
        /\ Len(b) + 1 <= size /\ p.remain = size - 1 - Len(b)
        /\ p.added >= Len(b) /\ (p.remain > 0 => p.added = Len(b))
    BY SequenceLen DEF InBuffer
  <1>2. n \in Nat /\ n = IF Len(t) <= p.remain THEN Len(t) ELSE p.remain
    BY <1>1 DEF Stored
  <1>3. q.buffer = b \o u /\ q.remain = p.remain - n /\ q.added = p.added + Len(t)
    BY DEF addchars
  <1> HIDE DEF n, q, b
  <1>4. Sequence(u) /\ Len(u) = n
    <2>1. Sequence(u) /\ Len(u) = IF 1 <= n THEN n - 1 + 1 ELSE 0
      BY <1>2, SequencePart
    <2> QED  BY <1>2, <2>1
  <1> HIDE DEF u
  <1>5. Sequence(b \o u) /\ Len(b \o u) = Len(b) + n
    BY <1>1, <1>4, SequenceConcat
  <1>6. /\ Sequence(q.buffer) /\ q.remain \in Nat /\ q.added \in Nat
        /\ Len(q.buffer) + 1 <= size /\ q.remain = size - 1 - Len(q.buffer)
        /\ q.added >= Len(q.buffer) /\ (q.remain > 0 => q.added = Len(q.buffer))
    <2>1. PICK l, k, r, d : l = Len(b) /\ k = Len(t) /\ r = p.remain /\ d = p.added
      OBVIOUS
    <2>2. /\ l \in Nat /\ k \in Nat /\ r \in Nat /\ d \in Nat /\ n \in Nat
          /\ l + 1 <= size /\ r = size - 1 - l /\ d >= l /\ (r > 0 => d = l)
          /\ n = IF k <= r THEN k ELSE r
      BY <1>1, <1>2, <2>1
    <2>3. /\ r - n \in Nat /\ d + k \in Nat /\ l + n + 1 <= size /\ r - n = size - 1 - (l + n)
          /\ d + k >= l + n /\ (r - n > 0 => d + k = l + n)
      BY <2>2
    <2>4. Sequence(q.buffer) /\ Len(q.buffer) = l + n /\ q.remain = r - n /\ q.added = d + k
      BY <1>3, <1>5, <2>1
    <2> QED  BY <2>3, <2>4
  <1>7. InBuffer(q, size)
    BY <1>6 DEF InBuffer
  <1> QED
    BY <1>7 DEF q

\* print_str() too, with any padding.
LEMMA PrintStrInBuffer ==
    ASSUME NEW size \in Nat, NEW p, InBuffer(p, size), NEW str, Sequence(str),
           NEW pr, pr.npad \in Int
    PROVE  InBuffer(print_str(p, str, pr), size)
  <1> DEFINE len   == Len(str)
             npad  == IF pr.npad > 0 THEN pr.npad - len ELSE pr.npad
             right == IF npad < 0 THEN RightPad(npad, len) ELSE 0
             left  == Times(pr.pad, npad)
             tail  == Times(" ", right)
  <1>1. len \in Nat
    BY SequenceLen
  <1>2. npad \in Int
    BY <1>1
  <1>3. right \in Int
    BY <1>1, <1>2 DEF RightPad
  <1>4. print_str(p, str, pr) = addchars(p, left \o str \o tail)
    BY DEF print_str
  <1>5. Sequence(left) /\ Sequence(tail)
    <2> HIDE DEF npad, right
    <2> QED  BY <1>2, <1>3, SequenceTimes
  <1> HIDE DEF left, tail
  <1>6. Sequence(left \o str)
    BY <1>5, SequenceConcat
  <1>7. Sequence((left \o str) \o tail)
    BY <1>5, <1>6, SequenceConcat
  <1> QED
    BY <1>4, <1>7, AddsInBuffer

-----------------------------------------------------------------------------
(* Printf: the digits of a number. *)

LowEq(f, base) ==
    f = [m \in Nat |-> IF m = 0 THEN <<>> ELSE <<digit(m % base)>> \o f[m \div base]]

\* Dividing by the base leaves less.
LEMMA DivisionShrinks ==
    ASSUME NEW base \in {10, 16}, NEW m \in Nat
    PROVE  m \div base \in Nat /\ m % base \in 0 .. 15 /\ (m # 0 => m \div base <= m - 1)
  <1>1. CASE base = 10
    BY <1>1
  <1>2. CASE base = 16
    BY <1>2
  <1> QED
    BY <1>1, <1>2

\* The recursion of the digits has a solution: the one that k steps reach.
LEMMA LowExists ==
    ASSUME NEW base \in {10, 16}
    PROVE  \E f : LowEq(f, base)
  <1> DEFINE D == {digit(k) : k \in 0 .. 15}
             S == [Nat -> Seq(D)]
             Next1(g) == [m \in Nat |-> IF m = 0 THEN <<>> ELSE <<digit(m % base)>> \o g[m \div base]]
             G == [x \in Nat \X S |-> Next1(x[2])]
             a == [m \in Nat |-> <<>>]
  <1>1. \A m \in Nat : m \div base \in Nat /\ m % base \in 0 .. 15 /\ (m # 0 => m \div base <= m - 1)
    BY DivisionShrinks
  <1>2. a \in S
    OBVIOUS
  <1>3. ASSUME NEW g \in S PROVE Next1(g) \in S
    <2>1. ASSUME NEW m \in Nat, m # 0
          PROVE  <<digit(m % base)>> \o g[m \div base] \in Seq(D)
      <3>1. digit(m % base) \in D /\ g[m \div base] \in Seq(D)
        BY <1>1
      <3>2. <<digit(m % base)>> \in Seq(D)
        BY <3>1
      <3> HIDE DEF D
      <3> QED  BY <3>1, <3>2
    <2> HIDE DEF D
    <2>2. ASSUME NEW m \in Nat
          PROVE  (IF m = 0 THEN <<>> ELSE <<digit(m % base)>> \o g[m \div base]) \in Seq(D)
      BY <2>1
    <2> QED  BY <2>2
  <1>4. G \in [Nat \X S -> S]
    <2> HIDE DEF S, Next1
    <2>1. \A x \in Nat \X S : x[2] \in S
      OBVIOUS
    <2> QED  BY <1>3, <2>1
  <1>5. PICK h : Recurses(h, S, a, G)
    <2> HIDE DEF S, a, G
    <2> QED  BY <1>2, <1>4, Recursion
  <1>6. ASSUME NEW k \in Nat
        PROVE  h[k] \in S /\ h[k + 1] = Next1(h[k])
    <2> HIDE DEF S, Next1, a
    <2>1. h[k] \in S /\ h[k + 1] = G[<<k, h[k]>>]
      BY <1>5 DEF Recurses
    <2>2. <<k, h[k]>> \in Nat \X S
      BY <2>1
    <2> QED  BY <2>1, <2>2
  <1>7. ASSUME NEW k \in Nat, NEW m \in Nat
        PROVE  h[k + 1][m] = IF m = 0 THEN <<>> ELSE <<digit(m % base)>> \o h[k][m \div base]
    <2>1. h[k + 1] = Next1(h[k])
      BY <1>6
    <2>2. Next1(h[k])[m] = IF m = 0 THEN <<>> ELSE <<digit(m % base)>> \o h[k][m \div base]
      OBVIOUS
    <2> HIDE DEF Next1
    <2> QED  BY <2>1, <2>2, Zenon
  <1>8. \A k \in Nat : h[k][0] = <<>>
    <2>1. h[0][0] = <<>>
      BY <1>5 DEF Recurses
    <2>2. ASSUME NEW k \in Nat, k # 0 PROVE h[k][0] = <<>>
      <3>1. k - 1 \in Nat /\ k - 1 + 1 = k
        BY <2>2
      <3> QED  BY <1>7, <3>1
    <2> QED  BY <2>1, <2>2
  <1> DEFINE c(m) == <<digit(m % base)>>
             d(m) == m \div base
  <1>8a. /\ \A m \in Nat : d(m) \in Nat /\ (m # 0 => d(m) <= m - 1)
         /\ \A k, m \in Nat : m # 0 => h[k + 1][m] = c(m) \o h[k][d(m)]
    <2>1. \A m \in Nat : d(m) \in Nat /\ (m # 0 => d(m) <= m - 1)
      BY <1>1
    <2>2. \A k, m \in Nat : m # 0 => h[k + 1][m] = c(m) \o h[k][d(m)]
      BY <1>7, Zenon
    <2> QED  BY <2>1, <2>2
  <1> HIDE DEF S, Next1, G, a, D, c, d
  <1> DEFINE T == {n \in Nat : \A m \in 0 .. n : \A k \in Nat : k >= m => h[k][m] = h[m][m]}
  <1>9. 0 \in T
    BY <1>8
  <1>10. ASSUME NEW n \in Nat, n \in T PROVE n + 1 \in T
    <2>1. ASSUME NEW m \in 0 .. n + 1, NEW k \in Nat, k >= m, m # 0
          PROVE  h[k][m] = h[m][m]
      <3>1. PICK j, l, q : j = k - 1 /\ l = m - 1 /\ q = d(m)
        OBVIOUS
      <3>2. /\ j \in Nat /\ l \in Nat /\ q \in Nat /\ m \in Nat
            /\ k = j + 1 /\ m = l + 1 /\ q <= l /\ q <= j /\ q \in 0 .. n
        <4>1. m \in Nat /\ q \in Nat /\ q <= m - 1
          BY <1>8a, <2>1, <3>1
        <4> QED  BY <2>1, <3>1, <4>1
      <3>3. h[j][q] = h[q][q] /\ h[l][q] = h[q][q]
        BY <1>10, <3>2
      <3>4. h[j + 1][m] = c(m) \o h[j][q] /\ h[l + 1][m] = c(m) \o h[l][q]
        BY <1>8a, <2>1, <3>1, <3>2
      <3> QED  BY <3>2, <3>3, <3>4
    <2> QED  BY <1>8, <2>1
  <1> HIDE DEF T
  <1>11. Nat \subseteq T
    BY <1>9, <1>10, SetInduction
  <1>12. ASSUME NEW m \in Nat, NEW k \in Nat, k >= m PROVE h[k][m] = h[m][m]
    <2>1. m \in T /\ m \in 0 .. m
      BY <1>11
    <2> QED  BY <1>12, <2>1 DEF T
  <1> DEFINE f == [m \in Nat |-> h[m][m]]
  <1>13. ASSUME NEW m \in Nat
         PROVE  f[m] = IF m = 0 THEN <<>> ELSE <<digit(m % base)>> \o f[m \div base]
    <2>1. CASE m = 0
      BY <1>8, <2>1
    <2>2. CASE m # 0
      <3>1. PICK j, q : j = m - 1 /\ q = d(m)
        OBVIOUS
      <3>2. j \in Nat /\ q \in Nat /\ m = j + 1 /\ q <= j
        BY <1>8a, <2>2, <3>1
      <3>3. h[j + 1][m] = c(m) \o h[j][q] /\ h[j][q] = h[q][q]
        BY <1>12, <1>8a, <2>2, <3>1, <3>2
      <3>4. f[m] = c(m) \o f[d(m)]
        BY <3>1, <3>2, <3>3
      <3> QED  BY <2>2, <3>4 DEF c, d
    <2> QED  BY <2>1, <2>2
  <1>14. f = [m \in Nat |-> f[m]]
    OBVIOUS
  <1> HIDE DEF f
  <1>15. LowEq(f, base)
    BY <1>13, <1>14 DEF LowEq
  <1> QED
    BY <1>15

\* The digits are a sequence.
LEMMA SequenceLow ==
    ASSUME NEW base \in {10, 16}, NEW n \in Nat
    PROVE  Sequence(LowFirst(n, base))
  <1> DEFINE f == CHOOSE g : LowEq(g, base)
             T == {k \in Nat : \A m \in 0 .. k : Sequence(f[m])}
  <1>1. LowFirst(n, base) = f[n]
    BY Zenon DEF LowFirst, LowEq
  <1>2. LowEq(f, base)
    BY LowExists, Zenon
  <1> HIDE DEF f
  <1>3. \A m \in Nat : f[m] = IF m = 0 THEN <<>> ELSE <<digit(m % base)>> \o f[m \div base]
    BY <1>2 DEF LowEq
  <1>4. 0 \in T
    <2>1. 0 \in Nat
      OBVIOUS
    <2>2. f[0] = <<>>
      BY <1>3, <2>1, Zenon
    <2>3. Sequence(f[0])
      BY <2>2, SequenceOne, Zenon
    <2> QED  BY <2>3
  <1>5. ASSUME NEW k \in Nat, k \in T PROVE k + 1 \in T
    <2>1. PICK m \in Nat : m = k + 1
      OBVIOUS
    <2>2. PICK q, c : q = m \div base /\ c = <<digit(m % base)>>
      OBVIOUS
    <2>3. q \in 0 .. k
      <3>1. q \in Nat /\ q <= m - 1
        BY <2>1, <2>2, DivisionShrinks
      <3> QED  BY <2>1, <3>1
    <2>4. f[m] = c \o f[q] /\ Sequence(f[q]) /\ Sequence(c)
      <3>1. m # 0
        BY <2>1
      <3>2. f[m] = c \o f[q]
        BY <1>3, <2>2, <3>1, Zenon
      <3>3. Sequence(f[q])
        BY <1>5, <2>3
      <3>4. Sequence(c)
        BY <2>2, SequenceOne, Zenon
      <3> QED  BY <3>2, <3>3, <3>4
    <2>5. Sequence(f[m])
      BY <2>4, SequenceConcat
    <2> QED  BY <1>5, <2>1, <2>5
  <1> HIDE DEF T
  <1>6. Nat \subseteq T
    BY <1>4, <1>5, SetInduction
  <1>7. n \in T /\ n \in 0 .. n
    BY <1>6
  <1> QED
    BY <1>1, <1>7 DEF T

PowEq(f) == f = [n \in Nat |-> IF n = 0 THEN 1 ELSE 2 * f[n - 1]]

\* The powers of two follow their recursion ...
LEMMA Pow2Is == \A n \in Nat : Pow2[n] = IF n = 0 THEN 1 ELSE 2 * Pow2[n - 1]
  <1> DEFINE S == Nat \ {0}
             G == [x \in Nat \X S |-> 2 * x[2]]
  <1>1. PICK h : Recurses(h, S, 1, G)
    <2>1. G \in [Nat \X S -> S]
      <3>1. \A x \in Nat \X S : 2 * x[2] \in S
        OBVIOUS
      <3> HIDE DEF S
      <3> QED  BY <3>1
    <2>2. 1 \in S
      OBVIOUS
    <2> HIDE DEF S, G
    <2> QED  BY <2>1, <2>2, Recursion
  <1>2. PowEq(h)
    <2>1. h \in [Nat -> S] /\ h[0] = 1
      BY <1>1 DEF Recurses
    <2>2. ASSUME NEW n \in Nat, n # 0 PROVE h[n] = 2 * h[n - 1]
      <3>1. PICK k \in Nat : k = n - 1 /\ n = k + 1
        BY <2>2
      <3>2. h[k + 1] = G[<<k, h[k]>>] /\ <<k, h[k]>> \in Nat \X S
        <4> HIDE DEF S, G
        <4> QED  BY <1>1, <2>1 DEF Recurses
      <3>3. h[k + 1] = 2 * h[k]
        <4> HIDE DEF S
        <4> QED  BY <3>2
      <3> QED  BY <3>1, <3>3
    <2>3. \A n \in Nat : h[n] = IF n = 0 THEN 1 ELSE 2 * h[n - 1]
      BY <2>1, <2>2
    <2>4. h = [n \in Nat |-> h[n]]
      BY <2>1
    <2> QED  BY <2>3, <2>4 DEF PowEq
  <1>3. PowEq(Pow2)
    <2>1. Pow2 = CHOOSE f : PowEq(f)
      BY Zenon DEF Pow2, PowEq
    <2> QED  BY <1>2, <2>1, Zenon
  <1> QED
    BY <1>3 DEF PowEq

\* ... and are positive.
LEMMA Pow2Positive == \A n \in Nat : Pow2[n] \in Nat \ {0}
  <1> DEFINE T == {n \in Nat : Pow2[n] \in Nat \ {0}}
  <1>1. 0 \in T
    BY Pow2Is
  <1>2. ASSUME NEW n \in Nat, n \in T PROVE n + 1 \in T
    <2>1. n + 1 \in Nat /\ n + 1 # 0 /\ (n + 1) - 1 = n
      OBVIOUS
    <2>2. Pow2[n + 1] = 2 * Pow2[n]
      BY <2>1, Pow2Is
    <2> QED  BY <1>2, <2>1, <2>2
  <1> HIDE DEF T
  <1>3. Nat \subseteq T
    BY <1>1, <1>2, SetInduction
  <1> QED
    BY <1>3 DEF T

\* The powers of two grow.
LEMMA Pow2Grow ==
    ASSUME NEW m \in Nat, NEW n \in Nat, m <= n
    PROVE  Pow2[m] <= Pow2[n]
  <1> DEFINE T == {j \in Nat : Pow2[m] <= Pow2[m + j]}
  <1>1. 0 \in T
    <2>1. Pow2[m] \in Nat /\ m + 0 = m
      BY Pow2Positive
    <2> QED  BY <2>1
  <1>2. ASSUME NEW j \in Nat, j \in T PROVE j + 1 \in T
    <2>1. PICK k \in Nat : k = m + j
      OBVIOUS
    <2>2. PICK x \in Nat : x = Pow2[m]
      BY Pow2Positive
    <2>3. PICK y \in Nat : y = Pow2[k]
      BY Pow2Positive
    <2>4. k + 1 \in Nat /\ k + 1 # 0 /\ (k + 1) - 1 = k /\ m + (j + 1) = k + 1
      BY <2>1
    <2>5. Pow2[k + 1] = 2 * y
      BY <2>3, <2>4, Pow2Is
    <2>6. x <= y
      BY <1>2, <2>1, <2>2, <2>3
    <2>7. x <= 2 * y
      BY <2>6
    <2> QED  BY <2>2, <2>4, <2>5, <2>7
  <1> HIDE DEF T
  <1>3. Nat \subseteq T
    BY <1>1, <1>2, SetInduction
  <1>4. PICK j \in Nat : j = n - m
    OBVIOUS
  <1>5. m + j = n /\ j \in T
    BY <1>3, <1>4
  <1> QED
    BY <1>5 DEF T

\* va_arg() gives numbers of a width.
LEMMA ArgumentNumbers ==
    ASSUME NEW v \in Int, NEW w \in Nat \ {0}
    PROVE  Unsigned(v, w) \in Nat /\ Signed(v, w) \in Int
  <1>1. PICK m \in Nat \ {0} : m = Pow2[w]
    BY Pow2Positive
  <1>2. PICK l \in Nat \ {0} : l = Pow2[w - 1]
    <2>1. w - 1 \in Nat
      OBVIOUS
    <2> QED  BY <2>1, Pow2Positive
  <1>3. v % m \in Nat
    OBVIOUS
  <1>4. Unsigned(v, w) = v % m
    BY <1>1 DEF Unsigned
  <1>5. Signed(v, w) = IF Unsigned(v, w) < l THEN Unsigned(v, w) ELSE Unsigned(v, w) - m
    BY <1>1, <1>2 DEF Signed
  <1> QED
    BY <1>3, <1>4, <1>5

\* A sequence with one more element.
LEMMA SequenceAppend ==
    ASSUME NEW s, Sequence(s), NEW c
    PROVE  Sequence(Append(s, c))
  <1>1. PICK S : s \in Seq(S)
    BY DEF Sequence
  <1>2. S \subseteq S \cup {c} /\ c \in S \cup {c}
    OBVIOUS
  <1>3. PICK U : s \in Seq(U) /\ c \in U
    BY <1>1, <1>2, SeqMonotonic
  <1>4. Append(s, c) \in Seq(U)
    BY <1>3
  <1> QED
    BY <1>4 DEF Sequence

\* print_int() stays in the buffer, with LLONG_MIN and its junk too ...
LEMMA PrintIntInBuffer ==
    ASSUME NEW size \in Nat, NEW p, InBuffer(p, size), NEW n \in Int,
           NEW pr, pr.npad \in Int, NEW junk
    PROVE  InBuffer(print_int(p, n, pr, junk), size)
  <1> DEFINE low  == LowFirst(IF n < 0 THEN -n ELSE n, 10)
             read == IF n # LLONG_MIN THEN low
                     ELSE [k \in DOMAIN low |-> IF low[k] = "0" THEN "0" ELSE junk]
             text == IF n < 0 THEN Append(read, "-") ELSE IF n = 0 THEN <<"0">> ELSE read
  <1>1. print_int(p, n, pr, junk) = print_str(p, UpToNul(Reverse(text)), pr)
    BY DEF print_int
  <1>2. Sequence(low)
    <2>1. PICK m \in Nat : m = IF n < 0 THEN -n ELSE n
      OBVIOUS
    <2>2. low = LowFirst(m, 10) /\ 10 \in {10, 16}
      BY <2>1
    <2> HIDE DEF low
    <2> QED  BY <2>2, SequenceLow
  <1> HIDE DEF low
  <1>3. Sequence(read)
    <2>1. CASE n = LLONG_MIN
      <3>1. DOMAIN low = 1 .. Len(low) /\ Len(low) \in Nat
        BY <1>2 DEF Sequence
      <3>2. read = [k \in 1 .. Len(low) |-> read[k]]
        BY <2>1, <3>1
      <3> HIDE DEF read
      <3> QED  BY <3>1, <3>2, SequenceFcn
    <2>2. CASE n # LLONG_MIN
      BY <1>2, <2>2
    <2> QED  BY <2>1, <2>2
  <1> HIDE DEF read
  <1>4. Sequence(text)
    <2>1. Sequence(Append(read, "-"))
      BY <1>3, SequenceAppend
    <2>2. Sequence(<<"0">>)
      BY SequenceOne
    <2> QED  BY <1>3, <2>1, <2>2
  <1> HIDE DEF text
  <1>5. Sequence(UpToNul(Reverse(text)))
    <2>1. Sequence(Reverse(text))
      BY <1>4, SequenceReverse
    <2> QED  BY <2>1, SequenceUpToNul
  <1> QED
    BY <1>1, <1>5, PrintStrInBuffer

PropsType == [pad : {" ", "0"}, npad : Int, alternate : BOOLEAN]

\* ... and print_unsigned(), whose prefix is added before the padding or with
\* the digits.
LEMMA PrintUnsignedInBuffer ==
    ASSUME NEW size \in Nat, NEW p, InBuffer(p, size), NEW n \in Nat, NEW base \in {10, 16},
           NEW pr \in PropsType
    PROVE  InBuffer(print_unsigned(p, n, base, pr), size)
  <1> DEFINE low    == LowFirst(n, base)
             prefix == n # 0 /\ pr.alternate /\ base = 16
             pr2    == [pr EXCEPT !.npad = IF @ > 0 THEN (IF @ > 2 THEN @ - 2 ELSE 0) ELSE @]
             text   == IF n = 0 THEN <<"0">> ELSE IF prefix THEN low \o <<"x", "0">> ELSE low
  <1>1. print_unsigned(p, n, base, pr) =
           IF prefix /\ pr.pad = "0"
           THEN print_str(addchars(p, <<"0", "x">>), Reverse(low), pr2)
           ELSE print_str(p, Reverse(text), pr)
    BY Zenon DEF print_unsigned
  <1>2. pr.npad \in Int /\ pr2.npad \in Int
    <2>1. pr.npad \in Int /\ "npad" \in DOMAIN pr
      BY DEF PropsType
    <2>2. pr2.npad = IF pr.npad > 0 THEN (IF pr.npad > 2 THEN pr.npad - 2 ELSE 0) ELSE pr.npad
      BY <2>1
    <2> QED  BY <2>1, <2>2
  <1>3. Sequence(low)
    BY SequenceLow
  <1> HIDE DEF low, prefix, pr2
  <1>4. Sequence(text)
    <2>1. Sequence(<<"0">>) /\ Sequence(<<"x", "0">>)
      BY SequenceOne
    <2>2. Sequence(low \o <<"x", "0">>)
      BY <1>3, <2>1, SequenceConcat
    <2> QED  BY <1>3, <2>1, <2>2
  <1> HIDE DEF text
  <1>5. Sequence(Reverse(low)) /\ Sequence(Reverse(text))
    BY <1>3, <1>4, SequenceReverse
  <1>6. InBuffer(addchars(p, <<"0", "x">>), size)
    <2>1. Sequence(<<"0", "x">>)
      BY SequenceOne
    <2> QED  BY <2>1, AddsInBuffer
  <1>7. InBuffer(print_str(addchars(p, <<"0", "x">>), Reverse(low), pr2), size)
    BY <1>2, <1>5, <1>6, PrintStrInBuffer
  <1>8. InBuffer(print_str(p, Reverse(text), pr), size)
    BY <1>2, <1>5, PrintStrInBuffer
  <1> QED
    BY <1>1, <1>7, <1>8

-----------------------------------------------------------------------------
(* Printf: the digits of a number, by place value. *)

PowersEq(f, base) == f = [m \in Nat |-> IF m = 0 THEN 1 ELSE base * f[m - 1]]

\* The powers of a base: p[m] is base to the m.
ArePowers(p, base) ==
    /\ p[0] = 1 /\ \A m \in Nat : p[m] \in Nat \ {0}
    /\ \A m \in Nat : p[m + 1] = base * p[m]

\* The model's powers are powers.
LEMMA PowersAre ==
    ASSUME NEW base \in {10, 16}
    PROVE  ArePowers(Powers(base), base)
  <1> DEFINE S == Nat \ {0}
             G == [x \in Nat \X S |-> base * x[2]]
             p == CHOOSE f : PowersEq(f, base)
  <1>0. base \in S
    OBVIOUS
  <1>1. PICK h : Recurses(h, S, 1, G)
    <2>1. G \in [Nat \X S -> S]
      <3>1. ASSUME NEW x \in Nat \X S PROVE base * x[2] \in S
        <4>1. PICK y \in Nat \ {0} : y = x[2]
          OBVIOUS
        <4>2. base * y \in S
          <5>1. CASE base = 10
            BY <5>1
          <5>2. CASE base = 16
            BY <5>2
          <5> QED  BY <5>1, <5>2
        <4> QED  BY <4>1, <4>2
      <3> HIDE DEF S
      <3> QED  BY <3>1
    <2>2. 1 \in S
      OBVIOUS
    <2> HIDE DEF S, G
    <2> QED  BY <2>1, <2>2, Recursion
  <1>2. h \in [Nat -> S] /\ h[0] = 1
    BY <1>1 DEF Recurses
  <1>3. ASSUME NEW k \in Nat PROVE h[k + 1] = base * h[k]
    <2>1. h[k + 1] = G[<<k, h[k]>>] /\ <<k, h[k]>> \in Nat \X S
      <3> HIDE DEF S, G
      <3> QED  BY <1>1, <1>2 DEF Recurses
    <2> HIDE DEF S
    <2> QED  BY <2>1
  <1>4. PowersEq(h, base)
    <2>1. ASSUME NEW n \in Nat, n # 0 PROVE h[n] = base * h[n - 1]
      <3>1. PICK k \in Nat : k = n - 1
        BY <2>1
      <3>2. n = k + 1
        BY <3>1
      <3> QED  BY <1>3, <3>1, <3>2
    <2>2. \A n \in Nat : h[n] = IF n = 0 THEN 1 ELSE base * h[n - 1]
      BY <1>2, <2>1
    <2>3. h = [n \in Nat |-> h[n]]
      BY <1>2
    <2> QED  BY <2>2, <2>3 DEF PowersEq
  <1>5. PowersEq(p, base) /\ Powers(base) = p
    <2>1. PowersEq(p, base)
      BY <1>4, Zenon
    <2>2. Powers(base) = p
      BY Zenon DEF Powers, PowersEq
    <2> QED  BY <2>1, <2>2
  <1> HIDE DEF p
  <1>6. \A n \in Nat : p[n] = IF n = 0 THEN 1 ELSE base * p[n - 1]
    BY <1>5 DEF PowersEq
  <1>7. p[0] = 1 /\ \A m \in Nat : p[m + 1] = base * p[m]
    <2>1. ASSUME NEW m \in Nat PROVE p[m + 1] = base * p[m]
      <3>1. m + 1 \in Nat /\ m + 1 # 0 /\ (m + 1) - 1 = m
        OBVIOUS
      <3> QED  BY <1>6, <3>1
    <2> QED  BY <1>6, <2>1
  <1> DEFINE T == {m \in Nat : p[m] \in Nat \ {0}}
  <1>8. 0 \in T
    BY <1>7
  <1>9. ASSUME NEW m \in Nat, m \in T PROVE m + 1 \in T
    <2>1. PICK y \in Nat \ {0} : y = p[m]
      BY <1>9
    <2>2. base * y \in Nat \ {0}
      <3>1. CASE base = 10
        BY <3>1
      <3>2. CASE base = 16
        BY <3>2
      <3> QED  BY <3>1, <3>2
    <2> QED  BY <1>7, <2>1, <2>2
  <1> HIDE DEF T
  <1>10. Nat \subseteq T
    BY <1>8, <1>9, SetInduction
  <1>11. \A m \in Nat : p[m] \in Nat \ {0}
    BY <1>10 DEF T
  <1> QED
    BY <1>5, <1>7, <1>11 DEF ArePowers

\* They grow, and faster than those of two.
LEMMA PowersGrow ==
    ASSUME NEW base \in {10, 16}, NEW p, ArePowers(p, base)
    PROVE  /\ \A m \in Nat, n \in Nat : m <= n => p[m] <= p[n]
           /\ \A m \in Nat : Pow2[m] <= p[m]
  <1>1. /\ p[0] = 1 /\ \A m \in Nat : p[m] \in Nat \ {0}
        /\ \A m \in Nat : p[m + 1] = base * p[m]
    BY DEF ArePowers
  <1>2. ASSUME NEW m \in Nat, NEW x \in Nat, x <= p[m]
        PROVE  2 * x <= p[m + 1] /\ x <= p[m + 1]
    <2>1. PICK y \in Nat \ {0} : y = p[m]
      BY <1>1
    <2>2. p[m + 1] = base * y
      BY <1>1, <2>1
    <2>3. 2 * x <= base * y /\ x <= base * y
      <3>1. CASE base = 10
        BY <1>2, <2>1, <3>1
      <3>2. CASE base = 16
        BY <1>2, <2>1, <3>2
      <3> QED  BY <3>1, <3>2
    <2> QED  BY <2>2, <2>3
  <1>3. ASSUME NEW m \in Nat, NEW n \in Nat, m <= n PROVE p[m] <= p[n]
    <2> DEFINE T == {j \in Nat : p[m] <= p[m + j]}
    <2>1. 0 \in T
      <3>1. p[m] \in Nat /\ m + 0 = m
        BY <1>1
      <3> QED  BY <3>1
    <2>2. ASSUME NEW j \in Nat, j \in T PROVE j + 1 \in T
      <3>1. PICK k \in Nat : k = m + j
        OBVIOUS
      <3>2. m + (j + 1) = k + 1
        BY <3>1
      <3>3. PICK x \in Nat : x = p[m]
        BY <1>1
      <3>4. x <= p[k]
        BY <2>2, <3>1, <3>3
      <3>5. x <= p[k + 1]
        BY <1>2, <3>4
      <3> QED  BY <3>2, <3>3, <3>5
    <2> HIDE DEF T
    <2>3. Nat \subseteq T
      BY <2>1, <2>2, SetInduction
    <2>4. PICK j \in Nat : j = n - m
      BY <1>3
    <2>5. m + j = n /\ j \in T
      BY <2>3, <2>4
    <2> QED  BY <2>5 DEF T
  <1>4. \A m \in Nat : Pow2[m] <= p[m]
    <2> DEFINE T == {m \in Nat : Pow2[m] <= p[m]}
    <2>1. 0 \in T
      BY <1>1, Pow2Is
    <2>2. ASSUME NEW m \in Nat, m \in T PROVE m + 1 \in T
      <3>1. m + 1 \in Nat /\ m + 1 # 0 /\ (m + 1) - 1 = m
        OBVIOUS
      <3>2. Pow2[m + 1] = 2 * Pow2[m]
        BY <3>1, Pow2Is
      <3>3. PICK x \in Nat : x = Pow2[m]
        BY Pow2Positive
      <3>4. x <= p[m]
        BY <2>2, <3>3
      <3>5. 2 * x <= p[m + 1]
        BY <1>2, <3>4
      <3> QED  BY <3>2, <3>3, <3>5
    <2> HIDE DEF T
    <2>3. Nat \subseteq T
      BY <2>1, <2>2, SetInduction
    <2> QED  BY <2>3 DEF T
  <1> QED
    BY <1>3, <1>4

\* What division by a base says of a number.
LEMMA DivBound ==
    ASSUME NEW base \in {10, 16}, NEW n \in Nat, NEW y \in Nat
    PROVE  /\ (n \div base < y => n < base * y) /\ (y <= n \div base => base * y <= n)
           /\ n \div base \in Nat /\ (n % base) \in 0 .. base - 1
           /\ n = base * (n \div base) + (n % base)
  <1>1. CASE base = 10
    BY <1>1
  <1>2. CASE base = 16
    BY <1>2
  <1> QED
    BY <1>1, <1>2

\* s holds the digits of n from the last, m of them.
Lows(s, n, base, p, m) ==
    /\ Sequence(s) /\ Len(s) = m /\ n < p[m] /\ (m = 0 \/ p[m - 1] <= n)
    /\ \A k \in 1 .. m : s[k] = digit((n \div p[k - 1]) % base)

\* One more digit.
LEMMA LowsMore ==
    ASSUME NEW base \in {10, 16}, NEW p, ArePowers(p, base), NEW n \in Nat \ {0}, NEW q,
           q = n \div base, NEW s, NEW m \in Nat, Lows(s, q, base, p, m), NEW u,
           u = <<digit(n % base)>> \o s
    PROVE  Lows(u, n, base, p, m + 1)
  <1>1. /\ p[0] = 1 /\ \A k \in Nat : p[k] \in Nat \ {0}
        /\ \A k \in Nat : p[k + 1] = base * p[k]
    BY DEF ArePowers
  <1>2. /\ Sequence(s) /\ Len(s) = m /\ q < p[m] /\ (m = 0 \/ p[m - 1] <= q)
        /\ \A k \in 1 .. m : s[k] = digit((q \div p[k - 1]) % base)
    BY DEF Lows
  <1>3. q \in Nat
    BY DivBound
  <1>4. n < p[m + 1]
    <2>1. PICK y \in Nat : y = p[m]
      BY <1>1
    <2>2. n < base * y
      BY <1>2, <2>1, DivBound
    <2> QED  BY <1>1, <2>1, <2>2
  <1>5. p[m] <= n
    <2>1. CASE m = 0
      BY <1>1, <2>1
    <2>2. CASE m # 0
      <3>1. PICK j \in Nat : j = m - 1
        BY <2>2
      <3>2. j + 1 = m
        BY <3>1
      <3>3. PICK y \in Nat : y = p[j]
        BY <1>1
      <3>4. base * y <= n
        BY <1>2, <2>2, <3>1, <3>3, DivBound
      <3> QED  BY <1>1, <3>2, <3>3, <3>4
    <2> QED  BY <2>1, <2>2
  <1>6. PICK o : o = <<digit(n % base)>>
    OBVIOUS
  <1>7. Sequence(o) /\ Len(o) = 1 /\ o[1] = digit(n % base)
    BY <1>6, SequenceOne
  <1>8. Sequence(u) /\ Len(u) = m + 1
    <2>1. Sequence(o \o s) /\ Len(o \o s) = Len(o) + Len(s)
      BY <1>2, <1>7, SequenceConcat
    <2> QED  BY <1>2, <1>6, <1>7, <2>1
  <1>9. ASSUME NEW k \in 1 .. m + 1 PROVE u[k] = digit((n \div p[k - 1]) % base)
    <2>1. u[k] = IF k <= 1 THEN o[k] ELSE s[k - 1]
      <3>1. k \in 1 .. Len(o) + Len(s)
        BY <1>2, <1>7
      <3>2. (o \o s)[k] = IF k <= Len(o) THEN o[k] ELSE s[k - Len(o)]
        BY <1>2, <1>7, <3>1, ConcatAt
      <3> QED  BY <1>6, <1>7, <3>2
    <2>2. CASE k = 1
      <3>1. n \div 1 = n /\ k - 1 = 0
        BY <2>2
      <3>2. n \div p[k - 1] = n
        BY <1>1, <3>1
      <3>3. u[k] = digit(n % base)
        BY <1>7, <2>1, <2>2
      <3> QED  BY <3>2, <3>3
    <2>3. CASE k # 1
      <3>1. PICK j \in 1 .. m : j = k - 1
        BY <2>3
      <3>2. u[k] = digit((q \div p[j - 1]) % base)
        <4>1. ~(k <= 1)
          BY <2>3
        <4>2. u[k] = s[j]
          BY <2>1, <3>1, <4>1
        <4>3. s[j] = digit((q \div p[j - 1]) % base)
          BY <1>2, Zenon
        <4> QED  BY <4>2, <4>3, Zenon
      <3>3. PICK i0 \in Nat : i0 = j - 1
        OBVIOUS
      <3>4. p[j] = base * p[i0]
        <4>1. i0 + 1 = j
          BY <3>3
        <4> QED  BY <1>1, <4>1
      <3>5. PICK y \in Nat \ {0} : y = p[i0]
        BY <1>1
      <3>6. q \div y = n \div (y * base)
        <4>1. base \in Nat \ {0}
          OBVIOUS
        <4> QED  BY <4>1, DivDiv
      <3>7. y * base = base * y
        OBVIOUS
      <3> QED  BY <3>1, <3>2, <3>3, <3>4, <3>5, <3>6, <3>7
    <2> QED  BY <2>2, <2>3
  <1>10. (m + 1) - 1 = m
    OBVIOUS
  <1> QED
    BY <1>4, <1>5, <1>8, <1>9, <1>10 DEF Lows

\* The digits print_int() and print_unsigned() find, from the last.
LEMMA LowFirstIs ==
    ASSUME NEW base \in {10, 16}, NEW p, ArePowers(p, base), NEW n \in Nat
    PROVE  \E m \in Nat : Lows(LowFirst(n, base), n, base, p, m)
  <1> DEFINE f == CHOOSE g : LowEq(g, base)
             Good(k) == \E m \in Nat : Lows(f[k], k, base, p, m)
             T == {k \in Nat : \A j \in 0 .. k : Good(j)}
  <1>1. LowFirst(n, base) = f[n]
    BY Zenon DEF LowFirst, LowEq
  <1>2. LowEq(f, base)
    BY LowExists, Zenon
  <1> HIDE DEF f
  <1>3. \A m \in Nat : f[m] = IF m = 0 THEN <<>> ELSE <<digit(m % base)>> \o f[m \div base]
    BY <1>2 DEF LowEq
  <1>4. 0 \in T
    <2>1. f[0] = <<>>
      <3>1. 0 \in Nat
        OBVIOUS
      <3> QED  BY <1>3, <3>1, Zenon
    <2>1a. 0 < p[0]
      BY DEF ArePowers
    <2>2. Lows(f[0], 0, base, p, 0)
      BY <2>1, <2>1a, SequenceOne DEF Lows
    <2>3. Good(0)
      BY <2>2
    <2> HIDE DEF Good
    <2> QED  BY <2>3
  <1>5. ASSUME NEW k \in Nat, k \in T PROVE k + 1 \in T
    <2>1. PICK j \in Nat \ {0} : j = k + 1
      OBVIOUS
    <2>2. PICK q : q = j \div base
      OBVIOUS
    <2>3. q \in 0 .. k
      <3>1. q \in Nat /\ q <= j - 1
        BY <2>1, <2>2, DivisionShrinks
      <3> QED  BY <2>1, <3>1
    <2>4. Good(q)
      <3> HIDE DEF Good
      <3> QED  BY <1>5, <2>3
    <2>5. PICK m \in Nat : Lows(f[q], q, base, p, m)
      BY <2>4
    <2>6. f[j] = <<digit(j % base)>> \o f[q]
      BY <1>3, <2>1, <2>2, Zenon
    <2>7. Lows(f[j], j, base, p, m + 1)
      BY <2>2, <2>5, <2>6, LowsMore
    <2>8. Good(j)
      BY <2>7
    <2> HIDE DEF Good
    <2>9. \A i0 \in 0 .. k : Good(i0)
      BY <1>5
    <2>10. \A i0 \in 0 .. k + 1 : Good(i0)
      BY <2>1, <2>8, <2>9
    <2> QED  BY <2>10
  <1> HIDE DEF T
  <1>6. Nat \subseteq T
    BY <1>4, <1>5, SetInduction
  <1>7. Good(n)
    <2>1. n \in T /\ n \in 0 .. n
      BY <1>6
    <2> HIDE DEF Good
    <2> QED  BY <2>1 DEF T
  <1> QED
    BY <1>1, <1>7

\* The number of digits of n.
Length(n, p, m) == m \in Nat \ {0} /\ n < p[m] /\ (m = 1 \/ p[m - 1] <= n)

\* There is only one, and it is at most LongBits.
LEMMA LengthIs ==
    ASSUME NEW base \in {10, 16}, NEW p, ArePowers(p, base), NEW n \in Nat, n < Pow2[LongBits]
    PROVE  /\ \A m, l : Length(n, p, m) /\ Length(n, p, l) => m = l
           /\ \A m : Length(n, p, m) => m \in 1 .. LongBits
           /\ \A m \in Nat : n # 0 /\ n < p[m] /\ (m = 0 \/ p[m - 1] <= n) => Length(n, p, m)
           /\ n = 0 => Length(n, p, 1)
  <1>1. \A m \in Nat : p[m] \in Nat \ {0}
    BY DEF ArePowers
  <1>2. \A m \in Nat, l \in Nat : m <= l => p[m] <= p[l]
    BY PowersGrow
  <1>3. ASSUME NEW m, NEW l, Length(n, p, m), Length(n, p, l), m <= l - 1 PROVE FALSE
    <2>1. m \in Nat /\ l \in Nat /\ l # 0 /\ l # 1
      BY <1>3 DEF Length
    <2>2. PICK j \in Nat : j = l - 1
      BY <2>1
    <2>3. p[j] <= n /\ n < p[m]
      BY <1>3, <2>1, <2>2 DEF Length
    <2>4. p[m] <= p[j]
      BY <1>2, <1>3, <2>1, <2>2
    <2>5. p[m] \in Nat /\ p[j] \in Nat
      BY <1>1, <2>1
    <2> QED  BY <2>3, <2>4, <2>5
  <1>4. ASSUME NEW m, NEW l, Length(n, p, m), Length(n, p, l) PROVE m = l
    <2>1. m \in Nat /\ l \in Nat
      BY <1>4 DEF Length
    <2>2. ~(m <= l - 1) /\ ~(l <= m - 1)
      BY <1>3, <1>4
    <2> QED  BY <2>1, <2>2
  <1>5. ASSUME NEW m, Length(n, p, m) PROVE m \in 1 .. LongBits
    <2>1. PICK L \in Nat \ {0} : L = LongBits
      BY PrintfAssumption
    <2>2. m \in Nat /\ m # 0
      BY <1>5 DEF Length
    <2>3. CASE m = 1
      BY <2>1, <2>3
    <2>4. CASE m # 1
      <3>1. PICK j \in Nat : j = m - 1
        BY <2>2
      <3>2. p[j] <= n
        BY <1>5, <2>4, <3>1 DEF Length
      <3>3. PICK x \in Nat : x = Pow2[L]
        BY Pow2Positive
      <3>4. x <= p[L]
        BY <3>3, PowersGrow
      <3>5. n < x
        BY <2>1, <3>3
      <3>6. ~(L <= j)
        <4> SUFFICES ASSUME L <= j PROVE FALSE
          OBVIOUS
        <4>1. p[L] <= p[j]
          BY <1>2
        <4>2. p[L] \in Nat /\ p[j] \in Nat
          BY <1>1
        <4> QED  BY <3>2, <3>4, <3>5, <4>1, <4>2
      <3> QED  BY <2>1, <2>2, <3>1, <3>6
    <2> QED  BY <2>3, <2>4
  <1>6. ASSUME NEW m \in Nat, n # 0, n < p[m], m = 0 \/ p[m - 1] <= n PROVE Length(n, p, m)
    <2>1. m # 0
      <3> SUFFICES ASSUME m = 0 PROVE FALSE
        OBVIOUS
      <3>1. n < 1
        BY <1>6 DEF ArePowers
      <3> QED  BY <1>6, <3>1
    <2> QED  BY <1>6, <2>1 DEF Length
  <1>7. n = 0 => Length(n, p, 1)
    <2>1. p[1] \in Nat /\ p[1] # 0
      BY <1>1
    <2> QED  BY <2>1 DEF Length
  <1> QED
    BY <1>4, <1>5, <1>6, <1>7

\* s holds the digits of n from the first, m of them.
Digits(s, n, base, p, m) ==
    /\ Length(n, p, m) /\ Sequence(s) /\ Len(s) = m
    /\ \A k \in 1 .. m : s[k] = digit((n \div p[m - k]) % base)

\* DigitsOf() is the text it says.
LEMMA DigitsOfIs ==
    ASSUME NEW base \in {10, 16}, NEW n \in Nat, n < Pow2[LongBits], NEW m,
           Length(n, Powers(base), m)
    PROVE  Digits(DigitsOf(n, base), n, base, Powers(base), m)
  <1> DEFINE p == Powers(base)
             c == CHOOSE l \in 1 .. LongBits : n < p[l] /\ (l = 1 \/ p[l - 1] <= n)
             D == [k \in 1 .. c |-> digit((n \div p[c - k]) % base)]
  <1>1. ArePowers(p, base)
    BY PowersAre
  <1>2. DigitsOf(n, base) = D
    BY Zenon DEF DigitsOf
  <1> HIDE DEF p
  <1>3. m \in 1 .. LongBits
    BY <1>1, LengthIs DEF p
  <1>4. c \in 1 .. LongBits /\ n < p[c] /\ (c = 1 \/ p[c - 1] <= n)
    <2>1. n < p[m] /\ (m = 1 \/ p[m - 1] <= n)
      BY DEF Length, p
    <2> QED  BY <1>3, <2>1, Zenon
  <1> HIDE DEF c, D
  <1>5. c \in Nat \ {0}
    <2>1. PICK L \in Nat : L = LongBits
      BY PrintfAssumption
    <2> QED  BY <1>4, <2>1
  <1> USE DEF D
  <1>6. Length(n, p, c)
    BY <1>4, <1>5 DEF Length
  <1>7. c = m
    BY <1>1, <1>6, LengthIs DEF p
  <1>8. D = [k \in 1 .. c |-> D[k]] /\ \A k \in 1 .. c : D[k] = digit((n \div p[c - k]) % base)
    OBVIOUS
  <1> HIDE DEF D
  <1>9. Sequence(D) /\ Len(D) = c
    BY <1>5, <1>8, SequenceFcn
  <1>10. Digits(D, n, base, p, m)
    BY <1>6, <1>7, <1>8, <1>9 DEF Digits
  <1> QED
    BY <1>2, <1>10 DEF p

\* Reverse() element by element.
LEMMA ReverseAt ==
    ASSUME NEW s, Sequence(s), NEW u, u = Reverse(s)
    PROVE  Sequence(u) /\ Len(u) = Len(s) /\ \A k \in 1 .. Len(s) : u[k] = s[Len(s) - k + 1]
  <1>1. Len(s) \in Nat
    BY SequenceLen
  <1>2. /\ u = [k \in 1 .. Len(s) |-> u[k]]
        /\ \A k \in 1 .. Len(s) : u[k] = s[Len(s) - k + 1]
    <2>1. u = [k \in 1 .. Len(s) |-> s[(Len(s) - k) + 1]]
      BY DEF Reverse
    <2> QED  BY <1>1, <2>1
  <1>3. Sequence(u) /\ Len(u) = Len(s)
    BY <1>1, <1>2, SequenceFcn
  <1> QED
    BY <1>2, <1>3

\* What print_int() and print_unsigned() reverse are the digits.
LEMMA ReversedLow ==
    ASSUME NEW base \in {10, 16}, NEW n \in Nat, n < Pow2[LongBits]
    PROVE  /\ n # 0 => Reverse(LowFirst(n, base)) = DigitsOf(n, base)
           /\ n = 0 => DigitsOf(n, base) = <<"0">>
           /\ \E m : Digits(DigitsOf(n, base), n, base, Powers(base), m)
  <1>1. PICK p : p = Powers(base)
    OBVIOUS
  <1>2. ArePowers(p, base)
    BY <1>1, PowersAre
  <1>3. PICK s : s = LowFirst(n, base)
    OBVIOUS
  <1>4. PICK m \in Nat : Lows(s, n, base, p, m)
    BY <1>2, <1>3, LowFirstIs
  <1>5. /\ Sequence(s) /\ Len(s) = m /\ n < p[m] /\ (m = 0 \/ p[m - 1] <= n)
        /\ \A k \in 1 .. m : s[k] = digit((n \div p[k - 1]) % base)
    BY <1>4 DEF Lows
  <1>6. PICK D : D = DigitsOf(n, base)
    OBVIOUS
  <1>7. CASE n # 0
    <2>1. Length(n, p, m)
      BY <1>2, <1>5, <1>7, LengthIs
    <2>2. Digits(D, n, base, p, m)
      BY <1>1, <1>6, <2>1, DigitsOfIs
    <2>3. Sequence(D) /\ Len(D) = m /\ \A k \in 1 .. m : D[k] = digit((n \div p[m - k]) % base)
      BY <2>2 DEF Digits
    <2>4. PICK u : u = Reverse(s)
      OBVIOUS
    <2>5. Sequence(u) /\ Len(u) = m /\ \A k \in 1 .. m : u[k] = s[m - k + 1]
      <3>1. Sequence(u) /\ Len(u) = Len(s) /\ \A k \in 1 .. Len(s) : u[k] = s[Len(s) - k + 1]
        BY <1>5, <2>4, ReverseAt
      <3> QED  BY <1>5, <3>1
    <2>6. ASSUME NEW k \in 1 .. m PROVE u[k] = D[k]
      <3>1. PICK j \in 1 .. m : j = m - k + 1
        OBVIOUS
      <3>2. j - 1 = m - k
        BY <3>1
      <3>3. s[j] = digit((n \div p[j - 1]) % base)
        BY <1>5
      <3> QED  BY <2>3, <2>5, <3>1, <3>2, <3>3
    <2>7. u = D
      BY <2>3, <2>5, <2>6, SequenceEqual
    <2> QED  BY <1>1, <1>3, <1>6, <1>7, <2>2, <2>4, <2>7
  <1>8. CASE n = 0
    <2>1. Length(n, p, 1)
      BY <1>2, <1>8, LengthIs
    <2>2. Digits(D, n, base, p, 1)
      BY <1>1, <1>6, <2>1, DigitsOfIs
    <2>3. Sequence(D) /\ Len(D) = 1 /\ D[1] = digit((n \div p[1 - 1]) % base)
      BY <2>2 DEF Digits
    <2>4. (n \div p[1 - 1]) % base = 0
      <3>1. p[1 - 1] = 1
        BY <1>2 DEF ArePowers
      <3>2. n \div 1 = 0 /\ 0 % base = 0
        BY <1>8
      <3> QED  BY <3>1, <3>2
    <2>5. D[1] = "0"
      BY <2>3, <2>4 DEF digit, digits
    <2>6. PICK z : z = <<"0">>
      OBVIOUS
    <2>7. Sequence(z) /\ Len(z) = 1 /\ z[1] = "0"
      BY <2>6, SequenceOne
    <2>8. D = z
      BY <2>3, <2>5, <2>7, SequenceEqual
    <2> QED  BY <1>1, <1>6, <1>8, <2>2, <2>6, <2>8
  <1> QED
    BY <1>7, <1>8

\* The width of a directive is a number with digits.
LEMMA WidthBound ==
    ASSUME NEW w \in 0 .. INT_MAX
    PROVE  /\ w \in Nat /\ w < Pow2[IntBits - 1] /\ w < Pow2[LongBits]
           /\ Sequence(DigitsOf(w, 10))
  <1>1. IntBits - 1 \in Nat /\ LongBits \in Nat /\ IntBits - 1 <= LongBits
    BY PrintfAssumption
  <1>2. PICK h \in Nat \ {0} : h = Pow2[IntBits - 1]
    BY <1>1, Pow2Positive
  <1>3. PICK L \in Nat \ {0} : L = Pow2[LongBits]
    BY <1>1, Pow2Positive
  <1>4. h <= L
    BY <1>1, <1>2, <1>3, Pow2Grow
  <1>5. w \in Nat /\ w < h
    BY <1>2 DEF INT_MAX
  <1>6. w < L
    BY <1>4, <1>5
  <1>7. PICK base \in {10, 16} : base = 10
    OBVIOUS
  <1>8. PICK m : Digits(DigitsOf(w, base), w, base, Powers(base), m)
    BY <1>3, <1>5, <1>6, ReversedLow
  <1> QED
    BY <1>2, <1>3, <1>5, <1>6, <1>7, <1>8 DEF Digits

-----------------------------------------------------------------------------
(* Printf: the numbers of a format. *)

\* The loop that reads digits: D is where they are, v what they stand for.
Accumulates(f, D, v) ==
    f = [s \in Nat \X Nat |-> IF s[1] \in D THEN f[<<s[1] + 1, s[2] * 10 + v[s[1]]>>] ELSE s[2]]

\* It ends if there are no digits beyond l ...
LEMMA AccumulatesExists ==
    ASSUME NEW l \in Nat, NEW D, \A k \in Nat : k \in D => k <= l, NEW v \in [Nat -> Nat]
    PROVE  \E f : Accumulates(f, D, v)
  <1> DEFINE S == [Nat -> Nat]
             w(k) == IF k \in Nat THEN v[k] ELSE 0
             G == [x \in Nat \X S |->
                     [n \in Nat |-> IF l - x[1] \in D THEN x[2][n * 10 + w(l - x[1])] ELSE n]]
             a == [n \in Nat |-> n]
  <1>1. \A k : w(k) \in Nat
    OBVIOUS
  <1> HIDE DEF w
  <1>2. G \in [Nat \X S -> S]
    <2>1. ASSUME NEW x \in Nat \X S
          PROVE  [n \in Nat |-> IF l - x[1] \in D THEN x[2][n * 10 + w(l - x[1])] ELSE n] \in S
      <3>1. PICK g, k : g = x[2] /\ k = w(l - x[1]) /\ g \in S /\ k \in Nat
        BY <1>1
      <3>2. \A n \in Nat : g[n * 10 + k] \in Nat
        BY <3>1
      <3> QED  BY <3>1, <3>2
    <2> HIDE DEF S
    <2> QED  BY <2>1
  <1>3. a \in S
    OBVIOUS
  <1>4. PICK h : Recurses(h, S, a, G)
    <2> HIDE DEF S, G, a
    <2> QED  BY <1>2, <1>3, Recursion
  <1>5. \A n \in Nat : h[0][n] = n
    BY <1>4 DEF Recurses
  <1>6. ASSUME NEW k \in 0 .. l, NEW n \in Nat
        PROVE  h[l + 1 - k][n] = IF k \in D THEN h[l - k][n * 10 + v[k]] ELSE n
    <2>1. PICK j \in Nat : j = l - k /\ l + 1 - k = j + 1 /\ l - j = k
      OBVIOUS
    <2>2. h[j + 1] = G[<<j, h[j]>>] /\ h[j] \in S
      <3> HIDE DEF S, G, a
      <3> QED  BY <1>4 DEF Recurses
    <2>3. <<j, h[j]>> \in Nat \X S
      <3> HIDE DEF S
      <3> QED  BY <2>2
    <2>4. G[<<j, h[j]>>] = [m \in Nat |-> IF l - j \in D THEN h[j][m * 10 + w(l - j)] ELSE m]
      <3> HIDE DEF S
      <3> QED  BY <2>3
    <2>5. w(k) = v[k]
      BY DEF w
    <2> HIDE DEF S, G, a
    <2>6. h[j + 1][n] = IF k \in D THEN h[j][n * 10 + v[k]] ELSE n
      BY <2>1, <2>2, <2>4, <2>5
    <2> QED  BY <2>1, <2>6
  <1> HIDE DEF S, G, a
  <1> DEFINE f == [s \in Nat \X Nat |-> IF s[1] > l THEN s[2] ELSE h[l + 1 - s[1]][s[2]]]
  <1>7. ASSUME NEW s \in Nat \X Nat
        PROVE  f[s] = IF s[1] \in D THEN f[<<s[1] + 1, s[2] * 10 + v[s[1]]>>] ELSE s[2]
    <2>1. PICK k \in Nat, n \in Nat : s = <<k, n>>
      OBVIOUS
    <2>2. PICK m \in Nat : m = n * 10 + v[k]
      OBVIOUS
    <2>3. f[<<k, n>>] = IF k > l THEN n ELSE h[l + 1 - k][n]
      OBVIOUS
    <2>4. f[<<k + 1, m>>] = IF k + 1 > l THEN m ELSE h[l + 1 - (k + 1)][m]
      <3>1. PICK x \in Nat : x = k + 1
        OBVIOUS
      <3>2. f[<<x, m>>] = IF x > l THEN m ELSE h[l + 1 - x][m]
        OBVIOUS
      <3> HIDE DEF f
      <3> QED  BY <3>1, <3>2
    <2> HIDE DEF f
    <2>5. CASE k > l
      <3>1. k \notin D
        BY <2>5
      <3> QED  BY <2>1, <2>3, <2>5, <3>1
    <2>6. CASE ~(k > l)
      <3>1. k \in 0 .. l /\ l + 1 - (k + 1) = l - k
        BY <2>6
      <3>2. h[l + 1 - k][n] = IF k \in D THEN h[l - k][m] ELSE n
        BY <1>6, <2>2, <3>1
      <3>3. f[<<k + 1, m>>] = h[l - k][m]
        <4>1. CASE k = l
          <5>1. l - k = 0 /\ k + 1 > l
            BY <4>1
          <5> QED  BY <1>5, <2>4, <5>1
        <4>2. CASE k # l
          <5>1. ~(k + 1 > l)
            BY <3>1, <4>2
          <5> QED  BY <2>4, <3>1, <5>1
        <4> QED  BY <4>1, <4>2
      <3>4. f[<<k, n>>] = IF k \in D THEN f[<<k + 1, m>>] ELSE n
        BY <2>3, <2>6, <3>2, <3>3
      <3> QED  BY <2>1, <2>2, <3>4
    <2> QED  BY <2>5, <2>6
  <1>8. f = [s \in Nat \X Nat |-> f[s]]
    OBVIOUS
  <1> HIDE DEF f
  <1>9. Accumulates(f, D, v)
    BY <1>7, <1>8, Zenon DEF Accumulates
  <1> QED
    BY <1>9

\* ... and leaves a number.
LEMMA AccumulatesNat ==
    ASSUME NEW l \in Nat, NEW D, \A k \in Nat : k \in D => k <= l, NEW v \in [Nat -> Nat],
           NEW f, Accumulates(f, D, v), NEW k \in Nat, NEW n \in Nat
    PROVE  f[<<k, n>>] \in Nat
  <1> DEFINE T == {j \in Nat : \A i0 \in Nat, m \in Nat : l + 1 <= i0 + j => f[<<i0, m>>] \in Nat}
  <1>1. ASSUME NEW i0 \in Nat, NEW m \in Nat
        PROVE  f[<<i0, m>>] = IF i0 \in D THEN f[<<i0 + 1, m * 10 + v[i0]>>] ELSE m
    <2>1. <<i0, m>> \in Nat \X Nat
      OBVIOUS
    <2> QED  BY <2>1 DEF Accumulates
  <1>2. 0 \in T
    <2>1. ASSUME NEW i0 \in Nat, NEW m \in Nat, l + 1 <= i0 + 0 PROVE f[<<i0, m>>] \in Nat
      <3>1. i0 \notin D
        BY <2>1
      <3> QED  BY <1>1, <3>1
    <2> QED  BY <2>1
  <1>3. ASSUME NEW j \in Nat, j \in T PROVE j + 1 \in T
    <2>1. ASSUME NEW i0 \in Nat, NEW m \in Nat, l + 1 <= i0 + (j + 1) PROVE f[<<i0, m>>] \in Nat
      <3>1. PICK x \in Nat, y \in Nat : x = i0 + 1 /\ y = m * 10 + v[i0]
        OBVIOUS
      <3>2. f[<<x, y>>] \in Nat
        <4>1. l + 1 <= x + j
          BY <2>1, <3>1
        <4> QED  BY <1>3, <4>1
      <3>3. f[<<i0, m>>] = IF i0 \in D THEN f[<<x, y>>] ELSE m
        BY <1>1, <3>1
      <3> QED  BY <3>2, <3>3
    <2>2. j + 1 \in Nat
      OBVIOUS
    <2> QED  BY <2>1, <2>2
  <1> HIDE DEF T
  <1>4. Nat \subseteq T
    BY <1>2, <1>3, SetInduction
  <1>5. l + 1 \in T /\ l + 1 <= k + (l + 1)
    BY <1>4
  <1> QED
    BY <1>5 DEF T

\* A digit is no NUL and stands for a number.
LEMMA DigitsAre ==
    /\ NulChar \notin DecDigit
    /\ \A c \in DecDigit : DigitValue[c] \in Nat
  <1>1. \A n \in 0 .. 9 : digit(n) # NulChar
    BY DEF digit, digits, NulChar
  <1>2. NulChar \notin DecDigit
    BY <1>1 DEF DecDigit
  <1>3. ASSUME NEW c \in DecDigit PROVE DigitValue[c] \in Nat
    <2> DEFINE m == CHOOSE n \in 0 .. 9 : digit(n) = c
    <2>1. \E n \in 0 .. 9 : digit(n) = c
      BY DEF DecDigit
    <2>2. m \in 0 .. 9
      BY <2>1, Zenon
    <2>3. DigitValue[c] = m
      BY DEF DigitValue
    <2> HIDE DEF m
    <2> QED  BY <2>2, <2>3
  <1> QED
    BY <1>2, <1>3

\* The characters of a string and the NUL behind them.
CharAt(t, k) == IF k <= Len(t) THEN t[k] ELSE NulChar

Blank == {" ", "\t"}

StartEq(f, t) == f = [k \in Nat |-> IF CharAt(t, k) \in Blank THEN f[k + 1] ELSE k]

AccEq(f, t) ==
    f = [s \in Nat \X Nat |->
           IF CharAt(t, s[1]) \in DecDigit
           THEN f[<<s[1] + 1, s[2] * 10 + DigitValue[CharAt(t, s[1])]>>]
           ELSE s[2]]

\* Where a string has no blank, where it has a digit and which.
Itself == [k \in Nat |-> k]
NotBlank(t) == {k \in Nat : CharAt(t, k) \notin Blank}
DigitAt(t) == {k \in Nat : CharAt(t, k) \in DecDigit}
ValueAt(t) == [k \in Nat |-> IF CharAt(t, k) \in DecDigit THEN DigitValue[CharAt(t, k)] ELSE 0]

\* The loops of atol(): one over the blanks, one over the digits.
AtolBy(t, start, acc) ==
    /\ Searches(start, Nat, NotBlank(t), Itself) /\ Accumulates(acc, DigitAt(t), ValueAt(t))
    /\ atol(t) = (IF CharAt(t, start[1]) = "-" THEN -1 ELSE 1)
                   * acc[<<IF CharAt(t, start[1]) \in {"-", "+"} THEN start[1] + 1 ELSE start[1], 0>>]

\* Beyond the end of a string there are neither blanks nor digits.
LEMMA BeyondEnd ==
    ASSUME NEW t, Sequence(t)
    PROVE  /\ ValueAt(t) \in [Nat -> Nat] /\ Len(t) + 1 \in NotBlank(t)
           /\ \A k \in Nat : k \in DigitAt(t) => k <= Len(t)
  <1>1. PICK l \in Nat : l = Len(t)
    BY SequenceLen
  <1>2. \A k \in Nat : k > l => CharAt(t, k) = NulChar
    BY <1>1 DEF CharAt
  <1>3. NulChar \notin Blank
    BY DEF NulChar, Blank
  <1>4. l + 1 \in NotBlank(t)
    BY <1>2, <1>3 DEF NotBlank
  <1>5. ValueAt(t) \in [Nat -> Nat]
    BY DigitsAre DEF ValueAt
  <1>6. \A k \in Nat : k \in DigitAt(t) => k <= l
    BY <1>2, DigitsAre DEF DigitAt
  <1> QED
    BY <1>1, <1>4, <1>5, <1>6

\* Both loops end, whatever the string.
LEMMA AtolLoops ==
    ASSUME NEW t, Sequence(t)
    PROVE  \E start, acc : AtolBy(t, start, acc)
  <1> DEFINE start == CHOOSE f : StartEq(f, t)
             acc   == CHOOSE f : AccEq(f, t)
             sign  == start[1]
             first == IF CharAt(t, sign) \in {"-", "+"} THEN sign + 1 ELSE sign
  <1>1. atol(t) = (IF CharAt(t, sign) = "-" THEN -1 ELSE 1) * acc[<<first, 0>>]
    BY Zenon DEF atol, CharAt, StartEq, AccEq, Blank
  <1>2. Searches(start, Nat, NotBlank(t), Itself)
    <2>1. ASSUME NEW f PROVE StartEq(f, t) <=> Searches(f, Nat, NotBlank(t), Itself)
      <3>1. \A k \in Nat : (IF CharAt(t, k) \in Blank THEN f[k + 1] ELSE k)
                             = (IF k \in NotBlank(t) THEN Itself[k] ELSE f[k + 1])
        BY DEF NotBlank, Itself
      <3>2. [k \in Nat |-> IF CharAt(t, k) \in Blank THEN f[k + 1] ELSE k]
              = [k \in Nat |-> IF k \in NotBlank(t) THEN Itself[k] ELSE f[k + 1]]
        BY <3>1
      <3> QED  BY <3>2 DEF StartEq, Searches
    <2>2. \E f : Searches(f, Nat, NotBlank(t), Itself)
      <3>1. \A k \in Nat : k \notin NotBlank(t) => k + 1 \in Nat
        OBVIOUS
      <3> QED  BY <3>1, SearchExists
    <2> QED  BY <2>1, <2>2, Zenon
  <1>3. Accumulates(acc, DigitAt(t), ValueAt(t))
    <2>1. ASSUME NEW f PROVE AccEq(f, t) <=> Accumulates(f, DigitAt(t), ValueAt(t))
      <3>1. ASSUME NEW s \in Nat \X Nat
            PROVE  (IF CharAt(t, s[1]) \in DecDigit
                    THEN f[<<s[1] + 1, s[2] * 10 + DigitValue[CharAt(t, s[1])]>>]
                    ELSE s[2])
                     = (IF s[1] \in DigitAt(t) THEN f[<<s[1] + 1, s[2] * 10 + ValueAt(t)[s[1]]>>]
                        ELSE s[2])
        <4>1. PICK k \in Nat : k = s[1]
          OBVIOUS
        <4>2. k \in DigitAt(t) <=> CharAt(t, k) \in DecDigit
          BY DEF DigitAt
        <4>3. CharAt(t, k) \in DecDigit => ValueAt(t)[k] = DigitValue[CharAt(t, k)]
          BY DEF ValueAt
        <4> QED  BY <4>1, <4>2, <4>3, Zenon
      <3> QED  BY <3>1, Zenon DEF AccEq, Accumulates
    <2>2. \E f : Accumulates(f, DigitAt(t), ValueAt(t))
      <3>1. PICK l \in Nat : l = Len(t)
        BY SequenceLen
      <3>2. \A k \in Nat : k \in DigitAt(t) => k <= l
        BY <3>1, BeyondEnd
      <3>3. ValueAt(t) \in [Nat -> Nat]
        BY BeyondEnd
      <3> QED  BY <3>2, <3>3, AccumulatesExists
    <2> QED  BY <2>1, <2>2, Zenon
  <1>4. AtolBy(t, start, acc)
    BY <1>1, <1>2, <1>3, Zenon DEF AtolBy
  <1> QED
    BY <1>4, Zenon

\* atol() gives a number for any string.
LEMMA AtolInt ==
    ASSUME NEW t, Sequence(t)
    PROVE  atol(t) \in Int
  <1>1. PICK start, acc : AtolBy(t, start, acc)
    BY AtolLoops
  <1>2. PICK sign : sign = start[1]
    OBVIOUS
  <1>3. PICK first : first = IF CharAt(t, sign) \in {"-", "+"} THEN sign + 1 ELSE sign
    OBVIOUS
  <1>4. atol(t) = (IF CharAt(t, sign) = "-" THEN -1 ELSE 1) * acc[<<first, 0>>]
    BY <1>1, <1>2, <1>3, Zenon DEF AtolBy
  <1>5. PICK l \in Nat : l = Len(t)
    BY SequenceLen
  <1>6. sign \in Nat
    <2>1. PICK e \in Nat : e = l + 1
      OBVIOUS
    <2>2. e \in NotBlank(t) /\ 1 \in Nat /\ e >= 1
      BY <1>5, <2>1, BeyondEnd
    <2>3. PICK dom : dom = Nat
      OBVIOUS
    <2>4. \A k \in 1 .. e : k \in dom
      BY <2>3
    <2>5. Searches(start, dom, NotBlank(t), Itself)
      BY <1>1, <2>3 DEF AtolBy
    <2>6. PICK j \in 1 .. e : start[1] = Itself[j]
      BY <2>2, <2>4, <2>5, SearchEnds
    <2> QED  BY <1>2, <2>6 DEF Itself
  <1>7. first \in Nat
    BY <1>3, <1>6
  <1>8. acc[<<first, 0>>] \in Nat
    <2>1. \A k \in Nat : k \in DigitAt(t) => k <= l
      BY <1>5, BeyondEnd
    <2>2. ValueAt(t) \in [Nat -> Nat] /\ Accumulates(acc, DigitAt(t), ValueAt(t)) /\ 0 \in Nat
      BY <1>1, BeyondEnd DEF AtolBy
    <2> QED  BY <1>7, <2>1, <2>2, AccumulatesNat
  <1> QED
    BY <1>4, <1>8

NumberEq(f, t) == f = [k \in Nat |-> IF k < Len(t) /\ t[k + 1] \in DecDigit THEN f[k + 1] ELSE k]

\* Where a number that has begun ends, and where it begins behind its sign.
NoDigit(t) == {k \in Nat : ~(k < Len(t) /\ t[k + 1] \in DecDigit)}
SignLen(t) == IF t # <<>> /\ t[1] = "-" THEN 1 ELSE 0

\* The loop of fmtnum().
NumberBy(t, len) == Searches(len, Nat, NoDigit(t), Itself) /\ NumberLen(t) = len[SignLen(t)]

\* It ends too.
LEMMA NumberLoop ==
    ASSUME NEW t
    PROVE  \E len : NumberBy(t, len)
  <1> DEFINE len == CHOOSE f : NumberEq(f, t)
  <1>1. NumberLen(t) = len[SignLen(t)]
    BY Zenon DEF NumberLen, NumberEq, SignLen
  <1>2. ASSUME NEW f PROVE NumberEq(f, t) <=> Searches(f, Nat, NoDigit(t), Itself)
    <2>1. \A k \in Nat : (IF k < Len(t) /\ t[k + 1] \in DecDigit THEN f[k + 1] ELSE k)
                           = (IF k \in NoDigit(t) THEN Itself[k] ELSE f[k + 1])
      BY DEF NoDigit, Itself
    <2>2. [k \in Nat |-> IF k < Len(t) /\ t[k + 1] \in DecDigit THEN f[k + 1] ELSE k]
            = [k \in Nat |-> IF k \in NoDigit(t) THEN Itself[k] ELSE f[k + 1]]
      BY <2>1
    <2> QED  BY <2>2 DEF NumberEq, Searches
  <1>3. \E f : Searches(f, Nat, NoDigit(t), Itself)
    <2>1. \A k \in Nat : k \notin NoDigit(t) => k + 1 \in Nat
      OBVIOUS
    <2> QED  BY <2>1, SearchExists
  <1>4. Searches(len, Nat, NoDigit(t), Itself)
    BY <1>2, <1>3, Zenon
  <1> QED
    BY <1>1, <1>4, Zenon DEF NumberBy

\* The number at the start of a format has a length.
LEMMA NumberLenNat ==
    ASSUME NEW t, Sequence(t)
    PROVE  NumberLen(t) \in Nat
  <1>1. PICK len : NumberBy(t, len)
    BY NumberLoop
  <1>2. PICK sign \in Nat : sign = SignLen(t) /\ sign <= 1
    BY DEF SignLen
  <1>3. PICK e \in Nat : e = Len(t) + 1
    BY SequenceLen
  <1>4. e \in NoDigit(t)
    <2>1. ~(e < Len(t))
      BY <1>3, SequenceLen
    <2> QED  BY <2>1 DEF NoDigit
  <1>5. PICK dom : dom = Nat
    OBVIOUS
  <1>6. e >= sign /\ \A k \in sign .. e : k \in dom
    BY <1>2, <1>3, <1>5, SequenceLen
  <1>7. Searches(len, dom, NoDigit(t), Itself)
    BY <1>1, <1>5 DEF NumberBy
  <1>8. PICK j \in sign .. e : len[sign] = Itself[j]
    BY <1>4, <1>6, <1>7, SearchEnds
  <1> QED
    BY <1>1, <1>2, <1>8 DEF NumberBy, Itself

FlatEq(f, ss) ==
    f = [k \in 1 .. Len(ss) |-> IF k = 1 THEN ss[k] ELSE f[k - 1] \o ss[k]]

\* The sequences of a sequence, one behind the other, are a sequence.
LEMMA FlattenType ==
    ASSUME NEW U, NEW ss \in Seq(Seq(U))
    PROVE  FlattenSeq(ss) \in Seq(U)
  <1> DEFINE S == Seq(U)
             f == CHOOSE g : FlatEq(g, ss)
  <1>1. PICK n \in Nat : n = Len(ss)
    OBVIOUS
  <1>2. CASE n = 0
    <2>1. FlattenSeq(ss) = ss
      BY <1>1, <1>2, Zenon DEF FlattenSeq
    <2>2. ss = <<>>
      BY <1>1, <1>2, EmptySeq
    <2>3. <<>> \in Seq(U)
      OBVIOUS
    <2> QED  BY <2>1, <2>2, <2>3
  <1>3. CASE n # 0
    <2> DEFINE part(k) == IF k + 2 <= n THEN ss[k + 2] ELSE <<>>
               G == [x \in Nat \X S |-> x[2] \o part(x[1])]
    <2>1. FlattenSeq(ss) = f[n]
      BY <1>1, <1>3, Zenon DEF FlattenSeq, FlatEq
    <2>2. \A k \in 1 .. n : ss[k] \in S
      BY <1>1
    <2>3. \A k \in Nat : part(k) \in S
      BY <2>2
    <2> HIDE DEF part
    <2>4. PICK h : Recurses(h, S, ss[1], G)
      <3>1. G \in [Nat \X S -> S]
        <4>1. \A x \in Nat \X S : x[2] \o part(x[1]) \in S
          BY <2>3
        <4> HIDE DEF S
        <4> QED  BY <4>1
      <3>2. ss[1] \in S
        BY <1>3, <2>2
      <3> HIDE DEF S, G
      <3> QED  BY <3>1, <3>2, Recursion
    <2>5. h \in [Nat -> S] /\ h[0] = ss[1]
      BY <2>4 DEF Recurses
    <2>6. ASSUME NEW k \in Nat, k + 2 <= n PROVE h[k + 1] = h[k] \o ss[k + 2]
      <3>1. h[k + 1] = G[<<k, h[k]>>] /\ <<k, h[k]>> \in Nat \X S
        <4> HIDE DEF S, G
        <4> QED  BY <2>4, <2>5 DEF Recurses
      <3>2. h[k + 1] = h[k] \o part(k)
        <4> HIDE DEF S
        <4> QED  BY <3>1
      <3> QED  BY <3>2, <2>6 DEF part
    <2> DEFINE g == [k \in 1 .. n |-> h[k - 1]]
    <2>7. FlatEq(g, ss)
      <3>1. ASSUME NEW k \in 1 .. n PROVE g[k] = IF k = 1 THEN ss[k] ELSE g[k - 1] \o ss[k]
        <4>1. CASE k = 1
          BY <4>1, <2>5
        <4>2. CASE k # 1
          <5>1. PICK j \in Nat : k = j + 2
            <6>1. k - 2 \in Nat /\ k = (k - 2) + 2
              BY <4>2
            <6> QED  BY <6>1
          <5>2. j + 2 <= n /\ k - 1 = j + 1 /\ (j + 1) - 1 = j /\ k - 1 \in 1 .. n
            BY <5>1
          <5>3. g[k] = h[j + 1] /\ g[k - 1] = h[j]
            BY <5>2
          <5>4. h[j + 1] = h[j] \o ss[j + 2]
            BY <2>6, <5>2
          <5> HIDE DEF g
          <5> QED  BY <4>2, <5>1, <5>3, <5>4
        <4> QED  BY <4>1, <4>2
      <3>2. g = [k \in 1 .. n |-> g[k]]
        OBVIOUS
      <3> HIDE DEF g
      <3>3. g = [k \in 1 .. n |-> IF k = 1 THEN ss[k] ELSE g[k - 1] \o ss[k]]
        BY <3>1, <3>2
      <3> QED  BY <1>1, <3>3 DEF FlatEq
    <2>8. FlatEq(f, ss)
      BY <2>7, Zenon
    <2> HIDE DEF f
    <2>9. \A k \in 1 .. n : f[k] = IF k = 1 THEN ss[k] ELSE f[k - 1] \o ss[k]
      BY <1>1, <2>8 DEF FlatEq
    <2> DEFINE T == {k \in Nat : k + 1 <= n => f[k + 1] \in S}
    <2>10. 0 \in T
      BY <1>3, <2>2, <2>9
    <2>11. ASSUME NEW k \in Nat, k \in T PROVE k + 1 \in T
      <3>1. ASSUME (k + 1) + 1 <= n PROVE f[(k + 1) + 1] \in S
        <4>1. PICK j \in 1 .. n : j = k + 1 /\ j + 1 \in 1 .. n /\ j + 1 # 1 /\ (j + 1) - 1 = j
          BY <3>1
        <4>2. f[j] \in S /\ ss[j + 1] \in S
          BY <2>2, <2>11, <4>1
        <4>3. f[j + 1] = f[j] \o ss[j + 1]
          BY <2>9, <4>1
        <4> QED  BY <4>1, <4>2, <4>3
      <3> QED  BY <3>1
    <2> HIDE DEF T
    <2>12. Nat \subseteq T
      BY <2>10, <2>11, SetInduction
    <2>13. n - 1 \in Nat /\ (n - 1) + 1 = n
      BY <1>3
    <2>14. f[n] \in S
      <3>1. PICK m \in Nat : m \in T /\ m + 1 = n
        BY <2>12, <2>13
      <3>2. f[m + 1] \in S
        <4> HIDE DEF S
        <4> QED  BY <3>1 DEF T
      <3> QED  BY <3>1, <3>2
    <2> QED  BY <2>1, <2>14
  <1> QED
    BY <1>2, <1>3

\* ... whatever they hold.
LEMMA SequenceFlatten ==
    ASSUME NEW n \in Nat, NEW ss, ss = [k \in 1 .. n |-> ss[k]], \A k \in 1 .. n : Sequence(ss[k])
    PROVE  Sequence(FlattenSeq(ss))
  <1> DEFINE U == UNION {{ss[k][j] : j \in 1 .. Len(ss[k])} : k \in 1 .. n}
  <1>1. ASSUME NEW k \in 1 .. n PROVE ss[k] \in Seq(U)
    <2>1. PICK s : s = ss[k]
      OBVIOUS
    <2>2. PICK S : s \in Seq(S)
      BY <2>1 DEF Sequence
    <2>3. \A j \in 1 .. Len(s) : s[j] \in U
      BY <2>1
    <2> HIDE DEF U
    <2>4. s \in Seq(U)
      BY <2>2, <2>3
    <2> QED  BY <2>1, <2>4
  <1> HIDE DEF U
  <1>2. ss \in Seq(Seq(U))
    BY <1>1
  <1>3. FlattenSeq(ss) \in Seq(U)
    BY <1>2, FlattenType
  <1> QED
    BY <1>3 DEF Sequence

\* A format of directives is a sequence of characters.
LEMMA FormatSequence ==
    ASSUME NEW lead, Sequence(lead), NEW dirs \in Seq(Directives)
    PROVE  Sequence(FormatOf(lead, dirs))
  <1> DEFINE width(k) == IF dirs[k].width = 0 THEN <<>> ELSE DigitsOf(dirs[k].width, 10)
             conv(k)  == IF dirs[k].conv = End THEN <<>> ELSE <<dirs[k].conv>>
             part(k)  == lead \o <<"%">> \o dirs[k].flags \o width(k) \o dirs[k].mods \o conv(k)
             ss == [k \in 1 .. Len(dirs) |-> part(k)]
  <1>1. Len(dirs) \in Nat /\ DOMAIN dirs = 1 .. Len(dirs)
    OBVIOUS
  <1>2. FormatOf(lead, dirs) = FlattenSeq(ss)
    <2>1. FormatOf(lead, dirs) = FlattenSeq([k \in DOMAIN dirs |-> part(k)])
      BY Zenon DEF FormatOf
    <2> QED  BY <1>1, <2>1, Zenon
  <1>3. ASSUME NEW k \in 1 .. Len(dirs) PROVE Sequence(part(k))
    <2>1. Sequence(width(k)) /\ Sequence(conv(k))
      <3>0. dirs[k] \in Directives
        OBVIOUS
      <3>1. dirs[k].width \in 0 .. INT_MAX
        BY <3>0 DEF Directives
      <3>2. Sequence(DigitsOf(dirs[k].width, 10))
        BY <3>1, WidthBound
      <3> QED  BY <3>2, SequenceOne
    <2>2. Sequence(dirs[k].flags) /\ Sequence(dirs[k].mods)
      <3>1. dirs[k] \in Directives
        OBVIOUS
      <3>2. dirs[k].flags \in Seq(STRING) /\ dirs[k].mods \in Seq(STRING)
        BY <3>1 DEF Directives
      <3> QED  BY <3>2 DEF Sequence
    <2> HIDE DEF width, conv
    <2>3. Sequence(lead \o <<"%">>)
      BY SequenceOne, SequenceConcat
    <2>4. Sequence(lead \o <<"%">> \o dirs[k].flags)
      BY <2>2, <2>3, SequenceConcat
    <2>5. Sequence(lead \o <<"%">> \o dirs[k].flags \o width(k))
      BY <2>1, <2>4, SequenceConcat
    <2>6. Sequence(lead \o <<"%">> \o dirs[k].flags \o width(k) \o dirs[k].mods)
      BY <2>2, <2>5, SequenceConcat
    <2> QED  BY <2>1, <2>6, SequenceConcat
  <1> HIDE DEF part
  <1>4. ss = [k \in 1 .. Len(dirs) |-> ss[k]] /\ \A k \in 1 .. Len(dirs) : Sequence(ss[k])
    BY <1>3
  <1> HIDE DEF ss
  <1>5. Sequence(FlattenSeq(ss))
    BY <1>1, <1>4, SequenceFlatten
  <1> QED
    BY <1>2, <1>5

\* So are the bits of a number.
LEMMA BinstrSequence ==
    ASSUME NEW x \in Nat
    PROVE  Sequence(binstr(x))
  <1> DEFINE part(n) == <<digit((x \div Pow2[LongBits - n]) % 2)>>
                           \o (IF EndsGroup(n) /\ n # LongBits THEN <<"'">> ELSE <<>>)
             ss == [n \in 1 .. LongBits |-> part(n)]
  <1>1. LongBits \in Nat
    BY PrintfAssumption
  <1>2. binstr(x) = FlattenSeq(ss)
    BY Zenon DEF binstr
  <1>3. ASSUME NEW n \in 1 .. LongBits PROVE Sequence(part(n))
    <2>1. Sequence(IF EndsGroup(n) /\ n # LongBits THEN <<"'">> ELSE <<>>)
      BY SequenceOne
    <2>2. Sequence(<<digit((x \div Pow2[LongBits - n]) % 2)>>)
      BY SequenceOne, Zenon
    <2> QED  BY <2>1, <2>2, SequenceConcat
  <1> HIDE DEF part
  <1>4. ss = [n \in 1 .. LongBits |-> ss[n]] /\ \A n \in 1 .. LongBits : Sequence(ss[n])
    BY <1>3
  <1> HIDE DEF ss
  <1> QED
    BY <1>1, <1>2, <1>4, SequenceFlatten

-----------------------------------------------------------------------------
(* Printf: the invariant. *)

\* Arguments: a number or a string each.
IsArg(d) == d.int \in Nat /\ Sequence(d.str)
ArgList(as) == \E S : as \in Seq(S) /\ \A d \in S : IsArg(d)

PrintfInv ==
    /\ job \in Jobs
    /\ Sequence(fmt) /\ ArgList(args) /\ props \in PropsType
    /\ InBuffer(ps, job.size)

\* What a directive of a job carries is an argument va_arg() can deliver.
LEMMA DirectiveIsArg ==
    ASSUME NEW d \in Directives
    PROVE  IsArg(d)
  <1>1. d.int \in Nat /\ d.str \in Seq(STRING)
    BY DEF Directives
  <1> QED
    BY <1>1 DEF IsArg, Sequence

\* va_arg() takes the first argument and leaves the others.
LEMMA TakesArg ==
    ASSUME NEW as, ArgList(as), as # <<>>
    PROVE  IsArg(Head(as)) /\ ArgList(Tail(as))
  <1>1. PICK S : as \in Seq(S) /\ \A d \in S : IsArg(d)
    BY DEF ArgList
  <1>2. Head(as) \in S /\ Tail(as) \in Seq(S)
    BY <1>1, HeadTailProperties
  <1> QED
    BY <1>1, <1>2 DEF ArgList

\* The arguments of the directives that take one.
LEMMA ArgsList ==
    ASSUME NEW dirs \in Seq(Directives)
    PROVE  ArgList(ArgsOf(dirs))
  <1> DEFINE ss == [k \in DOMAIN dirs |-> IF Takes(dirs[k]) THEN <<dirs[k]>> ELSE <<>>]
  <1>1. Len(dirs) \in Nat /\ DOMAIN dirs = 1 .. Len(dirs)
    OBVIOUS
  <1>2. ASSUME NEW k \in DOMAIN dirs
        PROVE  (IF Takes(dirs[k]) THEN <<dirs[k]>> ELSE <<>>) \in Seq(Directives)
    <2>1. dirs[k] \in Directives
      OBVIOUS
    <2>2. <<dirs[k]>> \in Seq(Directives) /\ <<>> \in Seq(Directives)
      BY <2>1
    <2> QED  BY <2>2
  <1>3. ss \in Seq(Seq(Directives))
    BY <1>1, <1>2
  <1>4. ArgsOf(dirs) = FlattenSeq(ss)
    BY Zenon DEF ArgsOf
  <1> HIDE DEF ss
  <1>5. ArgsOf(dirs) \in Seq(Directives)
    BY <1>3, <1>4, FlattenType
  <1> QED
    BY <1>5, DirectiveIsArg DEF ArgList

\* No flags and no width.
LEMMA NoPropsType == NoProps \in PropsType
  <1>1. FALSE \in BOOLEAN /\ 0 \in Int /\ " " \in {" ", "0"}
    OBVIOUS
  <1> QED
    BY <1>1 DEF NoProps, PropsType

\* The call starts with an empty buffer.
LEMMA PrintfStarts == PrintfInit => PrintfInv
  <1> SUFFICES ASSUME PrintfInit
               PROVE  PrintfInv
    OBVIOUS
  <1>1. /\ job \in Jobs /\ job.size \in Nat \ {0} /\ job.lead \in Seq(STRING)
        /\ job.dirs \in Seq(Directives) /\ (job.fn = "print_binstr" => job.dirs # <<>>)
    <2>1. /\ job \in Jobs /\ job.size \in Nat \ {0} /\ job.lead \in Seq(STRING)
          /\ job.dirs \in Seq(Directives) /\ (job.fn = "print_binstr" => BinstrCall(job))
      BY PrintfAssumption, Zenon DEF PrintfInit
    <2>2. BinstrCall(job) => job.dirs # <<>>
      <3>1. \A d : <<d>> # <<>>
        OBVIOUS
      <3> QED  BY <3>1, Zenon DEF BinstrCall
    <2> QED  BY <2>1, <2>2
  <1>2. Sequence(fmt)
    <2>1. Sequence(job.lead)
      BY <1>1 DEF Sequence
    <2> QED  BY <1>1, <2>1, FormatSequence DEF PrintfInit
  <1>3. ArgList(args)
    <2>1. CASE job.fn = "print_binstr"
      <3>1. PICK d \in Directives : d = job.dirs[1]
        BY <1>1, <2>1
      <3>2. PICK b : b = binstr(d.int) /\ Sequence(b)
        <4>1. d.int \in Nat
          BY DEF Directives
        <4> QED  BY <4>1, BinstrSequence
      <3>3. PICK e : e = [d EXCEPT !.str = b]
        OBVIOUS
      <3>4. e.int \in Nat /\ e.str = b
        BY <3>3 DEF Directives
      <3>5. args = <<e>>
        BY <2>1, <3>1, <3>2, <3>3 DEF PrintfInit
      <3>6. PICK S : S = {e}
        OBVIOUS
      <3>7. <<e>> \in Seq(S) /\ \A x \in S : IsArg(x)
        BY <3>2, <3>4, <3>6 DEF IsArg
      <3>8. ArgList(<<e>>)
        BY <3>7 DEF ArgList
      <3> QED  BY <3>5, <3>8
    <2>2. CASE job.fn # "print_binstr"
      BY <1>1, <2>2, ArgsList DEF PrintfInit
    <2> QED  BY <2>1, <2>2
  <1>4. props \in PropsType
    BY NoPropsType DEF PrintfInit
  <1>5. InBuffer(ps, job.size)
    <2>1. ps.buffer = <<>> /\ ps.remain = job.size - 1 /\ ps.added = 0
      BY DEF PrintfInit
    <2>2. PICK n \in Nat \ {0} : n = job.size
      BY <1>1
    <2> QED  BY <2>1, <2>2, SequenceOne DEF InBuffer
  <1> QED
    BY <1>1, <1>2, <1>3, <1>4, <1>5 DEF PrintfInv

\* The number fmtnum() reads, an int.
IntRead(f) == Signed(atol(f), IntBits)

\* Reading a number gives props of their type and leaves a shorter format.
LEMMA FmtnumProps ==
    ASSUME NEW f, Sequence(f), NEW pr \in PropsType, NEW c
    PROVE  /\ [pr EXCEPT !.npad = IntRead(f), !.pad = IF c = "0" THEN "0" ELSE @] \in PropsType
           /\ Sequence(SubSeq(f, NumberLen(f) + 1, Len(f)))
  <1>1. PICK n : n = IntRead(f) /\ n \in Int
    <2>1. atol(f) \in Int /\ IntBits \in Nat \ {0}
      BY AtolInt, PrintfAssumption
    <2> QED  BY <2>1, ArgumentNumbers DEF IntRead
  <1>2. [pr EXCEPT !.npad = n, !.pad = IF c = "0" THEN "0" ELSE @] \in PropsType
    <2>1. PICK d \in {" ", "0"} : d = IF c = "0" THEN "0" ELSE pr.pad
      BY DEF PropsType
    <2>2. [pr EXCEPT !.npad = n, !.pad = d] \in PropsType
      BY <1>1 DEF PropsType
    <2> QED  BY <2>1, <2>2
  <1>3. PICK m : m = NumberLen(f) /\ m \in Nat
    BY NumberLenNat
  <1>4. PICK l : l = Len(f) /\ l \in Nat
    BY SequenceLen
  <1>5. m + 1 \in Int /\ l \in Int
    BY <1>3, <1>4
  <1>6. Sequence(SubSeq(f, m + 1, l))
    BY <1>5, SequencePart
  <1> QED
    BY <1>1, <1>2, <1>3, <1>4, <1>6

\* The alternate form, "#".
LEMMA AlternateProps ==
    ASSUME NEW pr \in PropsType
    PROVE  [pr EXCEPT !.alternate = TRUE] \in PropsType
  BY DEF PropsType

\* va_arg(): every width is positive.
LEMMA BitsPositive == Bits \in Nat \ {0}
  <1>1. IntBits \in Nat \ {0} /\ LongBits \in Nat \ {0}
    BY PrintfAssumption
  <1> QED
    BY <1>1 DEF Bits

\* A step that changes neither the call nor the buffer keeps the invariant if
\* it leaves a format and props; one that converts, if it leaves the buffer and
\* the arguments.
LEMMA PrintfSteps == PrintfInv /\ [PrintfStep \/ PrintfReturned]_printfVars => PrintfInv'
  <1> SUFFICES ASSUME PrintfInv, [PrintfStep \/ PrintfReturned]_printfVars
               PROVE  PrintfInv'
    OBVIOUS
  <1>1. PICK size \in Nat : size = job.size
    BY PrintfAssumption DEF PrintfInv
  <1>2. /\ job \in Jobs /\ Sequence(fmt) /\ ArgList(args) /\ props \in PropsType
        /\ InBuffer(ps, size) /\ props.npad \in Int
    <2>1. job \in Jobs /\ Sequence(fmt) /\ ArgList(args) /\ props \in PropsType /\ InBuffer(ps, size)
      BY <1>1, Zenon DEF PrintfInv
    <2>2. props.npad \in Int
      BY <2>1 DEF PropsType
    <2> QED  BY <2>1, <2>2
  <1>3. fmt # <<>> => Sequence(Tail(fmt))
    BY <1>2, SequenceTail
  <1>4. ASSUME job' = job, Sequence(fmt'), ArgList(args'), props' \in PropsType, InBuffer(ps', size)
        PROVE  PrintfInv'
    BY <1>1, <1>2, <1>4, Zenon DEF PrintfInv
  <1>5. ASSUME NEW c, Sequence(<<c>>) PROVE InBuffer(addchar(ps, c), size)
    BY <1>2, <1>5, AddsInBuffer, Zenon DEF addchar
  <1>6. \A c : InBuffer(addchar(ps, c), size)
    BY <1>5, SequenceOne, Zenon
  <1>7. ASSUME Arg
        PROVE  ArgList(args') /\ Head(args).int \in Nat /\ Sequence(Head(args).str)
    <2>1. args # <<>> /\ args' = Tail(args)
      BY <1>7 DEF Arg
    <2>2. IsArg(Head(args)) /\ ArgList(Tail(args))
      BY <1>2, <2>1, TakesArg
    <2> QED  BY <2>1, <2>2 DEF IsArg
  <1>8. ASSUME NEW c, Converts(c)
        PROVE  job' = job /\ Sequence(fmt') /\ props' \in PropsType
    <2>1. fmt # <<>> /\ fmt' = Tail(fmt) /\ job' = job /\ props' = props
      BY <1>8 DEF Converts
    <2> QED  BY <1>2, <1>3, <2>1
  <1>9. ASSUME NEW c, ReadsOn(c)
        PROVE  fmt # <<>> /\ job' = job /\ ArgList(args') /\ InBuffer(ps', size)
    <2>1. fmt # <<>> /\ args' = args /\ job' = job /\ ps' = ps
      BY <1>9 DEF ReadsOn
    <2> QED  BY <1>2, <2>1
  <1>10. CASE Literal
    <2>1. fmt # <<>> /\ ps' = addchar(ps, Head(fmt)) /\ fmt' = Tail(fmt)
          /\ job' = job /\ args' = args /\ props' = props
      BY <1>10 DEF Literal
    <2>2. InBuffer(ps', size)
      BY <1>6, <2>1
    <2> QED  BY <1>2, <1>3, <1>4, <2>1, <2>2
  <1>11. CASE Percent
    <2>1. fmt # <<>> /\ ps' = ps /\ fmt' = Tail(fmt)
          /\ job' = job /\ args' = args /\ props' = NoProps
      BY <1>11 DEF Percent
    <2> QED  BY <1>2, <1>3, <1>4, <2>1, NoPropsType
  <1>12. CASE FlagHash
    <2>1. ReadsOn({"#"}) /\ props' = [props EXCEPT !.alternate = TRUE] /\ fmt' = Tail(fmt)
      BY <1>12 DEF FlagHash
    <2>2. props' \in PropsType
      BY <1>2, <2>1, AlternateProps
    <2>3. fmt # <<>> /\ job' = job /\ ArgList(args') /\ InBuffer(ps', size)
      BY <1>9, <2>1
    <2> QED  BY <1>3, <1>4, <2>1, <2>2, <2>3
  <1>13. ASSUME NEW f, Sequence(f), fmtnum(f)
         PROVE  props' \in PropsType /\ Sequence(fmt')
    BY <1>2, <1>13, FmtnumProps, Zenon DEF fmtnum, IntRead
  <1>14. CASE FlagZero
    <2>1. fmt # <<>> /\ job' = job /\ ArgList(args') /\ InBuffer(ps', size)
      BY <1>9, <1>14 DEF FlagZero
    <2>2. props' \in PropsType /\ Sequence(fmt')
      BY <1>3, <1>13, <1>14, <2>1 DEF FlagZero
    <2> QED  BY <1>4, <2>1, <2>2
  <1>15. CASE FlagNumber
    <2>1. fmt # <<>> /\ job' = job /\ ArgList(args') /\ InBuffer(ps', size)
      BY <1>9, <1>15, Zenon DEF FlagNumber
    <2>2. props' \in PropsType /\ Sequence(fmt')
      BY <1>2, <1>13, <1>15 DEF FlagNumber
    <2> QED  BY <1>4, <2>1, <2>2
  <1>16. CASE ModLong
    <2>1. ReadsOn({"l"}) /\ props' = props /\ fmt' = Tail(fmt)
      BY <1>16 DEF ModLong
    <2>2. fmt # <<>> /\ job' = job /\ ArgList(args') /\ InBuffer(ps', size)
      BY <1>9, <2>1
    <2> QED  BY <1>2, <1>3, <1>4, <2>1, <2>2
  <1>17. CASE ModSize
    <2>1. ReadsOn({"t", "z"}) /\ props' = props /\ fmt' = Tail(fmt)
      BY <1>17 DEF ModSize
    <2>2. fmt # <<>> /\ job' = job /\ ArgList(args') /\ InBuffer(ps', size)
      BY <1>9, <2>1
    <2> QED  BY <1>2, <1>3, <1>4, <2>1, <2>2
  <1>18. CASE ConvInt
    <2>1. Converts({"d"}) /\ Arg
      BY <1>18 DEF ConvInt
    <2>2. PICK junk : ps' = print_int(ps, Signed(Head(args).int, Bits), props, junk)
      BY <1>18 DEF ConvInt
    <2>3. PICK n : n = Signed(Head(args).int, Bits) /\ n \in Int
      <3>1. Head(args).int \in Int
        BY <1>7, <2>1
      <3> QED  BY <3>1, BitsPositive, ArgumentNumbers
    <2>4. InBuffer(print_int(ps, n, props, junk), size)
      BY <1>2, <2>3, PrintIntInBuffer
    <2>5. InBuffer(ps', size)
      BY <2>2, <2>3, <2>4
    <2> QED  BY <1>4, <1>7, <1>8, <2>1, <2>5
  <1>19. CASE ConvUnsigned
    <2>1. Converts({"u", "x"}) /\ Arg
      BY <1>19 DEF ConvUnsigned
    <2>2. PICK base \in {10, 16} : base = IF Head(fmt) = "x" THEN 16 ELSE 10
      OBVIOUS
    <2>3. PICK n : n = Unsigned(Head(args).int, Bits) /\ n \in Nat
      BY <1>7, <2>1, BitsPositive, ArgumentNumbers
    <2>4. InBuffer(print_unsigned(ps, n, base, props), size)
      BY <1>2, <2>3, PrintUnsignedInBuffer
    <2>5. ps' = print_unsigned(ps, n, base, props)
      BY <1>19, <2>2, <2>3, Zenon DEF ConvUnsigned
    <2>6. InBuffer(ps', size)
      BY <2>4, <2>5
    <2> QED  BY <1>4, <1>7, <1>8, <2>1, <2>6
  <1>20. CASE ConvPointer
    <2>1. Converts({"p"}) /\ Arg
      BY <1>20 DEF ConvPointer
    <2>2. PICK pr : pr = [props EXCEPT !.alternate = TRUE] /\ pr \in PropsType
      BY <1>2, AlternateProps
    <2>3. PICK n : n = Head(args).int /\ n \in Nat
      BY <1>7, <2>1
    <2>4. PICK base \in {10, 16} : base = 16
      OBVIOUS
    <2>5. InBuffer(print_unsigned(ps, n, base, pr), size)
      BY <1>2, <2>2, <2>3, PrintUnsignedInBuffer
    <2>6. ps' = print_unsigned(ps, n, base, pr)
      BY <1>20, <2>2, <2>3, <2>4, Zenon DEF ConvPointer
    <2>7. InBuffer(ps', size)
      BY <2>5, <2>6
    <2> QED  BY <1>4, <1>7, <1>8, <2>1, <2>7
  <1>21. CASE ConvString
    <2>1. Converts({"s"}) /\ Arg /\ ps' = print_str(ps, Head(args).str, props)
      BY <1>21 DEF ConvString
    <2>2. PICK s : s = Head(args).str /\ Sequence(s)
      BY <1>7, <2>1
    <2>3. InBuffer(print_str(ps, s, props), size)
      BY <1>2, <2>2, PrintStrInBuffer
    <2>4. InBuffer(ps', size)
      BY <2>1, <2>2, <2>3
    <2> QED  BY <1>4, <1>7, <1>8, <2>1, <2>4
  <1>22. CASE ConvChar
    <2>1. Converts({"c"}) /\ Arg /\ ps' = addchar(ps, Head(args).str[1])
      BY <1>22 DEF ConvChar
    <2>2. InBuffer(ps', size)
      BY <1>6, <2>1
    <2> QED  BY <1>4, <1>7, <1>8, <2>1, <2>2
  <1>23. CASE ConvOther
    <2>1. PICK c : Converts(c)
      BY <1>23 DEF ConvOther
    <2>2. ps' = addchar(ps, Head(fmt)) /\ args' = args
      BY <1>23 DEF ConvOther
    <2>3. InBuffer(ps', size)
      BY <1>6, <2>2
    <2> QED  BY <1>2, <1>4, <1>8, <2>1, <2>2, <2>3
  <1>24. CASE SpecEnds \/ Finish \/ Puts \/ PrintfReturned \/ UNCHANGED printfVars
    <2>1. job' = job /\ fmt' = fmt /\ args' = args /\ props' = props /\ ps' = ps
      BY <1>24 DEF SpecEnds, Finish, Puts, PrintfReturned, printfVars
    <2> QED  BY <1>2, <1>4, <2>1
  <1> QED
    BY <1>10, <1>11, <1>12, <1>14, <1>15, <1>16, <1>17, <1>18, <1>19, <1>20, <1>21, <1>22,
       <1>23, <1>24 DEF PrintfStep

\* Whatever the format and its arguments, the text and its NUL stay in the
\* buffer of vsnprintf(), and the result counts what was dropped too.
THEOREM PrintfStaysInBuffer == PrintfSpec => []StaysInBuffer
  <1>1. PrintfInv => StaysInBuffer
    BY DEF PrintfInv, InBuffer, StaysInBuffer
  <1> QED
    BY PrintfStarts, PrintfSteps, <1>1, PTL DEF PrintfSpec

-----------------------------------------------------------------------------
(* Printf: sequences joined. *)

\* Nothing joined to a sequence leaves it.
LEMMA ConcatNothing ==
    ASSUME NEW s, Sequence(s)
    PROVE  s \o <<>> = s /\ <<>> \o s = s
  <1>1. PICK U : s \in Seq(U)
    BY DEF Sequence
  <1> QED
    BY <1>1, ConcatEmptySeq

\* It does not matter where one begins to join.
LEMMA ConcatThree ==
    ASSUME NEW s, Sequence(s), NEW t, Sequence(t), NEW u, Sequence(u)
    PROVE  (s \o t) \o u = s \o (t \o u)
  <1>1. PICK S : s \in Seq(S) /\ t \in Seq(S)
    BY SequencesOf
  <1>2. PICK T : u \in Seq(T)
    BY DEF Sequence
  <1>3. S \subseteq S \cup T /\ T \subseteq S \cup T
    OBVIOUS
  <1>4. PICK U : s \in Seq(U) /\ t \in Seq(U) /\ u \in Seq(U)
    BY <1>1, <1>2, <1>3, SeqMonotonic
  <1> QED
    BY <1>4, ConcatAssociative

\* A sequence that begins with c.
LEMMA ConcatHead ==
    ASSUME NEW c, NEW s, Sequence(s)
    PROVE  /\ Sequence(<<c>> \o s) /\ <<c>> \o s # <<>> /\ Head(<<c>> \o s) = c
           /\ Tail(<<c>> \o s) = s /\ (<<c>> \o s)[1] = c
  <1>1. PICK U : s \in Seq(U) /\ <<c>> \in Seq(U)
    BY SequenceOne, SequencesOf
  <1>2a. Len(<<c>>) = 1 /\ <<c>>[1] = c
    OBVIOUS
  <1>2b. PICK o : o = <<c>>
    OBVIOUS
  <1>2. o = <<c>> /\ o \in Seq(U) /\ Len(o) = 1 /\ o[1] = c
    BY <1>1, <1>2a, <1>2b
  <1>3b. PICK t : t = o \o s
    OBVIOUS
  <1>3. t = o \o s /\ t \in Seq(U) /\ Len(t) = Len(s) + 1
    BY <1>1, <1>2, <1>3b
  <1>3a. t[1] = c /\ \A k \in 1 .. Len(s) : t[k + 1] = s[k]
    BY <1>1, <1>2, <1>3
  <1>4. t # <<>> /\ Head(t) = c
    BY <1>1, <1>3, <1>3a
  <1>5. Tail(t) = s
    <2>0. PICK u : u = Tail(t)
      OBVIOUS
    <2>1. u \in Seq(U) /\ Len(u) = Len(s)
      BY <1>1, <1>3, <1>4, <2>0
    <2>2. \A k \in 1 .. Len(s) : u[k] = t[k + 1]
      BY <1>1, <1>3, <1>4, <2>0, <2>1
    <2> QED  BY <1>1, <1>3a, <2>0, <2>1, <2>2, SeqEqual
  <1> QED
    BY <1>2, <1>3, <1>3a, <1>4, <1>5 DEF Sequence

\* The first k and the last n - k of the sequences in ss, joined.
IsPre(P, ss) ==
    /\ \A k \in 0 .. Len(ss) : Sequence(P[k])
    /\ P[0] = <<>> /\ \A k \in 1 .. Len(ss) : P[k] = P[k - 1] \o ss[k]
IsSuf(R, ss) ==
    /\ \A k \in 0 .. Len(ss) : Sequence(R[k])
    /\ R[Len(ss)] = <<>> /\ \A k \in 1 .. Len(ss) : R[k - 1] = ss[k] \o R[k]
Pre(ss) == CHOOSE P : IsPre(P, ss)
Suf(ss) == CHOOSE R : IsSuf(R, ss)

Sequences(ss, n) == Sequence(ss) /\ Len(ss) = n /\ n \in Nat /\ \A k \in 1 .. n : Sequence(ss[k])

\* The elements of the sequences in ss.
LEMMA ElementsOf ==
    ASSUME NEW n, NEW ss, Sequences(ss, n)
    PROVE  \E U : ss \in Seq(Seq(U)) /\ \A k \in 1 .. n : ss[k] \in Seq(U)
  <1> DEFINE U == UNION {{ss[k][j] : j \in 1 .. Len(ss[k])} : k \in 1 .. n}
  <1>0. Sequence(ss) /\ Len(ss) = n /\ n \in Nat
    BY DEF Sequences
  <1>1. ASSUME NEW k \in 1 .. n PROVE ss[k] \in Seq(U)
    <2>1. PICK s : s = ss[k]
      OBVIOUS
    <2>2. PICK S : s \in Seq(S)
      BY <2>1 DEF Sequences, Sequence
    <2>3. \A j \in 1 .. Len(s) : s[j] \in U
      BY <2>1
    <2> HIDE DEF U
    <2>4. s \in Seq(U)
      BY <2>2, <2>3
    <2> QED  BY <2>1, <2>4
  <1> HIDE DEF U
  <1>2. ss \in Seq(Seq(U))
    <2>1. PICK S : ss \in Seq(S)
      BY <1>0 DEF Sequence
    <2> QED  BY <1>0, <1>1, <2>1
  <1> QED
    BY <1>1, <1>2

\* Both exist: from the front ...
LEMMA PreExists ==
    ASSUME NEW n, NEW ss, Sequences(ss, n)
    PROVE  \E P : IsPre(P, ss)
  <1>1. PICK U : ss \in Seq(Seq(U)) /\ \A k \in 1 .. n : ss[k] \in Seq(U)
    BY ElementsOf
  <1>2. n \in Nat /\ n = Len(ss)
    BY DEF Sequences
  <1> DEFINE S == Seq(U)
             part(k) == IF k + 1 <= n THEN ss[k + 1] ELSE <<>>
             G == [x \in Nat \X S |-> x[2] \o part(x[1])]
  <1>3. \A k \in Nat : part(k) \in S
    BY <1>1, <1>2
  <1>3a. \A k \in Nat : k + 1 <= n => part(k) = ss[k + 1]
    OBVIOUS
  <1> HIDE DEF part
  <1>4. PICK h : Recurses(h, S, <<>>, G)
    <2>1. G \in [Nat \X S -> S]
      <3>1. \A x \in Nat \X S : x[2] \o part(x[1]) \in S
        BY <1>3
      <3> HIDE DEF S
      <3> QED  BY <3>1
    <2>2. <<>> \in S
      OBVIOUS
    <2> HIDE DEF S, G
    <2> QED  BY <2>1, <2>2, Recursion
  <1>5. h \in [Nat -> S] /\ h[0] = <<>>
    BY <1>4 DEF Recurses
  <1>6. ASSUME NEW k \in Nat, k + 1 <= n PROVE h[k + 1] = h[k] \o ss[k + 1]
    <2>1. h[k + 1] = G[<<k, h[k]>>] /\ <<k, h[k]>> \in Nat \X S
      <3> HIDE DEF S, G
      <3> QED  BY <1>4, <1>5 DEF Recurses
    <2>2. h[k + 1] = h[k] \o part(k)
      <3> HIDE DEF S
      <3> QED  BY <2>1
    <2> QED  BY <2>2, <1>3a, <1>6
  <1>7. ASSUME NEW k \in 1 .. n PROVE h[k] = h[k - 1] \o ss[k]
    <2>1. PICK j \in Nat : j = k - 1 /\ k = j + 1 /\ j + 1 <= n
      BY <1>2
    <2> QED  BY <1>6, <2>1
  <1>8. \A k \in 0 .. n : Sequence(h[k])
    BY <1>2, <1>5 DEF Sequence
  <1>9. IsPre(h, ss)
    BY <1>2, <1>5, <1>7, <1>8 DEF IsPre
  <1> QED
    BY <1>9

\* ... and from the back.
LEMMA SufExists ==
    ASSUME NEW n, NEW ss, Sequences(ss, n)
    PROVE  \E R : IsSuf(R, ss)
  <1>1. PICK U : ss \in Seq(Seq(U)) /\ \A k \in 1 .. n : ss[k] \in Seq(U)
    BY ElementsOf
  <1>2. n \in Nat /\ n = Len(ss)
    BY DEF Sequences
  <1> DEFINE S == Seq(U)
             part(k) == IF k + 1 <= n THEN ss[n - k] ELSE <<>>
             G == [x \in Nat \X S |-> part(x[1]) \o x[2]]
  <1>3. \A k \in Nat : part(k) \in S
    BY <1>1, <1>2
  <1>3a. \A k \in Nat : k + 1 <= n => part(k) = ss[n - k]
    OBVIOUS
  <1> HIDE DEF part
  <1>4. PICK h : Recurses(h, S, <<>>, G)
    <2>1. G \in [Nat \X S -> S]
      <3>1. \A x \in Nat \X S : part(x[1]) \o x[2] \in S
        BY <1>3
      <3> HIDE DEF S
      <3> QED  BY <3>1
    <2>2. <<>> \in S
      OBVIOUS
    <2> HIDE DEF S, G
    <2> QED  BY <2>1, <2>2, Recursion
  <1>5. h \in [Nat -> S] /\ h[0] = <<>>
    BY <1>4 DEF Recurses
  <1>6. ASSUME NEW k \in Nat, k + 1 <= n PROVE h[k + 1] = ss[n - k] \o h[k]
    <2>1. h[k + 1] = G[<<k, h[k]>>] /\ <<k, h[k]>> \in Nat \X S
      <3> HIDE DEF S, G
      <3> QED  BY <1>4, <1>5 DEF Recurses
    <2>2. h[k + 1] = part(k) \o h[k]
      <3> HIDE DEF S
      <3> QED  BY <2>1
    <2> QED  BY <2>2, <1>3a, <1>6
  <1> DEFINE R == [k \in 0 .. n |-> h[n - k]]
  <1>7. ASSUME NEW k \in 1 .. n PROVE R[k - 1] = ss[k] \o R[k]
    <2>1. PICK j : j = n - k
      OBVIOUS
    <2>1a. j \in Nat /\ n - (k - 1) = j + 1 /\ n - j = k /\ j + 1 <= n
      BY <1>2, <2>1
    <2>2. R[k - 1] = h[j + 1] /\ R[k] = h[j]
      <3>1. k \in 0 .. n /\ k - 1 \in 0 .. n
        BY <1>2
      <3> QED  BY <2>1, <2>1a, <3>1
    <2> HIDE DEF R
    <2>3. h[j + 1] = ss[n - j] \o h[j]
      BY <1>6, <2>1a
    <2> QED  BY <2>1a, <2>2, <2>3
  <1>8. \A k \in 0 .. n : Sequence(R[k])
    <2>1. \A k \in 0 .. n : R[k] \in Seq(U)
      BY <1>2, <1>5
    <2> QED  BY <2>1 DEF Sequence
  <1>8a. R[n] = <<>>
    BY <1>2, <1>5
  <1> HIDE DEF R
  <1>9. IsSuf(R, ss)
    BY <1>2, <1>7, <1>8, <1>8a DEF IsSuf
  <1> QED
    BY <1>9

\* All of them are FlattenSeq().
LEMMA FlattenPre ==
    ASSUME NEW n, NEW ss, Sequences(ss, n)
    PROVE  IsPre(Pre(ss), ss) /\ FlattenSeq(ss) = Pre(ss)[n]
  <1>1. IsPre(Pre(ss), ss)
    BY PreExists, Zenon DEF Pre
  <1>2. n \in Nat /\ n = Len(ss) /\ Sequence(ss) /\ \A k \in 1 .. n : Sequence(ss[k])
    BY DEF Sequences
  <1>3. PICK P : P = Pre(ss)
    OBVIOUS
  <1>4. P[0] = <<>> /\ \A k \in 1 .. n : P[k] = P[k - 1] \o ss[k]
    BY <1>1, <1>2, <1>3 DEF IsPre
  <1>5. CASE n = 0
    <2>1. FlattenSeq(ss) = ss
      BY <1>2, <1>5, Zenon DEF FlattenSeq
    <2>2. ss = <<>>
      BY <1>2, <1>5, EmptySeq DEF Sequence
    <2> QED  BY <1>1, <1>3, <1>4, <1>5, <2>1, <2>2
  <1>6. CASE n # 0
    <2> DEFINE f == CHOOSE g : FlatEq(g, ss)
               g == [k \in 1 .. n |-> P[k]]
    <2>1. FlattenSeq(ss) = f[n]
      BY <1>2, <1>6, Zenon DEF FlattenSeq, FlatEq
    <2>2. P[1] = ss[1]
      <3>1. P[1] = P[0] \o ss[1] /\ Sequence(ss[1])
        <4>1. 1 \in 1 .. n /\ 1 - 1 = 0
          BY <1>2, <1>6
        <4> QED  BY <1>2, <1>4, <4>1
      <3> QED  BY <1>4, <3>1, ConcatNothing
    <2>3. FlatEq(g, ss)
      <3>1. ASSUME NEW k \in 1 .. n PROVE g[k] = IF k = 1 THEN ss[k] ELSE g[k - 1] \o ss[k]
        <4>1. CASE k = 1
          BY <2>2, <4>1
        <4>2. CASE k # 1
          <5>1. k - 1 \in 1 .. n
            BY <1>2, <4>2
          <5>2. g[k] = P[k] /\ g[k - 1] = P[k - 1]
            BY <5>1
          <5> HIDE DEF g
          <5> QED  BY <1>4, <4>2, <5>2
        <4> QED  BY <4>1, <4>2
      <3>2. g = [k \in 1 .. n |-> g[k]]
        OBVIOUS
      <3> HIDE DEF g
      <3>3. g = [k \in 1 .. n |-> IF k = 1 THEN ss[k] ELSE g[k - 1] \o ss[k]]
        BY <3>1, <3>2
      <3> QED  BY <1>2, <3>3 DEF FlatEq
    <2>4. FlatEq(f, ss)
      BY <2>3, Zenon
    <2> HIDE DEF f, g
    <2>5. \A k \in 1 .. n : f[k] = IF k = 1 THEN ss[k] ELSE f[k - 1] \o ss[k]
      BY <1>2, <2>4 DEF FlatEq
    <2> DEFINE T == {k \in Nat : k + 1 <= n => f[k + 1] = P[k + 1]}
    <2>6. 0 \in T
      <3>1. f[1] = ss[1]
        BY <1>2, <1>6, <2>5
      <3> QED  BY <2>2, <3>1
    <2>7. ASSUME NEW k \in Nat, k \in T PROVE k + 1 \in T
      <3>1. ASSUME (k + 1) + 1 <= n PROVE f[(k + 1) + 1] = P[(k + 1) + 1]
        <4>1. PICK j \in 1 .. n : j = k + 1 /\ j + 1 \in 1 .. n /\ j + 1 # 1 /\ (j + 1) - 1 = j
          BY <1>2, <3>1
        <4>2. f[j] = P[j]
          BY <1>2, <2>7, <4>1
        <4>3. f[j + 1] = f[j] \o ss[j + 1] /\ P[j + 1] = P[j] \o ss[j + 1]
          BY <1>4, <2>5, <4>1
        <4> QED  BY <4>1, <4>2, <4>3
      <3> QED  BY <3>1
    <2> HIDE DEF T
    <2>8. Nat \subseteq T
      BY <2>6, <2>7, SetInduction
    <2>9. PICK m \in Nat : m \in T /\ m + 1 = n
      <3>1. n - 1 \in Nat /\ (n - 1) + 1 = n
        BY <1>2, <1>6
      <3> QED  BY <2>8, <3>1
    <2>10. f[m + 1] = P[m + 1]
      BY <1>2, <2>9 DEF T
    <2> QED  BY <1>1, <1>3, <2>1, <2>9, <2>10
  <1> QED
    BY <1>2, <1>5, <1>6

\* ... from either end.
LEMMA FlattenSuf ==
    ASSUME NEW n, NEW ss, Sequences(ss, n)
    PROVE  IsSuf(Suf(ss), ss) /\ FlattenSeq(ss) = Suf(ss)[0]
  <1>1. IsSuf(Suf(ss), ss)
    BY SufExists, Zenon DEF Suf
  <1>2. n \in Nat /\ n = Len(ss) /\ Sequence(ss) /\ \A k \in 1 .. n : Sequence(ss[k])
    BY DEF Sequences
  <1>3. PICK P : P = Pre(ss)
    OBVIOUS
  <1>3a. PICK R : R = Suf(ss)
    OBVIOUS
  <1>3b. IsPre(Pre(ss), ss) /\ FlattenSeq(ss) = Pre(ss)[n]
    BY FlattenPre
  <1>3c. IsPre(P, ss) /\ FlattenSeq(ss) = P[n] /\ IsSuf(R, ss)
    BY <1>1, <1>3, <1>3a, <1>3b
  <1>4. /\ P[0] = <<>> /\ \A k \in 1 .. n : P[k] = P[k - 1] \o ss[k]
        /\ \A k \in 0 .. n : Sequence(P[k])
    BY <1>2, <1>3c DEF IsPre
  <1>4a. /\ \A k \in 0 .. n : Sequence(R[k])
         /\ R[n] = <<>> /\ \A k \in 1 .. n : R[k - 1] = ss[k] \o R[k]
    BY <1>2, <1>3c DEF IsSuf
  <1> DEFINE Eq(k) == P[k] \o R[k] = R[0]
             T == {k \in Nat : k <= n => Eq(k)}
  <1>5. 0 \in T
    <2>1. Sequence(R[0])
      BY <1>2, <1>4a
    <2>2. Eq(0)
      BY <1>4, <2>1, ConcatNothing
    <2> HIDE DEF Eq
    <2> QED  BY <2>2
  <1>6. ASSUME NEW k \in Nat, k \in T PROVE k + 1 \in T
    <2>1. ASSUME k + 1 <= n PROVE Eq(k + 1)
      <3>1. PICK j \in 1 .. n : j = k + 1
        BY <1>2, <2>1
      <3>1a. j - 1 = k /\ k \in 0 .. n /\ j \in 0 .. n /\ k <= n
        BY <1>2, <3>1
      <3>2. P[j] = P[k] \o ss[j] /\ R[k] = ss[j] \o R[j]
        <4>1. P[j] = P[j - 1] \o ss[j] /\ R[j - 1] = ss[j] \o R[j]
          BY <1>4, <1>4a
        <4> QED  BY <3>1a, <4>1
      <3>3. PICK a, b, c : a = P[k] /\ b = ss[j] /\ c = R[j]
        OBVIOUS
      <3>3a. Sequence(a) /\ Sequence(b) /\ Sequence(c)
        BY <1>2, <1>4, <1>4a, <3>1a, <3>3
      <3>4. (a \o b) \o c = a \o (b \o c)
        BY <3>3a, ConcatThree, SMTT(30)
      <3>5. Eq(k)
        <4> HIDE DEF Eq
        <4> QED  BY <1>6, <3>1a
      <3>6. Eq(j)
        BY <3>2, <3>3, <3>4, <3>5
      <3> HIDE DEF Eq
      <3> QED  BY <3>1, <3>6
    <2> HIDE DEF Eq
    <2> QED  BY <2>1
  <1> HIDE DEF T
  <1>7. Nat \subseteq T
    BY <1>5, <1>6, SetInduction
  <1>8. Eq(n)
    <2> HIDE DEF Eq
    <2>1. n \in T
      BY <1>2, <1>7
    <2> QED  BY <1>2, <2>1 DEF T
  <1>9. Sequence(P[n])
    BY <1>2, <1>4
  <1>10. P[n] = R[0]
    BY <1>4a, <1>8, <1>9, ConcatNothing
  <1> QED
    BY <1>1, <1>3a, <1>3c, <1>10

-----------------------------------------------------------------------------
(* Printf: the bits of a number, in groups of four. *)

\* Bit n of x, counted from the left, and what stands at k in the text.
Bit(x, n) == digit((x \div Pow2[LongBits - n]) % 2)
Grouped(x, k) == IF k % 5 = 0 THEN "'" ELSE Bit(x, k - (k \div 5))

\* The length of the first n bits and their separators.
GroupedLen(n) == IF n = LongBits THEN n + (n \div 4) - 1 ELSE n + (n \div 4)

\* Where the next bit goes.
LEMMA NextBit ==
    ASSUME NEW n \in Nat, NEW q, q = n + (n \div 4) + 1
    PROVE  /\ q \in Nat /\ q % 5 # 0 /\ q - (q \div 5) = n + 1
           /\ ((n + 1) % 4 = 0 => (q + 1) % 5 = 0 /\ (n + 1) + ((n + 1) \div 4) = q + 1)
           /\ ((n + 1) % 4 # 0 => (n + 1) + ((n + 1) \div 4) = q)
  <1>1. PICK a \in Nat, b \in 0 .. 3 : n = 4 * a + b
    <2>1. n \div 4 \in Nat /\ n % 4 \in 0 .. 3 /\ n = 4 * (n \div 4) + (n % 4)
      OBVIOUS
    <2> QED  BY <2>1
  <1>2. n \div 4 = a /\ q = 5 * a + b + 1
    BY <1>1
  <1>3. q % 5 = b + 1 - (IF b = 4 THEN 5 ELSE 0) /\ q \div 5 = a
    BY <1>2
  <1>4. ((n + 1) % 4 = 0) <=> b = 3
    BY <1>1
  <1>5. CASE b = 3
    <2>1. (n + 1) \div 4 = a + 1 /\ (q + 1) % 5 = 0
      BY <1>1, <1>2, <1>5
    <2> QED  BY <1>1, <1>2, <1>3, <1>4, <1>5, <2>1
  <1>6. CASE b # 3
    <2>1. (n + 1) \div 4 = a
      BY <1>1, <1>6
    <2> QED  BY <1>1, <1>2, <1>3, <1>4, <1>6, <2>1
  <1> QED
    BY <1>5, <1>6

\* u is s with c behind it.
WithOneMore(u, s, c) ==
    /\ Sequence(u) /\ Len(u) = Len(s) + 1
    /\ (\A k \in 1 .. Len(s) : u[k] = s[k]) /\ u[Len(s) + 1] = c

\* A sequence with one more element, from its elements.
LEMMA OneMore ==
    ASSUME NEW s, Sequence(s), NEW c, NEW u, u = s \o <<c>>
    PROVE  WithOneMore(u, s, c)
  <1>1. PICK o : o = <<c>>
    OBVIOUS
  <1>2. Sequence(o) /\ Len(o) = 1 /\ o[1] = c
    BY <1>1, SequenceOne
  <1>3. Len(s) \in Nat
    BY SequenceLen
  <1>4. Sequence(s \o o) /\ Len(s \o o) = Len(s) + 1
    BY <1>2, SequenceConcat
  <1>5. ASSUME NEW k \in 1 .. Len(s) + 1
        PROVE  (s \o o)[k] = IF k <= Len(s) THEN s[k] ELSE o[k - Len(s)]
    <2>1. k \in 1 .. Len(s) + Len(o)
      BY <1>2
    <2> QED  BY <1>2, <2>1, ConcatAt
  <1>6. \A k \in 1 .. Len(s) : (s \o o)[k] = s[k]
    BY <1>3, <1>5
  <1>7. (s \o o)[Len(s) + 1] = c
    <2>1. Len(s) + 1 \in 1 .. Len(s) + 1 /\ ~(Len(s) + 1 <= Len(s)) /\ (Len(s) + 1) - Len(s) = 1
      BY <1>3
    <2> QED  BY <1>2, <1>5, <2>1
  <1> QED
    BY <1>1, <1>4, <1>6, <1>7 DEF WithOneMore

\* A text of the right characters.
GroupedText(x, t, n) == Sequence(t) /\ Len(t) = n /\ \A k \in 1 .. n : t[k] = Grouped(x, k)

\* It may get one more.
LEMMA GroupedMore ==
    ASSUME NEW x, NEW t, NEW n \in Nat, GroupedText(x, t, n), NEW c, c = Grouped(x, n + 1)
    PROVE  GroupedText(x, t \o <<c>>, n + 1)
  <1>1. Sequence(t) /\ Len(t) = n /\ \A k \in 1 .. n : t[k] = Grouped(x, k)
    BY DEF GroupedText
  <1>2. PICK u : u = t \o <<c>>
    OBVIOUS
  <1>3. /\ Sequence(u) /\ Len(u) = n + 1 /\ (\A k \in 1 .. n : u[k] = t[k])
        /\ u[n + 1] = c
    <2>1. WithOneMore(u, t, c)
      BY <1>1, <1>2, OneMore
    <2> QED  BY <1>1, <2>1 DEF WithOneMore
  <1>4. ASSUME NEW k \in 1 .. n + 1 PROVE u[k] = Grouped(x, k)
    <2>1. CASE k \in 1 .. n
      BY <1>1, <1>3, <2>1
    <2>2. CASE k = n + 1
      BY <1>3, <2>2
    <2> QED  BY <2>1, <2>2
  <1> QED
    BY <1>2, <1>3, <1>4 DEF GroupedText


\* binstr() gives that text for all the bits.
LEMMA BinstrIs ==
    ASSUME NEW x \in Nat
    PROVE  GroupedText(x, binstr(x), BINSTR_SZ - 1)
  <1> DEFINE sep(n) == IF EndsGroup(n) /\ n # LongBits THEN <<"'">> ELSE <<>>
             part(n) == <<Bit(x, n)>> \o sep(n)
             ss == [n \in 1 .. LongBits |-> part(n)]
  <1>1. PICK L \in Nat : L = LongBits /\ L > 1 /\ L % 4 = 0
    BY PrintfAssumption
  <1>2. binstr(x) = FlattenSeq(ss)
    BY Zenon DEF binstr, Bit
  <1>3. ASSUME NEW n \in 1 .. L PROVE Sequence(part(n))
    <2>1. Sequence(sep(n)) /\ Sequence(<<Bit(x, n)>>)
      BY SequenceOne
    <2> HIDE DEF sep
    <2> QED  BY <2>1, SequenceConcat
  <1>4. Sequences(ss, L) /\ \A n \in 1 .. L : ss[n] = part(n)
    <2> HIDE DEF part
    <2>1. ss = [k \in 1 .. L |-> ss[k]] /\ \A n \in 1 .. L : ss[n] = part(n)
      BY <1>1
    <2> HIDE DEF ss
    <2>2. Sequence(ss) /\ Len(ss) = L
      BY <2>1, SequenceFcn
    <2> QED  BY <1>3, <2>1, <2>2 DEF Sequences
  <1> HIDE DEF ss
  <1>5. PICK P : P = Pre(ss)
    OBVIOUS
  <1>6. IsPre(P, ss) /\ FlattenSeq(ss) = P[L]
    BY <1>4, <1>5, FlattenPre
  <1>7. P[0] = <<>> /\ \A k \in 1 .. L : P[k] = P[k - 1] \o part(k)
    <2> HIDE DEF part
    <2> QED  BY <1>4, <1>6 DEF IsPre, Sequences
  <1> DEFINE Good(n) == GroupedText(x, P[n], GroupedLen(n))
             T == {n \in Nat : n <= L => Good(n)}
  <1>8. 0 \in T
    <2>1. GroupedLen(0) = 0
      BY <1>1 DEF GroupedLen
    <2>2. GroupedText(x, <<>>, 0)
      BY SequenceOne DEF GroupedText
    <2> QED  BY <1>7, <2>1, <2>2
  <1>9. ASSUME NEW n \in Nat, n \in T PROVE n + 1 \in T
    <2>1. ASSUME n + 1 <= L PROVE Good(n + 1)
      <3>1. PICK m \in 1 .. L : m = n + 1
        BY <1>1, <2>1
      <3>2. m - 1 = n /\ n < L
        BY <1>1, <3>1
      <3>3. P[m] = P[n] \o part(m)
        <4>1. P[m] = P[m - 1] \o part(m)
          BY <1>7
        <4> QED  BY <3>2, <4>1
      <3>4. PICK q : q = n + (n \div 4) + 1
        OBVIOUS
      <3>5. /\ q \in Nat /\ q % 5 # 0 /\ q - (q \div 5) = m
            /\ (m % 4 = 0 => (q + 1) % 5 = 0 /\ m + (m \div 4) = q + 1)
            /\ (m % 4 # 0 => m + (m \div 4) = q)
        BY <3>1, <3>4, NextBit
      <3>6. PICK l \in Nat : l + 1 = q /\ GroupedLen(n) = l
        <4>1. n + (n \div 4) \in Nat
          OBVIOUS
        <4> QED  BY <1>1, <3>2, <3>4, <4>1 DEF GroupedLen
      <3>7. GroupedText(x, P[n], l)
        <4>1. n <= L
          BY <1>1, <3>2
        <4> HIDE DEF Good
        <4>2. Good(n)
          BY <1>9, <4>1
        <4> QED  BY <3>6, <4>2 DEF Good
      <3>8. PICK c : c = Bit(x, m)
        OBVIOUS
      <3>8a. c = Grouped(x, l + 1)
        BY <3>5, <3>6, <3>8 DEF Grouped
      <3>9. GroupedText(x, P[n] \o <<c>>, q)
        BY <3>6, <3>7, <3>8a, GroupedMore
      <3>10. Sequence(P[n]) /\ Sequence(P[n] \o <<c>>)
        BY <3>7, <3>9 DEF GroupedText
      <3>11. CASE m % 4 = 0 /\ m # L
        <4>1. part(m) = <<c>> \o <<"'">>
          BY <1>1, <3>8, <3>11 DEF EndsGroup
        <4>2. "'" = Grouped(x, q + 1)
          BY <3>5, <3>11 DEF Grouped
        <4>3. GroupedText(x, (P[n] \o <<c>>) \o <<"'">>, q + 1)
          BY <3>5, <3>9, <4>2, GroupedMore
        <4>4. (P[n] \o <<c>>) \o <<"'">> = P[n] \o (<<c>> \o <<"'">>)
          <5>1. PICK p, d, e : p = P[n] /\ d = <<c>> /\ e = <<"'">>
            OBVIOUS
          <5>2. Sequence(p) /\ Sequence(d) /\ Sequence(e)
            BY <3>10, <5>1, SequenceOne
          <5>3. (p \o d) \o e = p \o (d \o e)
            BY <5>2, ConcatThree, SMTT(30)
          <5> QED  BY <5>1, <5>3
        <4>5. GroupedLen(m) = q + 1
          BY <1>1, <3>5, <3>11 DEF GroupedLen
        <4>6. Good(m)
          BY <3>3, <4>1, <4>3, <4>4, <4>5
        <4> HIDE DEF Good
        <4> QED  BY <3>1, <4>6
      <3>12. CASE ~(m % 4 = 0 /\ m # L)
        <4>1. part(m) = <<c>> \o <<>>
          BY <1>1, <3>8, <3>12 DEF EndsGroup
        <4>2. part(m) = <<c>>
          BY <4>1, SequenceOne, ConcatNothing
        <4>3. GroupedLen(m) = q
          BY <1>1, <3>5, <3>12 DEF GroupedLen
        <4>4. Good(m)
          <5> HIDE DEF part
          <5> QED  BY <3>3, <3>9, <4>2, <4>3
        <4> HIDE DEF Good
        <4> QED  BY <3>1, <4>4
      <3> QED  BY <3>11, <3>12
    <2> HIDE DEF Good
    <2> QED  BY <2>1
  <1> HIDE DEF T
  <1>10. Nat \subseteq T
    BY <1>8, <1>9, SetInduction
  <1>11. Good(L)
    <2>1. L \in T
      BY <1>10
    <2> HIDE DEF Good
    <2> QED  BY <2>1 DEF T
  <1>12. GroupedLen(L) = BINSTR_SZ - 1
    BY <1>1 DEF GroupedLen, BINSTR_SZ
  <1> QED
    BY <1>2, <1>6, <1>11, <1>12

\* A bit is 0 or 1, and no separator.
LEMMA BitIs ==
    ASSUME NEW x \in Nat, NEW n \in Nat, n <= LongBits, NEW b, b = (x \div Pow2[LongBits - n]) % 2
    PROVE  /\ b \in 0 .. 1 /\ Bit(x, n) = IF b = 1 THEN "1" ELSE "0"
           /\ Bit(x, n) # "'" /\ Bit(x, n) # NulChar
  <1>1. LongBits \in Nat
    BY PrintfAssumption
  <1>2. PICK y \in Nat \ {0} : y = Pow2[LongBits - n]
    <2>1. LongBits - n \in Nat
      BY <1>1
    <2> QED  BY <2>1, Pow2Positive
  <1>3. PICK z \in Nat : z = x \div y
    OBVIOUS
  <1>4. b \in 0 .. 1
    BY <1>2, <1>3
  <1>5. digit(0) = "0" /\ digit(1) = "1"
    BY DEF digit, digits
  <1>6. Bit(x, n) = digit(b)
    BY DEF Bit
  <1> QED
    BY <1>4, <1>5, <1>6 DEF NulChar

ReadEq(f, t) ==
    f = [k \in Nat |-> IF k = 0 THEN 0
                       ELSE IF t[k] = "'" THEN f[k - 1]
                       ELSE 2 * f[k - 1] + (IF t[k] = "1" THEN 1 ELSE 0)]

\* The recursion that reads a text back has a solution.
LEMMA ReadExists ==
    ASSUME NEW t
    PROVE  \E f : ReadEq(f, t)
  <1> DEFINE one(k) == IF t[k] = "1" THEN 1 ELSE 0
             next(k, y) == IF t[k] = "'" THEN y ELSE 2 * y + one(k)
             G == [z \in Nat \X Nat |-> next(z[1] + 1, z[2])]
  <1>1. \A k \in Nat, y \in Nat : next(k, y) \in Nat
    OBVIOUS
  <1> HIDE DEF next
  <1>2. G \in [Nat \X Nat -> Nat]
    <2>1. ASSUME NEW z \in Nat \X Nat PROVE next(z[1] + 1, z[2]) \in Nat
      <3>1. z[1] + 1 \in Nat /\ z[2] \in Nat
        OBVIOUS
      <3> QED  BY <1>1, <3>1, Zenon
    <2> QED  BY <2>1
  <1>3. PICK h : Recurses(h, Nat, 0, G)
    <2> HIDE DEF G
    <2> QED  BY <1>2, Recursion
  <1>4. h \in [Nat -> Nat] /\ h[0] = 0
    BY <1>3 DEF Recurses
  <1>5. ASSUME NEW k \in Nat, k # 0 PROVE h[k] = next(k, h[k - 1])
    <2>1. PICK j \in Nat : j = k - 1
      BY <1>5
    <2>1a. k = j + 1
      BY <2>1
    <2>2. h[j + 1] = G[<<j, h[j]>>] /\ <<j, h[j]>> \in Nat \X Nat
      <3> HIDE DEF G
      <3> QED  BY <1>3, <1>4 DEF Recurses
    <2>3. h[j + 1] = next(j + 1, h[j])
      BY <2>2
    <2> QED  BY <2>1, <2>1a, <2>3
  <1>6. h = [k \in Nat |-> h[k]]
    BY <1>4
  <1>7. ReadEq(h, t)
    <2>1. \A k \in Nat : h[k] = IF k = 0 THEN 0 ELSE next(k, h[k - 1])
      BY <1>4, <1>5
    <2> QED  BY <1>6, <2>1 DEF ReadEq, next
  <1> QED
    BY <1>7

\* A number without its last bit is half as large.
LEMMA Halves ==
    ASSUME NEW x \in Nat, NEW n \in Nat, n + 1 <= LongBits
    PROVE  x \div Pow2[LongBits - (n + 1)]
             = 2 * (x \div Pow2[LongBits - n]) + ((x \div Pow2[LongBits - (n + 1)]) % 2)
  <1>1. PICK m \in Nat : m = LongBits - (n + 1)
    BY PrintfAssumption
  <1>2. m + 1 = LongBits - n
    BY <1>1, PrintfAssumption
  <1>3. PICK y \in Nat \ {0} : y = Pow2[m]
    BY Pow2Positive
  <1>4. Pow2[m + 1] = 2 * y
    <2>1. m + 1 \in Nat /\ m + 1 # 0 /\ (m + 1) - 1 = m
      OBVIOUS
    <2> QED  BY <1>3, <2>1, Pow2Is
  <1>5. PICK z \in Nat : z = x \div y
    OBVIOUS
  <1>6. x \div (2 * y) = z \div 2
    <2>1. PICK two \in Nat \ {0} : two = 2
      OBVIOUS
    <2>2. x \div (two * y) = (x \div y) \div two
      BY DivDiv, Zenon
    <2> QED  BY <1>5, <2>1, <2>2
  <1>7. z = 2 * (z \div 2) + (z % 2)
    OBVIOUS
  <1> QED
    BY <1>1, <1>2, <1>3, <1>4, <1>5, <1>6, <1>7

\* What the first k characters of the text stand for.
LEMMA ReadsBits ==
    ASSUME NEW x \in Nat, x < Pow2[LongBits], NEW t, GroupedText(x, t, BINSTR_SZ - 1)
    PROVE  ReadBack(t) = x
  <1> DEFINE f == CHOOSE g : ReadEq(g, t)
  <1>1. ReadBack(t) = f[Len(t)]
    BY Zenon DEF ReadBack, ReadEq
  <1>2. ReadEq(f, t)
    BY ReadExists, Zenon
  <1> HIDE DEF f
  <1>3. /\ f[0] = 0
        /\ \A k \in Nat : k # 0 => f[k] = IF t[k] = "'" THEN f[k - 1]
                                       ELSE 2 * f[k - 1] + (IF t[k] = "1" THEN 1 ELSE 0)
    BY <1>2 DEF ReadEq
  <1>4. PICK L \in Nat : L = LongBits
    BY PrintfAssumption
  <1>4a. L % 4 = 0 /\ L > 1
    BY <1>4, PrintfAssumption
  <1>5. PICK N \in Nat : N = BINSTR_SZ - 1
    <2>1. L + (L \div 4) - 1 \in Nat
      BY <1>4a
    <2> QED  BY <1>4, <2>1 DEF BINSTR_SZ
  <1>5a. N = L + (L \div 4) - 1
    BY <1>4, <1>5 DEF BINSTR_SZ
  <1>6. Len(t) = N /\ \A k \in 1 .. N : t[k] = Grouped(x, k)
    BY <1>5 DEF GroupedText
  <1> DEFINE Good(k) == f[k] = x \div Pow2[LongBits - (k - (k \div 5))]
             T == {k \in Nat : k <= N => Good(k)}
  <1>7. 0 \in T
    <2>1. PICK y \in Nat \ {0} : y = Pow2[L]
      BY Pow2Positive
    <2>2. x \div y = 0
      <3>1. x < y
        BY <1>4, <2>1
      <3>2. x \in 0 .. y - 1 /\ y * 0 + x = x
        BY <3>1
      <3> QED  BY <3>2, Quotient
    <2>3. L - (0 - (0 \div 5)) = L
      OBVIOUS
    <2>4. Good(0)
      BY <1>3, <1>4, <2>1, <2>2, <2>3
    <2> HIDE DEF Good
    <2> QED  BY <2>4
  <1>8. ASSUME NEW k \in Nat, k \in T PROVE k + 1 \in T
    <2>1. ASSUME k + 1 <= N PROVE Good(k + 1)
      <3>1. PICK m \in Nat : m = k + 1
        OBVIOUS
      <3>1a. m \in 1 .. N /\ m # 0 /\ m - 1 = k
        BY <2>1, <3>1
      <3>2. t[m] = Grouped(x, m)
        BY <1>6, <3>1a
      <3>3. Good(k)
        <4> HIDE DEF Good
        <4> QED  BY <1>8, <2>1
      <3>4. f[m] = IF t[m] = "'" THEN f[k] ELSE 2 * f[k] + (IF t[m] = "1" THEN 1 ELSE 0)
        BY <1>3, <3>1, <3>1a
      <3>5. PICK n \in Nat : n = k - (k \div 5)
        OBVIOUS
      <3>6. CASE m % 5 = 0
        <4>1. m - (m \div 5) = n
          BY <3>1, <3>5, <3>6
        <4>2. t[m] = "'"
          BY <3>2, <3>6 DEF Grouped
        <4>3. Good(m)
          BY <3>3, <3>4, <3>5, <4>1, <4>2
        <4> HIDE DEF Good
        <4> QED  BY <3>1, <4>3
      <3>7. CASE m % 5 # 0
        <4>1. m - (m \div 5) = n + 1
          BY <3>1, <3>5, <3>7
        <4>2. n + 1 <= L
          BY <1>4a, <1>5a, <3>1, <3>1a, <3>7, <4>1
        <4>3. PICK b : b = (x \div Pow2[LongBits - (n + 1)]) % 2
          OBVIOUS
        <4>4. t[m] = Bit(x, n + 1)
          BY <3>2, <3>7, <4>1 DEF Grouped
        <4>5. b \in 0 .. 1 /\ t[m] = (IF b = 1 THEN "1" ELSE "0") /\ t[m] # "'"
          <5>1. n + 1 \in Nat /\ n + 1 <= LongBits
            BY <1>4, <4>2
          <5> QED  BY <4>3, <4>4, <5>1, BitIs
        <4>6. f[m] = 2 * f[k] + b
          BY <3>4, <4>5
        <4>7. x \div Pow2[LongBits - (n + 1)] = 2 * (x \div Pow2[LongBits - n]) + b
          BY <1>4, <4>2, <4>3, Halves
        <4>8. Good(m)
          BY <3>3, <3>5, <4>1, <4>6, <4>7
        <4> HIDE DEF Good
        <4> QED  BY <3>1, <4>8
      <3> QED  BY <3>6, <3>7
    <2> HIDE DEF Good
    <2> QED  BY <2>1
  <1> HIDE DEF T
  <1>9. Nat \subseteq T
    BY <1>7, <1>8, SetInduction
  <1>10. Good(N)
    <2> HIDE DEF Good
    <2> QED  BY <1>9 DEF T
  <1>11. N - (N \div 5) = L
    BY <1>4a, <1>5a
  <1>12. Pow2[LongBits - L] = 1
    <2>1. LongBits - L = 0 /\ 0 \in Nat
      BY <1>4
    <2> QED  BY <2>1, Pow2Is
  <1>13. x \div 1 = x
    OBVIOUS
  <1> QED
    BY <1>1, <1>6, <1>10, <1>11, <1>12, <1>13

\* Two characters joined.
LEMMA ConcatOnes ==
    ASSUME NEW c, NEW d
    PROVE  <<c>> \o <<d>> = <<c, d>>
  <1>1. PICK s, u, t : s = <<c>> /\ u = s \o <<d>> /\ t = <<c, d>>
    OBVIOUS
  <1>2. Sequence(s) /\ Len(s) = 1 /\ s[1] = c
    BY <1>1, SequenceOne
  <1>3. WithOneMore(u, s, d)
    BY <1>1, <1>2, OneMore
  <1>4. Sequence(u) /\ Len(u) = 2 /\ u[1] = c /\ u[2] = d
    BY <1>2, <1>3 DEF WithOneMore
  <1>5. Sequence(t) /\ Len(t) = 2 /\ t[1] = c /\ t[2] = d
    <2>1. Sequence(t) /\ Len(t) = 2
      BY <1>1, SequenceOne
    <2>2. t[1] = c /\ t[2] = d
      BY <1>1
    <2> QED  BY <2>1, <2>2
  <1>6. \A k \in 1 .. Len(u) : u[k] = t[k]
    BY <1>4, <1>5
  <1>7. u = t
    BY <1>4, <1>5, <1>6, SequenceEqual
  <1> QED
    BY <1>1, <1>7

\* The text of a number has no NUL.
LEMMA BinstrNoNul ==
    ASSUME NEW x \in Nat, NEW t, GroupedText(x, t, BINSTR_SZ - 1)
    PROVE  /\ UpToNul(t) = t
           /\ \A k \in DOMAIN t : IF k % 5 = 0 THEN t[k] = "'" ELSE t[k] \in {"0", "1"}
  <1>1. PICK L \in Nat : L = LongBits
    BY PrintfAssumption
  <1>2. L % 4 = 0 /\ L > 1 /\ BINSTR_SZ - 1 = L + (L \div 4) - 1
    BY <1>1, PrintfAssumption DEF BINSTR_SZ
  <1>3. /\ Sequence(t) /\ DOMAIN t = 1 .. L + (L \div 4) - 1
        /\ \A k \in DOMAIN t : t[k] = Grouped(x, k)
    BY <1>2 DEF GroupedText, Sequence
  <1>4. ASSUME NEW k \in DOMAIN t
        PROVE  t[k] # NulChar /\ IF k % 5 = 0 THEN t[k] = "'" ELSE t[k] \in {"0", "1"}
    <2>1. k \in 1 .. L + (L \div 4) - 1 /\ t[k] = Grouped(x, k)
      BY <1>3
    <2>2. CASE k % 5 = 0
      BY <2>1, <2>2 DEF Grouped, NulChar
    <2>3. CASE k % 5 # 0
      <3>1. PICK n \in Nat : n = k - (k \div 5)
        BY <2>1
      <3>2. n <= LongBits
        BY <1>1, <1>2, <2>1, <2>3, <3>1
      <3>3. t[k] = Bit(x, n)
        BY <2>1, <2>3, <3>1 DEF Grouped
      <3>4. Bit(x, n) \in {"0", "1"} /\ Bit(x, n) # NulChar
        BY <3>2, BitIs
      <3> QED  BY <2>3, <3>3, <3>4
    <2> QED  BY <2>2, <2>3
  <1>5. NulChar \notin Range(t)
    BY <1>4 DEF Range
  <1> QED
    BY <1>4, <1>5 DEF UpToNul

\* print_binstr() prints "%s".
LEMMA BinstrFormat ==
    ASSUME NEW j \in Jobs, j.fn = "print_binstr"
    PROVE  FormatOf(j.lead, j.dirs) = <<"%", "s">> /\ j.dirs[1].int \in Nat
  <1>1. BinstrCall(j) /\ j.dirs \in Seq(Directives)
    BY PrintfAssumption
  <1>2. PICK d : d = j.dirs[1]
    OBVIOUS
  <1>3. j.lead = <<>> /\ j.dirs = <<Directive(<<>>, 0, <<>>, "s", d.int, <<>>)>>
    BY <1>1, <1>2 DEF BinstrCall
  <1>4. /\ DOMAIN j.dirs = 1 .. 1 /\ d = Directive(<<>>, 0, <<>>, "s", d.int, <<>>)
        /\ d \in Directives
    BY <1>1, <1>2, <1>3
  <1>5. d.flags = <<>> /\ d.width = 0 /\ d.mods = <<>> /\ d.conv = "s" /\ d.int \in Nat
    BY <1>4 DEF Directive, Directives
  <1> DEFINE width(k) == IF j.dirs[k].width = 0 THEN <<>> ELSE DigitsOf(j.dirs[k].width, 10)
             conv(k)  == IF j.dirs[k].conv = End THEN <<>> ELSE <<j.dirs[k].conv>>
             part(k)  == j.lead \o <<"%">> \o j.dirs[k].flags \o width(k) \o j.dirs[k].mods \o conv(k)
             ss == [k \in 1 .. 1 |-> part(k)]
  <1>6. FormatOf(j.lead, j.dirs) = FlattenSeq(ss)
    <2>1. FormatOf(j.lead, j.dirs) = FlattenSeq([k \in DOMAIN j.dirs |-> part(k)])
      BY Zenon DEF FormatOf
    <2> QED  BY <1>4, <2>1, Zenon
  <1>7. part(1) = <<"%", "s">>
    <2>1. width(1) = <<>> /\ conv(1) = <<"s">>
      BY <1>2, <1>5 DEF End
    <2>2. part(1) = <<>> \o <<"%">> \o <<>> \o <<>> \o <<>> \o <<"s">>
      <3> HIDE DEF width, conv
      <3> QED  BY <1>2, <1>3, <1>5, <2>1
    <2>3. PICK o : o = <<"%">>
      OBVIOUS
    <2>4. Sequence(o)
      BY <2>3, SequenceOne
    <2>5. <<>> \o o \o <<>> \o <<>> \o <<>> = o
      BY <2>4, ConcatNothing
    <2>6. <<"%">> \o <<"s">> = <<"%", "s">>
      BY ConcatOnes
    <2> HIDE DEF part
    <2> QED  BY <2>2, <2>3, <2>5, <2>6
  <1> HIDE DEF part
  <1>8. Sequences(ss, 1) /\ ss[1] = <<"%", "s">>
    <2>1. ss = [k \in 1 .. 1 |-> ss[k]] /\ ss[1] = <<"%", "s">>
      BY <1>7
    <2> HIDE DEF ss
    <2>2. Sequence(ss) /\ Len(ss) = 1
      BY <2>1, SequenceFcn
    <2>3. Sequence(ss[1])
      BY <2>1, SequenceOne
    <2> QED  BY <2>1, <2>2, <2>3 DEF Sequences
  <1> HIDE DEF ss
  <1>9. PICK P : P = Pre(ss)
    OBVIOUS
  <1>10. IsPre(P, ss) /\ FlattenSeq(ss) = P[1]
    BY <1>8, <1>9, FlattenPre
  <1>11. P[0] = <<>> /\ P[1] = P[0] \o ss[1]
    <2>1. Len(ss) = 1 /\ 1 \in 1 .. 1 /\ 1 - 1 = 0
      BY <1>8 DEF Sequences
    <2> QED  BY <1>10, <2>1 DEF IsPre
  <1>12. P[1] = <<"%", "s">>
    <2>1. Sequence(ss[1])
      BY <1>8, SequenceOne
    <2>2. <<>> \o ss[1] = ss[1]
      BY <2>1, ConcatNothing
    <2> QED  BY <1>8, <1>11, <2>2
  <1> QED
    BY <1>2, <1>5, <1>6, <1>10, <1>12

\* Where a call of print_binstr() is, and what it has.
BinstrInv ==
    job \in Jobs /\ (job.fn = "print_binstr" =>
        LET b     == binstr(job.dirs[1].int)
            empty == ps.buffer = <<>> /\ ps.remain = BUFSZ - 1
            arg   == args # <<>> /\ Head(args).str = b
        IN  \/ pc = "text" /\ fmt = <<"%", "s">> /\ empty /\ arg
            \/ pc = "spec" /\ fmt = <<"s">> /\ empty /\ arg /\ props = NoProps
            \/ pc \in {"text", "puts"} /\ fmt = <<>> /\ ps.buffer = b
            \/ pc = "done" /\ sent = b)

\* A call of print_binstr() starts there ...
LEMMA BinstrStarts == PrintfInit => BinstrInv
  <1> SUFFICES ASSUME PrintfInit, job.fn = "print_binstr"
               PROVE  BinstrInv
    BY DEF PrintfInit, BinstrInv
  <1>1. job \in Jobs /\ job.size = BUFSZ /\ BinstrCall(job) /\ job.dirs \in Seq(Directives)
    BY PrintfAssumption DEF PrintfInit
  <1>2. fmt = <<"%", "s">>
    BY <1>1, BinstrFormat DEF PrintfInit
  <1>3. pc = "text" /\ ps.buffer = <<>> /\ ps.remain = BUFSZ - 1
    BY <1>1 DEF PrintfInit
  <1>4. PICK d : d = job.dirs[1]
    OBVIOUS
  <1>5. d \in Directives
    <2>1. PICK e : e = Directive(<<>>, 0, <<>>, "s", job.dirs[1].int, <<>>)
      OBVIOUS
    <2>2. job.dirs = <<e>>
      BY <1>1, <2>1 DEF BinstrCall
    <2>3. Len(<<e>>) = 1
      OBVIOUS
    <2> QED  BY <1>1, <1>4, <2>2, <2>3
  <1>6. PICK b : b = binstr(d.int)
    OBVIOUS
  <1>7. PICK e : e = [d EXCEPT !.str = b]
    OBVIOUS
  <1>8. e.str = b
    BY <1>5, <1>7 DEF Directives
  <1>9. args = <<e>>
    BY <1>4, <1>6, <1>7 DEF PrintfInit
  <1>10. args # <<>> /\ Head(args) = e
    BY <1>9
  <1> QED
    BY <1>1, <1>2, <1>3, <1>4, <1>6, <1>8, <1>10 DEF BinstrInv

\* print_str() adds the text between its paddings ...
LEMMA PrintStrIs ==
    ASSUME NEW p, NEW str, NEW pr,
           NEW n, n = (IF pr.npad > 0 THEN pr.npad - Len(str) ELSE pr.npad),
           NEW r, r = (IF n < 0 THEN RightPad(n, Len(str)) ELSE 0)
    PROVE  print_str(p, str, pr) = addchars(p, Times(pr.pad, n) \o str \o Times(" ", r))
  BY Zenon DEF print_str

\* ... and nothing else where there is no width.
LEMMA PrintStrPlain ==
    ASSUME NEW p, NEW str, Sequence(str), NEW pr, pr.npad = 0
    PROVE  print_str(p, str, pr) = addchars(p, str)
  <1>1. \A c : Times(c, 0) = <<>>
    BY DEF Times
  <1>2. PICK n : n = (IF pr.npad > 0 THEN pr.npad - Len(str) ELSE pr.npad)
    OBVIOUS
  <1>3. PICK r : r = (IF n < 0 THEN RightPad(n, Len(str)) ELSE 0)
    OBVIOUS
  <1>4. n = 0
    BY <1>2
  <1>5. r = 0
    BY <1>3, <1>4
  <1>6. print_str(p, str, pr) = addchars(p, Times(pr.pad, n) \o str \o Times(" ", r))
    BY <1>2, <1>3, PrintStrIs, ZenonT(40)
  <1>7. Times(pr.pad, n) = <<>> /\ Times(" ", r) = <<>>
    BY <1>1, <1>4, <1>5
  <1>8. <<>> \o str \o <<>> = str
    BY ConcatNothing
  <1> QED
    BY <1>6, <1>7, <1>8

\* An array of BINSTR_SZ fits into the buffer of printf().
LEMMA BinstrPrinted ==
    ASSUME NEW p, p.buffer = <<>>, p.remain = BUFSZ - 1, NEW b, Sequence(b), Len(b) = BINSTR_SZ - 1
    PROVE  print_str(p, b, NoProps).buffer = b
  <1>5. print_str(p, b, NoProps) = addchars(p, b)
    <2>1. NoProps.npad = 0
      BY DEF NoProps
    <2> QED  BY <2>1, PrintStrPlain
  <1>6. Len(b) \in Nat /\ BUFSZ \in Nat /\ Len(b) <= BUFSZ - 1
    BY PrintfAssumption, SequenceLen DEF BINSTR_SZ
  <1>7. Stored(p, Len(b)) = Len(b)
    BY <1>6 DEF Stored
  <1>8. addchars(p, b).buffer = <<>> \o SubSeq(b, 1, Len(b))
    BY <1>7 DEF addchars
  <1>9. SubSeq(b, 1, Len(b)) = b
    <2>1. PICK S : b \in Seq(S)
      BY DEF Sequence
    <2> QED  BY <2>1
  <1> QED
    BY <1>5, <1>8, <1>9, ConcatNothing

\* ... and stays there.
LEMMA BinstrSteps == BinstrInv /\ [PrintfStep \/ PrintfReturned]_printfVars => BinstrInv'
  <1> SUFFICES ASSUME BinstrInv, [PrintfStep \/ PrintfReturned]_printfVars
               PROVE  BinstrInv'
    OBVIOUS
  <1>1. job' = job /\ job \in Jobs
    BY DEF BinstrInv, PrintfStep, PrintfReturned, printfVars, Literal, Percent, FlagHash, FlagZero,
           FlagNumber, ModLong, ModSize, ReadsOn, Converts, ConvInt, ConvUnsigned, ConvPointer,
           ConvString, ConvChar, ConvOther, SpecEnds, Finish, Puts
  <1>2. CASE job.fn # "print_binstr"
    BY <1>1, <1>2 DEF BinstrInv
  <1>3. CASE job.fn = "print_binstr"
    <2>1. PICK x \in Nat : x = job.dirs[1].int
      BY <1>1, <1>3, BinstrFormat
    <2>2. PICK b : b = binstr(x)
      OBVIOUS
    <2>3. GroupedText(x, b, BINSTR_SZ - 1)
      BY <2>2, BinstrIs
    <2> DEFINE empty == ps.buffer = <<>> /\ ps.remain = BUFSZ - 1
               arg   == args # <<>> /\ Head(args).str = b
    <2>4. \/ pc = "text" /\ fmt = <<"%", "s">> /\ empty /\ arg
          \/ pc = "spec" /\ fmt = <<"s">> /\ empty /\ arg /\ props = NoProps
          \/ pc \in {"text", "puts"} /\ fmt = <<>> /\ ps.buffer = b
          \/ pc = "done" /\ sent = b
      BY <1>3, <2>1, <2>2 DEF BinstrInv
    <2>5. ASSUME \/ pc' = "text" /\ fmt' = <<"%", "s">> /\ empty' /\ arg'
                 \/ pc' = "spec" /\ fmt' = <<"s">> /\ empty' /\ arg' /\ props' = NoProps
                 \/ pc' \in {"text", "puts"} /\ fmt' = <<>> /\ ps'.buffer = b
                 \/ pc' = "done" /\ sent' = b
          PROVE  BinstrInv'
      BY <1>1, <1>3, <2>1, <2>2, <2>5 DEF BinstrInv
    <2>6. CASE UNCHANGED printfVars \/ PrintfReturned
      <3>1. pc' = pc /\ fmt' = fmt /\ ps' = ps /\ args' = args /\ props' = props /\ sent' = sent
        BY <2>6 DEF printfVars, PrintfReturned
      <3> QED  BY <2>4, <2>5, <3>1
    <2>7. CASE PrintfStep
      <3>1. CASE pc = "text" /\ fmt = <<"%", "s">> /\ empty /\ arg
        <4>1. fmt # <<>> /\ Head(fmt) = "%" /\ Tail(fmt) = <<"s">>
          BY <3>1
        <4>2. Percent
          BY <2>7, <3>1, <4>1 DEF PrintfStep, Literal, FlagHash, FlagZero,
             FlagNumber, ModLong, ModSize, ReadsOn, Converts, ConvInt, ConvUnsigned, ConvPointer,
             ConvString, ConvChar, ConvOther, SpecEnds, Finish, Puts
        <4>3. pc' = "spec" /\ props' = NoProps /\ fmt' = <<"s">> /\ ps' = ps /\ args' = args
          BY <4>1, <4>2 DEF Percent
        <4> QED  BY <2>5, <3>1, <4>3
      <3>2. CASE pc = "spec" /\ fmt = <<"s">> /\ empty /\ arg /\ props = NoProps
        <4>1. fmt # <<>> /\ Head(fmt) = "s" /\ Tail(fmt) = <<>>
          BY <3>2
        <4>2. "s" \notin DecDigit
          BY DEF DecDigit, digit, digits
        <4>3. ConvString
          BY <2>7, <3>2, <4>1, <4>2 DEF PrintfStep, Literal, Percent, FlagHash, FlagZero,
             FlagNumber, ModLong, ModSize, ReadsOn, Converts, ConvInt, ConvUnsigned, ConvPointer,
             ConvChar, ConvOther, Letters, SpecEnds, Finish, Puts
        <4>4. pc' = "text" /\ fmt' = <<>> /\ ps' = print_str(ps, b, NoProps)
          BY <3>2, <4>1, <4>3 DEF ConvString, Converts
        <4>5. ps'.buffer = b
          BY <2>3, <3>2, <4>4, BinstrPrinted DEF GroupedText
        <4> QED  BY <2>5, <4>4, <4>5
      <3>3. CASE pc \in {"text", "puts"} /\ fmt = <<>> /\ ps.buffer = b
        <4>1. Finish \/ Puts
          BY <2>7, <3>3 DEF PrintfStep, Literal, Percent, FlagHash, FlagZero,
             FlagNumber, ModLong, ModSize, ReadsOn, Converts, ConvInt, ConvUnsigned, ConvPointer,
             ConvString, ConvChar, ConvOther, SpecEnds
        <4>2. CASE Finish
          BY <1>3, <2>5, <3>3, <4>2 DEF Finish
        <4>3. CASE Puts
          <5>1. pc' = "done" /\ sent' = UpToNul(b)
            BY <3>3, <4>3 DEF Puts
          <5>2. UpToNul(b) = b
            BY <2>3, BinstrNoNul
          <5> QED  BY <2>5, <5>1, <5>2
        <4> QED  BY <4>1, <4>2, <4>3
      <3>4. CASE pc = "done" /\ sent = b
        BY <2>7, <3>4 DEF PrintfStep, Literal, Percent, FlagHash, FlagZero,
           FlagNumber, ModLong, ModSize, ReadsOn, Converts, ConvInt, ConvUnsigned, ConvPointer,
           ConvString, ConvChar, ConvOther, SpecEnds, Finish, Puts
      <3> QED  BY <2>4, <3>1, <3>2, <3>3, <3>4
    <2> QED  BY <2>6, <2>7
  <1> QED
    BY <1>2, <1>3

\* print_binstr() hands on the bits of its number: its array is filled, its
\* separators are where defs.h puts them, and the text is the number.
THEOREM PrintfBinstrFills == PrintfSpec => []BinstrFills
  <1>1. BinstrInv => BinstrFills
    <2> SUFFICES ASSUME BinstrInv, job.fn = "print_binstr", pc = "done"
                 PROVE  /\ Len(sent) + 1 = BINSTR_SZ
                        /\ \A k \in DOMAIN sent :
                              IF k % 5 = 0 THEN sent[k] = "'" ELSE sent[k] \in {"0", "1"}
                        /\ ReadBack(sent) = job.dirs[1].int
      BY DEF BinstrFills
    <2>1. PICK x \in Nat : x = job.dirs[1].int
      BY BinstrFormat DEF BinstrInv
    <2>2. x < Pow2[LongBits]
      BY <2>1, PrintfAssumption DEF BinstrInv, BinstrCall
    <2>3. sent = binstr(x)
      BY <2>1 DEF BinstrInv
    <2>4. GroupedText(x, sent, BINSTR_SZ - 1)
      BY <2>3, BinstrIs
    <2>5. Len(sent) + 1 = BINSTR_SZ
      <3>1. BINSTR_SZ \in Int
        BY PrintfAssumption DEF BINSTR_SZ
      <3> QED  BY <2>4, <3>1 DEF GroupedText
    <2>6. \A k \in DOMAIN sent : IF k % 5 = 0 THEN sent[k] = "'" ELSE sent[k] \in {"0", "1"}
      BY <2>4, BinstrNoNul
    <2>7. ReadBack(sent) = x
      BY <2>2, <2>4, ReadsBits
    <2> QED  BY <2>1, <2>5, <2>6, <2>7
  <1> QED
    BY BinstrStarts, BinstrSteps, <1>1, PTL DEF PrintfSpec

-----------------------------------------------------------------------------
(* Printf: the text of the stream. *)

\* The stream p has been given the text t: what fits is in the buffer.
Kept(t, size) == IF Len(t) < size THEN Len(t) ELSE size - 1
Given(p, t, size) ==
    /\ Sequence(t) /\ p.added = Len(t) /\ p.buffer = SubSeq(t, 1, Kept(t, size))
    /\ p.remain = size - 1 - Kept(t, size)

\* u is the part of s that has l elements from m + 1 on.
Slice(u, s, m, l) == Sequence(u) /\ Len(u) = l /\ \A k \in 1 .. l : u[k] = s[m + k]

\* A part of a sequence, element by element ...
LEMMA PartAt ==
    ASSUME NEW s, Sequence(s), NEW m \in Nat, NEW l \in Nat, m + l <= Len(s),
           NEW u, u = SubSeq(s, m + 1, m + l)
    PROVE  Slice(u, s, m, l)
  <1>1. PICK S : s \in Seq(S)
    BY DEF Sequence
  <1>2. Sequence(u) /\ Len(u) = l
    <2>1. PICK pos \in Int, j \in Int : pos = m + 1 /\ j = m + l
      OBVIOUS
    <2>2. Sequence(SubSeq(s, pos, j)) /\ Len(SubSeq(s, pos, j)) = IF pos <= j THEN j - pos + 1 ELSE 0
      BY SequencePart
    <2> QED  BY <2>1, <2>2
  <1>3. \A k \in 1 .. l : u[k] = s[m + k]
    <2>1. CASE l > 0
      <3>1. \A pos \in 1 .. Len(u) : u[pos] = s[(m + 1) + pos - 1]
        BY <1>1, <1>2, <2>1, SubSeqProperties
      <3> QED  BY <1>2, <3>1
    <2>2. CASE l = 0
      BY <2>2
    <2> QED  BY <2>1, <2>2
  <1> QED
    BY <1>2, <1>3 DEF Slice

\* ... or its beginning.
LEMMA PrefixAt ==
    ASSUME NEW s, Sequence(s), NEW n \in Nat, n <= Len(s), NEW u, u = SubSeq(s, 1, n)
    PROVE  Sequence(u) /\ Len(u) = n /\ \A k \in 1 .. n : u[k] = s[k]
  <1>1. 0 \in Nat /\ 0 + n <= Len(s) /\ 0 + 1 = 1 /\ 0 + n = n
    BY SequenceLen
  <1>2. Slice(u, s, 0, n)
    BY <1>1, PartAt
  <1> QED
    BY <1>2 DEF Slice

\* Beginnings of two sequences, joined.
LEMMA ConcatParts ==
    ASSUME NEW s, Sequence(s), NEW t, Sequence(t), NEW n \in 0 .. Len(t)
    PROVE  s \o SubSeq(t, 1, n) = SubSeq(s \o t, 1, Len(s) + n)
  <1>1. PICK a \in Nat : a = Len(s)
    BY SequenceLen
  <1>2. PICK b \in Nat : b = Len(t)
    BY SequenceLen
  <1>3. PICK v : v = s \o t
    OBVIOUS
  <1>4. Sequence(v) /\ Len(v) = a + b
    BY <1>1, <1>2, <1>3, SequenceConcat
  <1>5. \A k \in 1 .. a + b : v[k] = IF k <= a THEN s[k] ELSE t[k - a]
    <2>1. ASSUME NEW k \in 1 .. Len(s) + Len(t)
          PROVE  (s \o t)[k] = IF k <= Len(s) THEN s[k] ELSE t[k - Len(s)]
      BY ConcatAt
    <2> QED  BY <1>1, <1>2, <1>3, <2>1
  <1>6. PICK u : u = SubSeq(t, 1, n)
    OBVIOUS
  <1>7. n \in Nat /\ n <= b /\ 1 \in Nat
    BY <1>2
  <1>8. Sequence(u) /\ Len(u) = n /\ \A k \in 1 .. n : u[k] = t[k]
    BY <1>2, <1>6, <1>7, PrefixAt
  <1>9. PICK w : w = SubSeq(v, 1, a + n)
    OBVIOUS
  <1>10. Sequence(w) /\ Len(w) = a + n /\ \A k \in 1 .. a + n : w[k] = v[k]
    <2>1. a + n \in Nat /\ a + n <= Len(v)
      BY <1>4, <1>7
    <2> QED  BY <1>4, <1>9, <2>1, PrefixAt
  <1>11. PICK z : z = s \o u
    OBVIOUS
  <1>12. Sequence(z) /\ Len(z) = a + n
    BY <1>1, <1>8, <1>11, SequenceConcat
  <1>13. \A k \in 1 .. a + n : z[k] = IF k <= a THEN s[k] ELSE u[k - a]
    <2>1. ASSUME NEW k \in 1 .. Len(s) + Len(u)
          PROVE  (s \o u)[k] = IF k <= Len(s) THEN s[k] ELSE u[k - Len(s)]
      BY <1>8, ConcatAt
    <2> QED  BY <1>1, <1>8, <1>11, <2>1
  <1>14. \A k \in 1 .. a + n : z[k] = w[k]
    BY <1>5, <1>7, <1>8, <1>10, <1>13
  <1>15. z = w
    BY <1>10, <1>12, <1>14, SequenceEqual
  <1> QED
    BY <1>1, <1>3, <1>6, <1>9, <1>11, <1>15

\* All of a sequence.
LEMMA WholePart ==
    ASSUME NEW s, Sequence(s)
    PROVE  SubSeq(s, 1, Len(s)) = s
  <1>1. PICK S : s \in Seq(S)
    BY DEF Sequence
  <1> QED
    BY <1>1

\* The first part of a longer sequence.
LEMMA FirstPart ==
    ASSUME NEW s, Sequence(s), NEW t, Sequence(t), NEW n \in 0 .. Len(s)
    PROVE  SubSeq(s \o t, 1, n) = SubSeq(s, 1, n)
  <1>1. PICK a \in Nat : a = Len(s)
    BY SequenceLen
  <1>2. PICK b \in Nat : b = Len(t)
    BY SequenceLen
  <1>3. PICK v : v = s \o t
    OBVIOUS
  <1>4. Sequence(v) /\ Len(v) = a + b
    BY <1>1, <1>2, <1>3, SequenceConcat
  <1>5. \A k \in 1 .. a : v[k] = s[k]
    <2>1. ASSUME NEW k \in 1 .. Len(s) + Len(t)
          PROVE  (s \o t)[k] = IF k <= Len(s) THEN s[k] ELSE t[k - Len(s)]
      BY ConcatAt
    <2> QED  BY <1>1, <1>2, <1>3, <2>1
  <1>6. n \in Nat /\ n <= a /\ 1 \in Nat /\ n <= a + b
    BY <1>1, <1>2
  <1>7. PICK u, w : u = SubSeq(s, 1, n) /\ w = SubSeq(v, 1, n)
    OBVIOUS
  <1>8. Sequence(u) /\ Len(u) = n /\ \A k \in 1 .. n : u[k] = s[k]
    BY <1>1, <1>6, <1>7, PrefixAt
  <1>9. Sequence(w) /\ Len(w) = n /\ \A k \in 1 .. n : w[k] = v[k]
    BY <1>4, <1>6, <1>7, PrefixAt
  <1>10. \A k \in 1 .. n : u[k] = w[k]
    BY <1>5, <1>6, <1>8, <1>9
  <1>11. u = w
    BY <1>8, <1>9, <1>10, SequenceEqual
  <1> QED
    BY <1>3, <1>7, <1>11

\* Adding text gives the stream more of it.
LEMMA AddsGiven ==
    ASSUME NEW size \in Nat \ {0}, NEW p, NEW t, Given(p, t, size), NEW u, Sequence(u)
    PROVE  Given(addchars(p, u), t \o u, size)
  <1>1. PICK a \in Nat : a = Len(t)
    BY SequenceLen DEF Given
  <1>2. PICK b \in Nat : b = Len(u)
    BY SequenceLen
  <1>3. PICK m : m = Kept(t, size)
    OBVIOUS
  <1>3a. m = (IF a < size THEN a ELSE size - 1) /\ m \in Nat
    BY <1>1, <1>3 DEF Kept
  <1>4. Sequence(t) /\ p.added = a /\ p.buffer = SubSeq(t, 1, m) /\ p.remain = size - 1 - m
    BY <1>1, <1>3 DEF Given
  <1>5. PICK n : n = Stored(p, b)
    OBVIOUS
  <1>5a. n = (IF b <= size - 1 - m THEN b ELSE size - 1 - m) /\ n \in Nat /\ n <= b
    BY <1>3a, <1>4, <1>5 DEF Stored
  <1>6. PICK q : q = addchars(p, u)
    OBVIOUS
  <1>6a. q.buffer = p.buffer \o SubSeq(u, 1, n) /\ q.remain = p.remain - n /\ q.added = p.added + b
    BY <1>2, <1>5, <1>6 DEF addchars
  <1>7. PICK v : v = t \o u
    OBVIOUS
  <1>7a. Sequence(v) /\ Len(v) = a + b
    BY <1>1, <1>2, <1>4, <1>7, SequenceConcat
  <1>8. PICK f : f = Kept(v, size)
    OBVIOUS
  <1>8a. f = m + n /\ f \in Nat
    BY <1>3a, <1>5a, <1>7a, <1>8 DEF Kept
  <1>9. q.buffer = SubSeq(v, 1, f)
    <2>1. CASE a < size
      <3>1. m = a /\ SubSeq(t, 1, m) = t
        BY <1>1, <1>3a, <1>4, <2>1, WholePart
      <3>2. n \in 0 .. Len(u)
        BY <1>2, <1>5a
      <3>3. t \o SubSeq(u, 1, n) = SubSeq(t \o u, 1, Len(t) + n)
        BY <1>4, <3>2, ConcatParts
      <3> QED  BY <1>1, <1>4, <1>6a, <1>7, <1>8a, <3>1, <3>3
    <2>2. CASE ~(a < size)
      <3>1. m = size - 1 /\ n = 0 /\ f = m
        BY <1>3a, <1>5a, <1>8a, <2>2
      <3>2. SubSeq(u, 1, 0) = <<>>
        <4>1. Sequence(SubSeq(u, 1, 0)) /\ Len(SubSeq(u, 1, 0)) = 0
          BY SequencePart
        <4> QED  BY <4>1, EmptySeq DEF Sequence
      <3>3. m \in 0 .. Len(t)
        BY <1>1, <1>3a, <2>2
      <3>4. SubSeq(t \o u, 1, m) = SubSeq(t, 1, m)
        BY <1>4, <3>3, FirstPart
      <3>5. Sequence(SubSeq(t, 1, m))
        BY <1>3a, SequencePart
      <3>6. SubSeq(t, 1, m) \o <<>> = SubSeq(t, 1, m)
        BY <3>5, ConcatNothing
      <3> QED  BY <1>4, <1>6a, <1>7, <3>1, <3>2, <3>4, <3>6
    <2> QED  BY <2>1, <2>2
  <1>10. q.added = a + b /\ q.remain = size - 1 - f
    BY <1>3a, <1>4, <1>5a, <1>6a, <1>8a
  <1>11. Given(q, v, size)
    BY <1>7a, <1>8, <1>9, <1>10 DEF Given
  <1> QED
    BY <1>6, <1>7, <1>11

-----------------------------------------------------------------------------
(* Printf: numbers read back. *)

\* The characters of two strings joined.
LEMMA CharAtConcat ==
    ASSUME NEW h, Sequence(h), NEW r, Sequence(r), NEW k \in Nat \ {0}
    PROVE  CharAt(h \o r, k) = IF k <= Len(h) THEN h[k] ELSE CharAt(r, k - Len(h))
  <1>1. PICK a \in Nat : a = Len(h)
    BY SequenceLen
  <1>2. PICK b \in Nat : b = Len(r)
    BY SequenceLen
  <1>3. PICK f : f = h \o r
    OBVIOUS
  <1>4. Sequence(f) /\ Len(f) = a + b
    BY <1>1, <1>2, <1>3, SequenceConcat
  <1>5. k <= a + b => f[k] = IF k <= a THEN h[k] ELSE r[k - a]
    <2>1. ASSUME k \in 1 .. Len(h) + Len(r)
          PROVE  (h \o r)[k] = IF k <= Len(h) THEN h[k] ELSE r[k - Len(h)]
      BY <2>1, ConcatAt
    <2> QED  BY <1>1, <1>2, <1>3, <2>1
  <1>6. CASE k <= a + b
    <2>1. CharAt(f, k) = f[k]
      BY <1>4, <1>6 DEF CharAt
    <2>2. ~(k <= a) => CharAt(r, k - a) = r[k - a]
      BY <1>2, <1>6 DEF CharAt
    <2> QED  BY <1>1, <1>3, <1>5, <1>6, <2>1, <2>2
  <1>7. CASE ~(k <= a + b)
    <2>1. CharAt(f, k) = NulChar
      BY <1>4, <1>7 DEF CharAt
    <2>2. ~(k <= a) /\ CharAt(r, k - a) = NulChar
      BY <1>2, <1>7 DEF CharAt
    <2> QED  BY <1>1, <1>3, <2>1, <2>2
  <1> QED
    BY <1>6, <1>7

\* What is left when the first of two sequences is taken away.
LEMMA DropFirst ==
    ASSUME NEW h, Sequence(h), NEW r, Sequence(r)
    PROVE  SubSeq(h \o r, Len(h) + 1, Len(h \o r)) = r
  <1>1. PICK a \in Nat : a = Len(h)
    BY SequenceLen
  <1>2. PICK b \in Nat : b = Len(r)
    BY SequenceLen
  <1>3. PICK f : f = h \o r
    OBVIOUS
  <1>4. Sequence(f) /\ Len(f) = a + b
    BY <1>1, <1>2, <1>3, SequenceConcat
  <1>5. PICK u : u = SubSeq(f, a + 1, a + b)
    OBVIOUS
  <1>6. Slice(u, f, a, b)
    <2>1. a + b <= Len(f)
      BY <1>4
    <2> QED  BY <1>4, <1>5, <2>1, PartAt
  <1>7. Sequence(u) /\ Len(u) = b /\ \A k \in 1 .. b : u[k] = f[a + k]
    BY <1>6 DEF Slice
  <1>8. ASSUME NEW k \in 1 .. b PROVE u[k] = r[k]
    <2>1. a + k \in 1 .. Len(h) + Len(r) /\ ~(a + k <= Len(h)) /\ (a + k) - Len(h) = k
      BY <1>1, <1>2
    <2>2. (h \o r)[a + k] = IF a + k <= Len(h) THEN h[a + k] ELSE r[(a + k) - Len(h)]
      BY <2>1, ConcatAt
    <2> QED  BY <1>3, <1>7, <2>1, <2>2
  <1>9. u = r
    BY <1>2, <1>7, <1>8, SequenceEqual
  <1> QED
    BY <1>1, <1>3, <1>4, <1>5, <1>9

\* A digit stands for its number, and is no sign, blank or letter.
LEMMA DigitIs ==
    ASSUME NEW w \in 0 .. 9
    PROVE  /\ digit(w) \in DecDigit /\ DigitValue[digit(w)] = w
           /\ digit(w) \notin {"-", "+", " ", "\t", NulChar, "#"}
           /\ (digit(w) = "0" <=> w = 0)
  <1>1. \A n \in 0 .. 9, m \in 0 .. 9 : digit(n) = digit(m) => n = m
    BY DEF digit, digits
  <1>2. digit(w) \in DecDigit
    BY DEF DecDigit
  <1>3. DigitValue[digit(w)] = w
    <2> DEFINE m == CHOOSE n \in 0 .. 9 : digit(n) = digit(w)
    <2>1. m \in 0 .. 9 /\ digit(m) = digit(w)
      BY Zenon
    <2>2. DigitValue[digit(w)] = m
      BY <1>2 DEF DigitValue
    <2> HIDE DEF m
    <2> QED  BY <1>1, <2>1, <2>2
  <1>4. digit(w) \notin {"-", "+", " ", "\t", NulChar, "#"}
    <2>1. digit(w) \in {"0", "1", "2", "3", "4", "5", "6", "7", "8", "9"}
      BY DEF digit, digits
    <2> QED  BY <2>1 DEF NulChar
  <1>5. digit(w) = "0" <=> w = 0
    BY DEF digit, digits
  <1> QED
    BY <1>2, <1>3, <1>4, <1>5

\* What atol() skips and reads in t: y[k] is the value of the first k digits.
AtolText(t, a, g, m, y) ==
    /\ a \in Nat /\ \A k \in 1 .. a : CharAt(t, k) \in Blank
    /\ CharAt(t, a + 1) \notin Blank
    /\ g = IF CharAt(t, a + 1) \in {"-", "+"} THEN a + 2 ELSE a + 1
    /\ m \in Nat /\ (\A k \in 0 .. m - 1 : g + k \in DigitAt(t)) /\ g + m \notin DigitAt(t)
    /\ y \in [Nat -> Nat] /\ y[0] = 0
    /\ \A k \in 0 .. m - 1 : y[k + 1] = y[k] * 10 + ValueAt(t)[g + k]

\* atol() reads the digits behind the blanks and the sign.
LEMMA AtolReads ==
    ASSUME NEW t, Sequence(t), NEW a, NEW g, NEW m, NEW y, AtolText(t, a, g, m, y)
    PROVE  atol(t) = (IF CharAt(t, a + 1) = "-" THEN -1 ELSE 1) * y[m]
  <1> USE DEF AtolText
  <1>1. PICK start, acc : AtolBy(t, start, acc)
    BY AtolLoops
  <1>2. PICK e \in Nat : e = a + 1
    OBVIOUS
  <1>3. start[1] = e
    <2>1. PICK dom : dom = Nat
      OBVIOUS
    <2>2. Searches(start, dom, NotBlank(t), Itself)
      BY <1>1, <2>1 DEF AtolBy
    <2>3. e \in NotBlank(t) /\ \A n \in 1 .. e - 1 : n \notin NotBlank(t)
      BY <1>2 DEF NotBlank
    <2>4. 1 \in Nat /\ e >= 1 /\ \A n \in 1 .. e : n \in dom
      BY <1>2, <2>1
    <2>5. start[1] = Itself[e]
      BY <2>2, <2>3, <2>4, SearchFinds
    <2> QED  BY <2>5 DEF Itself
  <1>4. g \in Nat
    OBVIOUS
  <1>5. PICK E, v : E = DigitAt(t) /\ v = ValueAt(t)
    OBVIOUS
  <1>6. Accumulates(acc, E, v)
    BY <1>1, <1>5 DEF AtolBy
  <1>7. ASSUME NEW k \in Nat, NEW n \in Nat
        PROVE  acc[<<k, n>>] = IF k \in E THEN acc[<<k + 1, n * 10 + v[k]>>] ELSE n
    <2>1. <<k, n>> \in Nat \X Nat
      OBVIOUS
    <2> QED  BY <1>6, <2>1 DEF Accumulates
  <1> DEFINE Same(k) == acc[<<g, 0>>] = acc[<<g + k, y[k]>>]
             T == {k \in Nat : k <= m => Same(k)}
  <1>8. 0 \in T
    <2>1. Same(0)
      BY <1>4
    <2> HIDE DEF Same
    <2> QED  BY <2>1
  <1>9. ASSUME NEW k \in Nat, k \in T PROVE k + 1 \in T
    <2>1. ASSUME k + 1 <= m PROVE Same(k + 1)
      <3>1. PICK n \in Nat : n = y[k]
        OBVIOUS
      <3>2. Same(k)
        <4> HIDE DEF Same
        <4> QED  BY <1>9, <2>1
      <3>3. k \in 0 .. m - 1
        BY <2>1
      <3>4. PICK c \in Nat : c = g + k
        BY <1>4
      <3>5. c \in E /\ y[k + 1] = n * 10 + v[c]
        BY <1>5, <3>1, <3>3, <3>4
      <3>6. acc[<<c, n>>] = acc[<<c + 1, n * 10 + v[c]>>]
        BY <1>7, <3>5
      <3>7. c + 1 = g + (k + 1)
        BY <1>4, <3>4
      <3> QED  BY <3>1, <3>2, <3>4, <3>5, <3>6, <3>7
    <2> HIDE DEF Same
    <2> QED  BY <2>1
  <1> HIDE DEF T
  <1>10. Nat \subseteq T
    BY <1>8, <1>9, SetInduction
  <1>11. Same(m)
    <2> HIDE DEF Same
    <2> QED  BY <1>10 DEF T
  <1>12. acc[<<g + m, y[m]>>] = y[m]
    <2>0. PICK c \in Nat : c = g + m
      BY <1>4
    <2>1. PICK n \in Nat : n = y[m]
      OBVIOUS
    <2>2. c \notin E
      BY <1>5, <2>0
    <2> QED  BY <1>7, <2>0, <2>1, <2>2
  <1>13. acc[<<g, 0>>] = y[m]
    BY <1>11, <1>12
  <1>14. g = IF CharAt(t, e) \in {"-", "+"} THEN e + 1 ELSE e
    BY <1>2
  <1>15. atol(t) = (IF CharAt(t, e) = "-" THEN -1 ELSE 1) * acc[<<g, 0>>]
    BY <1>1, <1>3, <1>14, Zenon DEF AtolBy
  <1> QED
    BY <1>2, <1>13, <1>15

\* One more digit of n.
LEMMA TenTimes ==
    ASSUME NEW p, ArePowers(p, 10), NEW n \in Nat, NEW j \in Nat
    PROVE  /\ n \div p[j] \in Nat /\ n \div p[j + 1] \in Nat
           /\ (n \div p[j]) % 10 \in 0 .. 9
           /\ n \div p[j] = (n \div p[j + 1]) * 10 + ((n \div p[j]) % 10)
  <1>1. PICK y \in Nat \ {0} : y = p[j]
    BY DEF ArePowers
  <1>2. p[j + 1] = 10 * y
    BY <1>1 DEF ArePowers
  <1>3. PICK ten \in Nat \ {0} : ten = 10
    OBVIOUS
  <1>4. n \div (ten * y) = (n \div y) \div ten
    BY DivDiv, Zenon
  <1>5. PICK z \in Nat : z = n \div y
    OBVIOUS
  <1>6. n \div p[j] = z /\ n \div p[j + 1] = z \div 10
    BY <1>1, <1>2, <1>3, <1>4, <1>5
  <1>7. z \div 10 \in Nat /\ (z % 10) \in 0 .. 9 /\ z = (z \div 10) * 10 + (z % 10)
    OBVIOUS
  <1> QED
    BY <1>6, <1>7

\* A number as %d prints it: blanks, a sign, the digits, and no digit behind.
NumberText(t, a, s, D, m) ==
    /\ \A k \in 1 .. a : CharAt(t, k) = " "
    /\ s = 1 => CharAt(t, a + 1) = "-"
    /\ \A k \in 1 .. m : CharAt(t, a + s + k) = D[k]
    /\ CharAt(t, a + s + m + 1) \notin DecDigit

\* atol() reads the number back.
LEMMA DigitsRead ==
    ASSUME NEW p, ArePowers(p, 10), NEW n \in Nat, NEW D, NEW m, Digits(D, n, 10, p, m),
           NEW t, Sequence(t), NEW a \in Nat, NEW s \in 0 .. 1, NumberText(t, a, s, D, m)
    PROVE  atol(t) = IF s = 0 THEN n ELSE -n
  <1>1. m \in Nat \ {0} /\ n < p[m] /\ \A k \in 1 .. m : D[k] = digit((n \div p[m - k]) % 10)
    BY DEF Digits, Length
  <1>2. PICK g \in Nat : g = a + s + 1
    OBVIOUS
  <1>3. \A k \in 1 .. a : CharAt(t, k) \in Blank
    BY DEF NumberText, Blank
  <1> DEFINE v(k) == (n \div p[m - k]) % 10
             y == [k \in Nat |-> IF k <= m THEN n \div p[m - k] ELSE 0]
  <1>4. ASSUME NEW k \in 1 .. m
        PROVE  /\ v(k) \in 0 .. 9 /\ D[k] = digit(v(k))
               /\ n \div p[m - k] = (n \div p[m - (k - 1)]) * 10 + v(k)
    <2>1. PICK j \in Nat : j = m - k
      BY <1>1
    <2>2. j + 1 = m - (k - 1)
      BY <1>1, <2>1
    <2>3. /\ (n \div p[j]) % 10 \in 0 .. 9
          /\ n \div p[j] = (n \div p[j + 1]) * 10 + ((n \div p[j]) % 10)
      BY TenTimes
    <2> QED  BY <1>1, <2>1, <2>2, <2>3
  <1>5. y \in [Nat -> Nat]
    <2>1. ASSUME NEW k \in Nat, k <= m PROVE n \div p[m - k] \in Nat
      <3>1. PICK j \in Nat : j = m - k
        BY <1>1, <2>1
      <3> QED  BY <3>1, TenTimes
    <2> QED  BY <2>1
  <1>6. y[0] = 0
    <2>1. PICK q \in Nat \ {0} : q = p[m]
      BY <1>1 DEF ArePowers
    <2>2. n \in 0 .. q - 1 /\ q * 0 + n = n
      BY <1>1, <2>1
    <2>3. n \div q = 0
      BY <2>2, Quotient
    <2> QED  BY <1>1, <2>1, <2>3
  <1>7. y[m] = n
    <2>1. p[m - m] = 1 /\ n \div 1 = n
      BY <1>1 DEF ArePowers
    <2> QED  BY <1>1, <2>1
  <1>8. ASSUME NEW k \in 0 .. m - 1
        PROVE  g + k \in DigitAt(t) /\ y[k + 1] = y[k] * 10 + ValueAt(t)[g + k]
    <2>1. PICK j \in 1 .. m : j = k + 1
      BY <1>1
    <2>2. g + k = a + s + j /\ g + k \in Nat /\ k = j - 1 /\ k \in Nat /\ k <= m /\ j \in Nat /\ j <= m
      BY <1>1, <1>2, <2>1
    <2>3. CharAt(t, g + k) = D[j]
      BY <2>2 DEF NumberText
    <2>4. PICK x \in 0 .. 9 : x = v(j)
      BY <1>4
    <2>5. CharAt(t, g + k) = digit(x)
      BY <1>4, <2>3, <2>4
    <2>6. digit(x) \in DecDigit /\ DigitValue[digit(x)] = x
      BY DigitIs
    <2>7. g + k \in DigitAt(t) /\ ValueAt(t)[g + k] = x
      BY <2>2, <2>5, <2>6 DEF DigitAt, ValueAt
    <2>8. y[j] = n \div p[m - j] /\ y[k] = n \div p[m - (j - 1)]
      BY <2>2
    <2>9. y[j] = y[k] * 10 + x
      <3> HIDE DEF y
      <3>1. n \div p[m - j] = (n \div p[m - (j - 1)]) * 10 + v(j)
        BY <1>4
      <3> HIDE DEF v
      <3> QED  BY <2>4, <2>8, <3>1
    <2> HIDE DEF y, v
    <2> QED  BY <2>1, <2>7, <2>9
  <1> HIDE DEF y
  <1>9. g + m \notin DigitAt(t)
    <2>1. g + m = a + s + m + 1
      BY <1>1, <1>2
    <2>2. CharAt(t, g + m) \notin DecDigit
      BY <2>1 DEF NumberText
    <2> QED  BY <2>2 DEF DigitAt
  <1>10. /\ CharAt(t, a + 1) = "-" <=> s = 1
         /\ CharAt(t, a + 1) \notin Blank /\ CharAt(t, a + 1) # "+"
    <2>1. CASE s = 1
      BY <2>1 DEF NumberText, Blank
    <2>2. CASE s = 0
      <3>1. 1 \in 1 .. m /\ a + s + 1 = a + 1
        BY <1>1, <2>2
      <3>2. CharAt(t, a + 1) = D[1]
        BY <3>1 DEF NumberText
      <3>3. PICK x \in 0 .. 9 : x = v(1)
        BY <1>4, <3>1
      <3>4. CharAt(t, a + 1) = digit(x)
        BY <1>4, <3>1, <3>2, <3>3
      <3>5. digit(x) \notin {"-", "+", " ", "\t"}
        BY DigitIs
      <3>6. PICK c : c = CharAt(t, a + 1)
        OBVIOUS
      <3>7. c # "-" /\ c \notin Blank /\ c # "+"
        BY <3>4, <3>5, <3>6 DEF Blank
      <3> QED  BY <2>2, <3>6, <3>7
    <2> QED  BY <2>1, <2>2
  <1> HIDE DEF v
  <1>11. g = IF CharAt(t, a + 1) \in {"-", "+"} THEN a + 2 ELSE a + 1
    BY <1>2, <1>10
  <1>12. \A k \in 0 .. m - 1 : g + k \in DigitAt(t)
    BY <1>8
  <1>13. \A k \in 0 .. m - 1 : y[k + 1] = y[k] * 10 + ValueAt(t)[g + k]
    BY <1>8
  <1>14. m \in Nat
    BY <1>1
  <1>15. atol(t) = (IF CharAt(t, a + 1) = "-" THEN -1 ELSE 1) * y[m]
    <2>1. CharAt(t, a + 1) \notin Blank
      BY <1>10
    <2>2. AtolText(t, a, g, m, y)
      BY <1>3, <1>5, <1>6, <1>9, <1>11, <1>12, <1>13, <1>14, <2>1, Zenon DEF AtolText
    <2> QED  BY <2>2, AtolReads, Zenon
  <1>16. CASE s = 1
    BY <1>7, <1>10, <1>15, <1>16
  <1>17. CASE s = 0
    BY <1>7, <1>10, <1>15, <1>17
  <1> QED
    BY <1>16, <1>17

\* An int is what it is when its low bits are read as an int again.
LEMMA SignedSame ==
    ASSUME NEW w \in 0 .. INT_MAX
    PROVE  Signed(w, IntBits) = w /\ Signed(-w, IntBits) = -w
  <1>1. IntBits \in Nat /\ IntBits # 0 /\ IntBits - 1 \in Nat
    BY PrintfAssumption
  <1>2. PICK h \in Nat \ {0} : h = Pow2[IntBits - 1]
    BY <1>1, Pow2Positive
  <1>3. PICK P \in Nat \ {0} : P = Pow2[IntBits]
    BY <1>1, Pow2Positive
  <1>4. P = 2 * h
    BY <1>1, <1>2, <1>3, Pow2Is
  <1>5. w \in Nat /\ w < h
    BY <1>2, WidthBound
  <1>6. ASSUME NEW v \in Int PROVE Signed(v, IntBits) = IF v % P < h THEN v % P ELSE (v % P) - P
    BY <1>2, <1>3 DEF Signed, Unsigned
  <1>7. ASSUME NEW v \in Int, NEW r \in Int, v = r \/ v = r - P, 0 <= r, r < P
        PROVE  v % P = r
    <2>1. PICK q \in Int : q = v \div P
      OBVIOUS
    <2>2. PICK x \in Int : x = v % P
      OBVIOUS
    <2>3. v = P * q + x /\ 0 <= x /\ x < P
      BY <2>1, <2>2
    <2>4. PICK y \in Int : y = P * q
      OBVIOUS
    <2>5. q >= 1 => y >= P
      BY <2>4
    <2>6. q <= -2 => y <= -2 * P
      BY <2>4
    <2>7. (q = 0 => y = 0) /\ (q = -1 => y = -P)
      BY <2>4
    <2>8. q \in {0, -1}
      BY <1>7, <2>3, <2>4, <2>5, <2>6
    <2> QED  BY <1>7, <2>2, <2>3, <2>4, <2>7, <2>8
  <1>8. Signed(w, IntBits) = w
    <2>1. w % P = w
      BY <1>4, <1>5, <1>7
    <2> QED  BY <1>5, <1>6, <2>1
  <1>9. CASE w = 0
    <2>1. PICK v \in Int : v = -w
      BY <1>5
    <2>2. v + w = 0
      BY <1>5, <2>1
    <2>3. v = w
      BY <1>5, <1>9, <2>2
    <2> QED  BY <1>8, <2>1, <2>3
  <1>10. CASE w # 0
    <2>1. PICK v \in Int : v = -w
      BY <1>5
    <2>2. PICK r \in Int : r = P - w
      BY <1>5
    <2>3. v = r - P /\ 0 <= r /\ r < P /\ ~(r < h)
      BY <1>4, <1>5, <1>10, <2>1, <2>2
    <2>4. v % P = r
      BY <1>7, <2>3
    <2>5. Signed(v, IntBits) = v
      BY <1>6, <2>3, <2>4
    <2> QED  BY <1>8, <2>1, <2>5
  <1> QED
    BY <1>9, <1>10

\* W is how a format spells the width w, in m characters.
IsWidth(W, w, m) ==
    /\ Sequence(W) /\ m \in Nat /\ Len(W) = m /\ \A k \in 1 .. m : W[k] \in DecDigit
    /\ w = 0 => m = 0
    /\ w # 0 => m # 0 /\ Digits(W, w, 10, Powers(10), m) /\ W[1] # "0"

\* A width is spelled in digits, and no 0 is the first, which would be a flag.
LEMMA WidthText ==
    ASSUME NEW w \in 0 .. INT_MAX, NEW W, W = (IF w = 0 THEN <<>> ELSE DigitsOf(w, 10))
    PROVE  \E m : IsWidth(W, w, m)
  <1>1. CASE w = 0
    <2>1. Sequence(W) /\ Len(W) = 0
      BY <1>1, SequenceOne
    <2>2. PICK z : z = 0
      OBVIOUS
    <2>3. z \in Nat /\ Len(W) = z /\ \A k \in 1 .. z : W[k] \in DecDigit
      BY <2>1, <2>2
    <2>4. IsWidth(W, w, z)
      BY <1>1, <2>1, <2>2, <2>3 DEF IsWidth
    <2> QED  BY <2>4
  <1>2. CASE w # 0
    <2>1. w \in Nat /\ w < Pow2[LongBits]
      BY WidthBound
    <2>2. PICK base \in {10, 16} : base = 10
      OBVIOUS
    <2>3. PICK m : Digits(DigitsOf(w, base), w, base, Powers(base), m)
      BY <2>1, ReversedLow
    <2>4. PICK p : p = Powers(10)
      OBVIOUS
    <2>5. Digits(W, w, 10, p, m)
      BY <1>2, <2>2, <2>3, <2>4
    <2>6. ArePowers(p, 10)
      BY <2>2, <2>4, PowersAre
    <2>7. /\ m \in Nat \ {0} /\ w < p[m] /\ (m = 1 \/ p[m - 1] <= w)
          /\ Sequence(W) /\ Len(W) = m
          /\ \A k \in 1 .. m : W[k] = digit((w \div p[m - k]) % 10)
      BY <2>5 DEF Digits, Length
    <2>8. ASSUME NEW k \in 1 .. m PROVE W[k] \in DecDigit
      <3>1. PICK j \in Nat : j = m - k
        BY <2>7
      <3>2. PICK x \in 0 .. 9 : x = (w \div p[j]) % 10
        BY <2>1, <2>6, TenTimes
      <3>3. W[k] = digit(x)
        BY <2>7, <3>1, <3>2
      <3> QED  BY <3>3, DigitIs
    <2>9. W[1] # "0"
      <3>1. PICK j \in Nat : j = m - 1 /\ j + 1 = m
        BY <2>7
      <3>2. PICK y \in Nat \ {0} : y = p[j]
        BY <2>6 DEF ArePowers
      <3>3. PICK Y \in Nat \ {0} : Y = p[j + 1]
        <4>1. j + 1 \in Nat
          BY <3>1
        <4> QED  BY <2>6, <4>1 DEF ArePowers
      <3>4. y <= w
        <4>1. j = 0 => y = 1
          BY <2>6, <3>2 DEF ArePowers
        <4> QED  BY <1>2, <2>1, <2>7, <3>1, <3>2, <4>1
      <3>5. w \div Y = 0
        <4>1. w \in 0 .. Y - 1 /\ Y * 0 + w = w /\ 0 \in Nat
          BY <2>1, <2>7, <3>1, <3>3
        <4>2. (Y * 0 + w) \div Y = 0
          BY <4>1, Quotient
        <4> QED  BY <4>1, <4>2
      <3>6. PICK x \in 0 .. 9 : x = (w \div p[j]) % 10
        BY <2>1, <2>6, TenTimes
      <3>7. PICK z \in Nat : z = w \div y
        BY <2>1
      <3>8. z = x
        <4>1. w \div p[j] = (w \div p[j + 1]) * 10 + ((w \div p[j]) % 10)
          BY <2>1, <2>6, TenTimes
        <4>2. z = 0 * 10 + x
          BY <3>2, <3>3, <3>5, <3>6, <3>7, <4>1
        <4> QED  BY <4>2
      <3>9. z # 0
        <4>1. w < y * z + y
          BY <2>1, <3>7
        <4> QED  BY <2>1, <3>4, <4>1
      <3>10. W[1] = digit(x)
        <4>1. 1 \in 1 .. m
          BY <2>7
        <4> QED  BY <2>7, <3>1, <3>6, <4>1
      <3> QED  BY <3>8, <3>9, <3>10, DigitIs
    <2>10. IsWidth(W, w, m)
      BY <1>2, <2>4, <2>5, <2>7, <2>8, <2>9 DEF IsWidth
    <2> QED  BY <2>10
  <1> QED
    BY <1>1, <1>2

\* What stands in front of c in f: a sign if s = 1, and the m digits of W.
NumberChars(f, s, W, m, c) ==
    /\ s = 1 => CharAt(f, 1) = "-"
    /\ \A k \in 1 .. m : CharAt(f, s + k) = W[k] /\ W[k] \in DecDigit
    /\ CharAt(f, s + m + 1) = c

\* The first character, from these.
LEMMA NumberFirst ==
    ASSUME NEW s \in 0 .. 1, NEW m \in Nat, NEW W, NEW f, NEW c, c # "-",
           NumberChars(f, s, W, m, c)
    PROVE  /\ CharAt(f, 1) = "-" <=> s = 1
           /\ c \notin Blank \cup {"+"} => CharAt(f, 1) \notin Blank \cup {"+"}
  <1>1. \A w \in 0 .. 9 : digit(w) \notin {"-", "+", " ", "\t"}
    BY DigitIs
  <1>2. CASE s = 1
    <2>1. CharAt(f, 1) = "-"
      BY <1>2 DEF NumberChars
    <2>2. "-" \notin Blank \cup {"+"}
      BY DEF Blank
    <2> QED  BY <1>2, <2>1, <2>2
  <1>3. CASE s = 0 /\ m # 0
    <2>1. CharAt(f, 1) \in DecDigit
      <3>1. s + 1 = 1 /\ 1 \in 1 .. m
        BY <1>3
      <3> QED  BY <3>1 DEF NumberChars
    <2>2. PICK w \in 0 .. 9 : CharAt(f, 1) = digit(w)
      BY <2>1 DEF DecDigit
    <2>3. digit(w) # "-" /\ digit(w) \notin Blank \cup {"+"}
      BY <1>1 DEF Blank
    <2> QED  BY <1>3, <2>2, <2>3
  <1>4. CASE s = 0 /\ m = 0
    <2>1. CharAt(f, 1) = c
      <3>1. s + m + 1 = 1
        BY <1>4
      <3> QED  BY <3>1 DEF NumberChars
    <2> QED  BY <1>4, <2>1
  <1> QED
    BY <1>2, <1>3, <1>4

\* The length of the number fmtnum() finds.
LEMMA NumberEnds ==
    ASSUME NEW s \in 0 .. 1, NEW m \in Nat, NEW W, NEW f, Sequence(f),
           NEW c, c # "-", c \notin DecDigit, NumberChars(f, s, W, m, c)
    PROVE  NumberLen(f) = s + m
  <1>1. CharAt(f, 1) = "-" <=> s = 1
    BY NumberFirst
  <1>2. PICK l \in Nat : l = Len(f)
    BY SequenceLen
  <1>3. f = <<>> <=> l = 0
    BY <1>2, EmptySeq DEF Sequence
  <1>4. CharAt(f, 1) = IF l = 0 THEN NulChar ELSE f[1]
    BY <1>2 DEF CharAt
  <1>5. SignLen(f) = s
    <2>1. f # <<>> /\ f[1] = "-" <=> s = 1
      BY <1>1, <1>3, <1>4 DEF NulChar
    <2> QED  BY <2>1 DEF SignLen
  <1>6. \A k \in Nat : k \in NoDigit(f) <=> CharAt(f, k + 1) \notin DecDigit
    BY <1>2, DigitsAre DEF NoDigit, CharAt
  <1>7. PICK j \in Nat : j = s + m
    OBVIOUS
  <1>8. j \in NoDigit(f)
    <2>1. CharAt(f, j + 1) = c
      BY <1>7 DEF NumberChars
    <2> QED  BY <1>6, <2>1
  <1>9. ASSUME NEW n \in s .. j - 1 PROVE n \notin NoDigit(f)
    <2>1. PICK k \in 1 .. m : n + 1 = s + k
      <3>1. n + 1 - s \in 1 .. m /\ n + 1 = s + (n + 1 - s)
        BY <1>7
      <3> QED  BY <3>1
    <2>2. CharAt(f, n + 1) \in DecDigit
      BY <2>1 DEF NumberChars
    <2>3. n \in Nat
      OBVIOUS
    <2> QED  BY <1>6, <2>2, <2>3
  <1>10. PICK len : NumberBy(f, len)
    BY NumberLoop
  <1>11. PICK dom : dom = Nat
    OBVIOUS
  <1>12. Searches(len, dom, NoDigit(f), Itself)
    BY <1>10, <1>11 DEF NumberBy
  <1>13. s \in Nat /\ j >= s /\ \A n \in s .. j : n \in dom
    BY <1>7, <1>11
  <1>14. len[s] = Itself[j]
    BY <1>8, <1>9, <1>12, <1>13, SearchFinds
  <1> QED
    BY <1>5, <1>7, <1>10, <1>14 DEF NumberBy, Itself

\* Without digits atol() reads 0.
LEMMA NothingRead ==
    ASSUME NEW s \in 0 .. 1, NEW W, NEW f, Sequence(f), NEW c, c # "-", c \notin DecDigit,
           c \notin Blank \cup {"+"}, NumberChars(f, s, W, 0, c)
    PROVE  atol(f) = 0
  <1>1. PICK z \in Nat : z = 0
    OBVIOUS
  <1>2. z + 1 = 1 /\ z + 2 = 2 /\ 1 .. z = {} /\ 0 .. z - 1 = {}
    BY <1>1
  <1>3. (CharAt(f, 1) = "-" <=> s = 1) /\ CharAt(f, 1) \notin Blank \cup {"+"}
    <2>1. NumberChars(f, s, W, z, c)
      BY <1>1
    <2> QED  BY <2>1, NumberFirst
  <1>4. PICK g \in Nat : g = s + 1
    OBVIOUS
  <1>5. CharAt(f, z + 1) \notin Blank
    BY <1>2, <1>3
  <1>6. g = IF CharAt(f, z + 1) \in {"-", "+"} THEN z + 2 ELSE z + 1
    <2>1. CharAt(f, z + 1) \in {"-", "+"} <=> s = 1
      BY <1>2, <1>3
    <2> QED  BY <1>2, <1>4, <2>1
  <1>7. PICK y : y \in [Nat -> Nat] /\ y[0] = 0
    <2>1. [k \in Nat |-> 0] \in [Nat -> Nat] /\ [k \in Nat |-> 0][0] = 0
      OBVIOUS
    <2> QED  BY <2>1
  <1>8. g + z \notin DigitAt(f)
    <2>1. g + z = s + 0 + 1
      BY <1>1, <1>4
    <2>2. CharAt(f, g + z) = c
      BY <2>1 DEF NumberChars
    <2> QED  BY <2>2 DEF DigitAt
  <1>9. /\ \A k \in 1 .. z : CharAt(f, k) \in Blank
        /\ \A k \in 0 .. z - 1 : g + k \in DigitAt(f)
        /\ \A k \in 0 .. z - 1 : y[k + 1] = y[k] * 10 + ValueAt(f)[g + k]
    BY <1>2
  <1>10. AtolText(f, z, g, z, y)
    BY <1>5, <1>6, <1>7, <1>8, <1>9, Zenon DEF AtolText
  <1>11. atol(f) = (IF CharAt(f, z + 1) = "-" THEN -1 ELSE 1) * y[z]
    BY <1>10, AtolReads, Zenon
  <1>12. PICK sg \in {-1, 1} : atol(f) = sg * y[z]
    BY <1>11
  <1> QED
    BY <1>1, <1>7, <1>12

\* The width atol() reads.
LEMMA NumberRead ==
    ASSUME NEW w \in 0 .. INT_MAX, NEW s \in 0 .. 1, NEW W, NEW m, IsWidth(W, w, m),
           NEW f, Sequence(f), NEW c, c # "-", c \notin DecDigit, c \notin Blank \cup {"+"},
           NumberChars(f, s, W, m, c)
    PROVE  atol(f) = IF s = 0 THEN w ELSE -w
  <1>1. CASE w = 0
    <2>1. m = 0
      BY <1>1 DEF IsWidth
    <2>2. NumberChars(f, s, W, 0, c)
      BY <2>1
    <2>3. atol(f) = 0
      BY <2>2, NothingRead
    <2>4. PICK v \in Int : v = -w
      BY WidthBound
    <2>5. v + w = 0
      BY <2>4, WidthBound
    <2>6. v = 0
      BY <1>1, <2>5
    <2> QED  BY <1>1, <2>3, <2>4, <2>6
  <1>2. CASE w # 0
    <2>1. m \in Nat /\ Digits(W, w, 10, Powers(10), m) /\ w \in Nat
      BY <1>2, WidthBound DEF IsWidth
    <2>2. PICK base \in {10, 16} : base = 10
      OBVIOUS
    <2>3. PICK p : p = Powers(10)
      OBVIOUS
    <2>4. ArePowers(p, 10)
      BY <2>2, <2>3, PowersAre
    <2>5. PICK z \in Nat : z = 0
      OBVIOUS
    <2>6. /\ \A k \in 1 .. z : CharAt(f, k) \in {}
          /\ z + 1 = 1 /\ z + s + m + 1 = s + m + 1 /\ \A k \in 1 .. m : z + s + k = s + k
      BY <2>1, <2>5
    <2>7. /\ s = 1 => CharAt(f, z + 1) = "-"
          /\ \A k \in 1 .. m : CharAt(f, z + s + k) = W[k]
          /\ CharAt(f, z + s + m + 1) \notin DecDigit
      BY <2>6 DEF NumberChars
    <2>8. NumberText(f, z, s, W, m)
      BY <2>6, <2>7, Zenon DEF NumberText
    <2> QED  BY <2>1, <2>3, <2>4, <2>8, DigitsRead
  <1> QED
    BY <1>1, <1>2

\* What fmtnum() finds in f: the number and what follows.
FmtReads(f, r, neg, w) ==
    /\ SubSeq(f, NumberLen(f) + 1, Len(f)) = r
    /\ CharAt(r, 1) \notin Blank \cup {"+"} => IntRead(f) = IF neg = <<>> THEN w ELSE -w

\* fmtnum() reads a width w, with or without a sign, and leaves what follows.
\* What it makes of it is the width unless blanks or a + follow.
LEMMA FmtNumber ==
    ASSUME NEW w \in 0 .. INT_MAX, NEW W, NEW m, IsWidth(W, w, m),
           NEW neg, neg \in {<<>>, <<"-">>}, NEW r, Sequence(r),
           CharAt(r, 1) \notin DecDigit, CharAt(r, 1) # "-", NEW f, f = neg \o (W \o r)
    PROVE  FmtReads(f, r, neg, w)
  <1>1. PICK s \in 0 .. 1 : s = IF neg = <<>> THEN 0 ELSE 1
    OBVIOUS
  <1>3. Sequence(neg) /\ Len(neg) = s /\ (s = 1 => neg[1] = "-") /\ (neg = <<>> <=> s = 0)
    BY <1>1, SequenceOne
  <1>4. Sequence(W) /\ Len(W) = m /\ m \in Nat /\ \A k \in 1 .. m : W[k] \in DecDigit
    BY DEF IsWidth
  <1>5. PICK h : h = neg \o W
    OBVIOUS
  <1>6. Sequence(h) /\ Len(h) = s + m
    BY <1>3, <1>4, <1>5, SequenceConcat
  <1>7. f = h \o r
    <2>1. Sequence(neg) /\ Sequence(W) /\ Sequence(r)
      BY <1>3, <1>4
    <2>2. (neg \o W) \o r = neg \o (W \o r)
      BY <2>1, ConcatThree, SMTT(30)
    <2> QED  BY <1>5, <2>2
  <1>8. ASSUME NEW k \in Nat \ {0}
        PROVE  CharAt(f, k) = IF k <= s + m THEN h[k] ELSE CharAt(r, k - (s + m))
    <2>1. CharAt(h \o r, k) = IF k <= Len(h) THEN h[k] ELSE CharAt(r, k - Len(h))
      BY <1>6, CharAtConcat
    <2> QED  BY <1>6, <1>7, <2>1
  <1>9. \A k \in 1 .. s + m : h[k] = IF k <= s THEN neg[k] ELSE W[k - s]
    <2>1. ASSUME NEW k \in 1 .. Len(neg) + Len(W)
          PROVE  (neg \o W)[k] = IF k <= Len(neg) THEN neg[k] ELSE W[k - Len(neg)]
      BY <1>3, <1>4, ConcatAt
    <2> QED  BY <1>3, <1>4, <1>5, <2>1
  <1>10. s = 1 => CharAt(f, 1) = "-"
    <2>1. ASSUME s = 1 PROVE CharAt(f, 1) = "-"
      <3>0. 1 \in 1 .. s + m /\ 1 <= s
        BY <1>4, <2>1
      <3>1. h[1] = "-"
        BY <1>3, <1>9, <2>1, <3>0
      <3> QED  BY <1>4, <1>8, <2>1, <3>1
    <2> QED  BY <2>1
  <1>11. ASSUME NEW k \in 1 .. m PROVE CharAt(f, s + k) = W[k]
    <2>1. s + k \in 1 .. s + m /\ ~(s + k <= s) /\ (s + k) - s = k
      BY <1>4
    <2>2. h[s + k] = W[k]
      BY <1>9, <2>1
    <2>3. s + k \in Nat \ {0} /\ s + k <= s + m
      BY <1>4
    <2> QED  BY <1>8, <2>2, <2>3
  <1>12. PICK c : c = CharAt(r, 1)
    OBVIOUS
  <1>13. CharAt(f, s + m + 1) = c
    <2>1. s + m + 1 \in Nat \ {0} /\ ~(s + m + 1 <= s + m) /\ (s + m + 1) - (s + m) = 1
      BY <1>4
    <2> QED  BY <1>8, <1>12, <2>1
  <1>14. NumberChars(f, s, W, m, c)
    BY <1>4, <1>10, <1>11, <1>13 DEF NumberChars
  <1>15. Sequence(f)
    <2>1. Sequence(h \o r)
      BY <1>6, SequenceConcat
    <2> QED  BY <1>7, <2>1
  <1>16. c # "-" /\ c \notin DecDigit
    BY <1>12
  <1>17. SubSeq(f, NumberLen(f) + 1, Len(f)) = r
    <2>1. SubSeq(h \o r, Len(h) + 1, Len(h \o r)) = r
      BY <1>6, DropFirst
    <2>2. NumberLen(f) = s + m
      BY <1>4, <1>14, <1>15, <1>16, NumberEnds
    <2> QED  BY <1>6, <1>7, <2>1, <2>2
  <1>18. ASSUME c \notin Blank \cup {"+"} PROVE IntRead(f) = IF s = 0 THEN w ELSE -w
    <2>1. atol(f) = IF s = 0 THEN w ELSE -w
      BY <1>14, <1>15, <1>16, <1>18, NumberRead
    <2>2. Signed(w, IntBits) = w /\ Signed(-w, IntBits) = -w
      BY SignedSame
    <2> QED  BY <2>1, <2>2 DEF IntRead
  <1> QED
    BY <1>3, <1>12, <1>17, <1>18 DEF FmtReads

-----------------------------------------------------------------------------
(* Printf: what a conversion adds. *)

\* No padding where the text is as long as the width.
LEMMA NoTimes ==
    ASSUME NEW n \in Int, n <= 0, NEW c
    PROVE  Times(c, n) = <<>>
  <1>1. ~(n > 0)
    OBVIOUS
  <1> QED
    BY <1>1 DEF Times

\* Padding on the left ...
LEMMA PrintStrLeft ==
    ASSUME NEW p, NEW str, Sequence(str), NEW pr, NEW w \in Nat, pr.npad = w
    PROVE  print_str(p, str, pr) = addchars(p, Times(pr.pad, w - Len(str)) \o str)
  <1>1. PICK l \in Nat : l = Len(str)
    BY SequenceLen
  <1>2. PICK n : n = (IF pr.npad > 0 THEN pr.npad - Len(str) ELSE pr.npad)
    OBVIOUS
  <1>3. PICK r : r = (IF n < 0 THEN RightPad(n, Len(str)) ELSE 0)
    OBVIOUS
  <1>4. n \in Int /\ (n = w - l \/ (n <= 0 /\ w - l <= 0))
    BY <1>1, <1>2
  <1>5. r \in Int /\ r <= 0
    BY <1>1, <1>2, <1>3 DEF RightPad
  <1>6. Times(pr.pad, n) = Times(pr.pad, w - l) /\ Times(" ", r) = <<>>
    <2>1. PICK e \in Int : e = w - l
      OBVIOUS
    <2>2. CASE n = e
      BY <1>5, <2>1, <2>2, NoTimes
    <2>3. CASE n <= 0 /\ e <= 0
      BY <1>4, <1>5, <2>1, <2>3, NoTimes
    <2> QED  BY <1>4, <2>1, <2>2, <2>3
  <1>7. print_str(p, str, pr) = addchars(p, Times(pr.pad, n) \o str \o Times(" ", r))
    BY <1>2, <1>3, Zenon DEF print_str
  <1>8. PICK a : a = Times(pr.pad, w - l)
    OBVIOUS
  <1>9. Sequence(a \o str)
    <2>1. Sequence(a)
      <3>1. w - l \in Int
        OBVIOUS
      <3> QED  BY <1>8, <3>1, SequenceTimes
    <2> QED  BY <2>1, SequenceConcat
  <1>10. (a \o str) \o <<>> = a \o str
    BY <1>9, ConcatNothing
  <1> QED
    BY <1>1, <1>6, <1>7, <1>8, <1>10

\* ... and on the right.
LEMMA PrintStrRight ==
    ASSUME NEW p, NEW str, Sequence(str), NEW pr, NEW w \in Nat, pr.npad = -w
    PROVE  print_str(p, str, pr) = addchars(p, str \o Times(" ", w - Len(str)))
  <1>1. PICK l \in Nat : l = Len(str)
    BY SequenceLen
  <1>2. PICK n : n = (IF pr.npad > 0 THEN pr.npad - Len(str) ELSE pr.npad)
    OBVIOUS
  <1>3. PICK r : r = (IF n < 0 THEN RightPad(n, Len(str)) ELSE 0)
    OBVIOUS
  <1>4. n = -w
    BY <1>1, <1>2
  <1>5. r \in Int /\ (r = w - l \/ (r = 0 /\ w - l <= 0))
    BY <1>1, <1>3, <1>4 DEF RightPad
  <1>6. Times(pr.pad, n) = <<>> /\ Times(" ", r) = Times(" ", w - l)
    <2>1. PICK e \in Int : e = w - l
      OBVIOUS
    <2>2. n \in Int /\ n <= 0
      BY <1>4
    <2>3. CASE r = e
      BY <2>1, <2>2, <2>3, NoTimes
    <2>4. CASE r = 0 /\ e <= 0
      <3>1. r \in Int /\ r <= 0 /\ e <= 0
        BY <2>4
      <3>2. Times(" ", r) = <<>> /\ Times(" ", e) = <<>> /\ Times(pr.pad, n) = <<>>
        BY <2>2, <3>1, NoTimes
      <3> QED  BY <2>1, <3>2
    <2> QED  BY <1>5, <2>1, <2>3, <2>4
  <1>7. print_str(p, str, pr) = addchars(p, Times(pr.pad, n) \o str \o Times(" ", r))
    BY <1>2, <1>3, Zenon DEF print_str
  <1>8. <<>> \o str = str
    BY ConcatNothing
  <1> QED
    BY <1>1, <1>6, <1>7, <1>8

\* A prefix and a text laid out as the flags and the width of d say.
Laid(pre, bare, d) ==
    IF Has(d, "-") THEN (pre \o bare) \o Times(" ", d.width - Len(pre \o bare))
    ELSE IF Has(d, "0") THEN (pre \o Times("0", d.width - Len(pre \o bare))) \o bare
    ELSE Times(" ", d.width - Len(pre \o bare)) \o (pre \o bare)

\* The properties a directive leaves when it has been read.
PropsOf(d, pr) ==
    /\ pr.pad = (IF Has(d, "0") THEN "0" ELSE " ")
    /\ pr.npad = (IF Has(d, "-") THEN -d.width ELSE d.width)

\* The flags of a legal directive.
LEMMA FlagsAre ==
    ASSUME NEW d, d.flags \in FlagSets
    PROVE  /\ Has(d, "-") <=> d.flags \in {<<"-">>, <<"#", "-">>}
           /\ Has(d, "0") <=> d.flags \in {<<"0">>, <<"#", "0">>}
           /\ Has(d, "#") <=> d.flags \in {<<"#">>, <<"#", "0">>, <<"#", "-">>}
           /\ ~(Has(d, "-") /\ Has(d, "0"))
  <1>1. PICK f : f = d.flags
    OBVIOUS
  <1>2. \A c : Has(d, c) <=> c \in Range(f)
    BY <1>1 DEF Has
  <1>3. /\ Range(<<>>) = {} /\ \A a : Range(<<a>>) = {a}
        /\ \A a, b : Range(<<a, b>>) = {a, b}
    BY DEF Range
  <1>4. \/ f = <<>> \/ f = <<"0">> \/ f = <<"-">> \/ f = <<"#">>
        \/ f = <<"#", "0">> \/ f = <<"#", "-">>
    BY <1>1 DEF FlagSets
  <1>5. CASE f = <<>>
    <2>1. Range(f) = {}
      BY <1>3, <1>5
    <2> QED  BY <1>1, <1>2, <1>5, <2>1
  <1>6. CASE f = <<"0">>
    <2>1. Range(f) = {"0"}
      BY <1>3, <1>6
    <2> QED  BY <1>1, <1>2, <1>6, <2>1
  <1>7. CASE f = <<"-">>
    <2>1. Range(f) = {"-"}
      BY <1>3, <1>7
    <2> QED  BY <1>1, <1>2, <1>7, <2>1
  <1>8. CASE f = <<"#">>
    <2>1. Range(f) = {"#"}
      BY <1>3, <1>8
    <2> QED  BY <1>1, <1>2, <1>8, <2>1
  <1>9. CASE f = <<"#", "0">>
    <2>1. Range(f) = {"#", "0"}
      BY <1>3, <1>9
    <2> QED  BY <1>1, <1>2, <1>9, <2>1
  <1>10. CASE f = <<"#", "-">>
    <2>1. Range(f) = {"#", "-"}
      BY <1>3, <1>10
    <2> QED  BY <1>1, <1>2, <1>10, <2>1
  <1> QED
    BY <1>4, <1>5, <1>6, <1>7, <1>8, <1>9, <1>10

\* print_str() with the properties of d lays out its text.
LEMMA PrintStrLaid ==
    ASSUME NEW d, d.flags \in FlagSets, d.width \in Nat, NEW pr, PropsOf(d, pr), NEW p,
           NEW pre, Sequence(pre), NEW bare, Sequence(bare), pre = <<>> \/ ~Has(d, "0")
    PROVE  print_str(p, pre \o bare, pr) = addchars(p, Laid(pre, bare, d))
  <1>1. PICK str : str = pre \o bare
    OBVIOUS
  <1>2. Sequence(str)
    BY <1>1, SequenceConcat
  <1>3. PICK w \in Nat : w = d.width
    OBVIOUS
  <1>4. CASE Has(d, "-")
    <2>1. pr.npad = -w
      BY <1>3, <1>4 DEF PropsOf
    <2>2. print_str(p, str, pr) = addchars(p, str \o Times(" ", w - Len(str)))
      BY <1>2, <2>1, PrintStrRight
    <2> QED  BY <1>1, <1>3, <1>4, <2>2 DEF Laid
  <1>5. CASE ~Has(d, "-")
    <2>1. pr.npad = w /\ pr.pad = (IF Has(d, "0") THEN "0" ELSE " ")
      BY <1>3, <1>5 DEF PropsOf
    <2>2. print_str(p, str, pr) = addchars(p, Times(pr.pad, w - Len(str)) \o str)
      BY <1>2, <2>1, PrintStrLeft
    <2>3. CASE ~Has(d, "0")
      BY <1>1, <1>3, <1>5, <2>1, <2>2, <2>3 DEF Laid
    <2>4. CASE Has(d, "0")
      <3>1. str = bare /\ pre = <<>>
        BY <1>1, <2>4, ConcatNothing
      <3>2. PICK a : a = Times("0", w - Len(str))
        OBVIOUS
      <3>3. <<>> \o a = a
        <4>1. w - Len(str) \in Int
          BY <1>2, SequenceLen
        <4>2. Sequence(a)
          BY <3>2, <4>1, SequenceTimes
        <4> QED  BY <4>2, ConcatNothing
      <3>4. Laid(pre, bare, d) = (pre \o Times("0", w - Len(str))) \o bare
        BY <1>1, <1>3, <1>5, <2>4 DEF Laid
      <3>5. Laid(pre, bare, d) = a \o str
        BY <3>1, <3>2, <3>3, <3>4
      <3>6. pr.pad = "0"
        BY <2>1, <2>4
      <3> QED  BY <1>1, <2>2, <3>2, <3>5, <3>6
    <2> QED  BY <2>3, <2>4
  <1> QED
    BY <1>4, <1>5

\* Text without a NUL.
Clean(t) == Sequence(t) /\ \A k \in 1 .. Len(t) : t[k] # NulChar

\* It is all of it a string.
LEMMA CleanIs ==
    ASSUME NEW t, Sequence(t)
    PROVE  (Clean(t) <=> NulChar \notin Range(t)) /\ (Clean(t) => UpToNul(t) = t)
  <1>1. DOMAIN t = 1 .. Len(t)
    BY DEF Sequence
  <1>2. Clean(t) <=> NulChar \notin Range(t)
    BY <1>1 DEF Clean, Range
  <1> QED
    BY <1>2 DEF UpToNul

\* Text put together from such text.
LEMMA CleanConcat ==
    ASSUME NEW s, Clean(s), NEW t, Clean(t)
    PROVE  Clean(s \o t)
  <1>1. Sequence(s) /\ Sequence(t)
    BY DEF Clean
  <1>2. PICK u : u = s \o t
    OBVIOUS
  <1>3. Sequence(u) /\ Len(u) = Len(s) + Len(t) /\ Len(s) \in Nat /\ Len(t) \in Nat
    BY <1>1, <1>2, SequenceConcat, SequenceLen
  <1>4. ASSUME NEW k \in 1 .. Len(u) PROVE u[k] # NulChar
    <2>1. u[k] = IF k <= Len(s) THEN s[k] ELSE t[k - Len(s)]
      BY <1>1, <1>2, <1>3, ConcatAt
    <2>2. k \in 1 .. Len(s) \/ (~(k <= Len(s)) /\ k - Len(s) \in 1 .. Len(t))
      BY <1>3
    <2> QED  BY <2>1, <2>2 DEF Clean
  <1> QED
    BY <1>2, <1>3, <1>4 DEF Clean

\* The pieces: a character or two, padding, digits.
LEMMA CleanPieces ==
    /\ Clean(<<>>) /\ \A c : c # NulChar => Clean(<<c>>)
    /\ \A c, d : c # NulChar /\ d # NulChar => Clean(<<c, d>>)
    /\ \A c, n : c # NulChar /\ n \in Int => Clean(Times(c, n))
  <1>1. Clean(<<>>)
    BY SequenceOne DEF Clean
  <1>2. ASSUME NEW c, c # NulChar PROVE Clean(<<c>>)
    <2>1. PICK s : s = <<c>>
      OBVIOUS
    <2>2. Sequence(s) /\ Len(s) = 1 /\ s[1] = c
      BY <2>1, SequenceOne
    <2>3. Clean(s)
      BY <1>2, <2>2 DEF Clean
    <2> QED  BY <2>1, <2>3
  <1>3. ASSUME NEW c, NEW d, c # NulChar, d # NulChar PROVE Clean(<<c, d>>)
    <2>1. PICK s : s = <<c, d>>
      OBVIOUS
    <2>2. Sequence(s) /\ Len(s) = 2 /\ s[1] = c /\ s[2] = d
      BY <2>1, SequenceOne
    <2>3. Clean(s)
      BY <1>3, <2>2 DEF Clean
    <2> QED  BY <2>1, <2>3
  <1>4. ASSUME NEW c, NEW n, c # NulChar, n \in Int PROVE Clean(Times(c, n))
    <2>1. CASE n > 0
      <3>1. PICK s : s = Times(c, n)
        OBVIOUS
      <3>2. s = [k \in 1 .. n |-> c]
        BY <2>1, <3>1 DEF Times
      <3>3. s = [k \in 1 .. n |-> s[k]] /\ n \in Nat
        BY <1>4, <2>1, <3>2
      <3>4. Sequence(s) /\ Len(s) = n
        BY <3>3, SequenceFcn
      <3>5. Clean(s)
        BY <1>4, <3>2, <3>4 DEF Clean
      <3> QED  BY <3>1, <3>5
    <2>2. CASE ~(n > 0)
      BY <1>1, <2>2 DEF Times
    <2> QED  BY <2>1, <2>2
  <1> QED
    BY <1>1, <1>2, <1>3, <1>4

\* A digit of any base is no NUL and no blank.
LEMMA HexDigit ==
    ASSUME NEW v \in 0 .. 15
    PROVE  digit(v) # NulChar
  <1>1. PICK k \in 1 .. 16 : k = v + 1
    OBVIOUS
  <1>2. digit(v) = digits[k]
    BY <1>1 DEF digit
  <1>3. digits[k] # NulChar
    BY DEF digits, NulChar
  <1> QED
    BY <1>2, <1>3

\* Numbers.
LEMMA CleanDigits ==
    ASSUME NEW base \in {10, 16}, NEW n \in Nat, n < Pow2[LongBits]
    PROVE  Clean(DigitsOf(n, base))
  <1>1. PICK s : s = DigitsOf(n, base)
    OBVIOUS
  <1>2. PICK p : p = Powers(base)
    OBVIOUS
  <1>3. PICK m : Digits(s, n, base, p, m)
    BY <1>1, <1>2, ReversedLow
  <1>4. ArePowers(p, base)
    BY <1>2, PowersAre
  <1>5. m \in Nat /\ Sequence(s) /\ Len(s) = m
    BY <1>3 DEF Digits, Length
  <1>6. ASSUME NEW k \in 1 .. m PROVE s[k] # NulChar
    <2>1. PICK j \in Nat : j = m - k
      BY <1>5
    <2>2. PICK y \in Nat \ {0} : y = p[j]
      BY <1>4 DEF ArePowers
    <2>3. PICK z \in Nat : z = n \div y
      OBVIOUS
    <2>4. PICK v : v = z % base
      OBVIOUS
    <2>5. v \in 0 .. 15
      BY <2>4
    <2>6. s[k] = digit(v)
      BY <1>3, <2>1, <2>2, <2>3, <2>4 DEF Digits
    <2> QED  BY <2>5, <2>6, HexDigit
  <1>7. Clean(s)
    BY <1>5, <1>6 DEF Clean
  <1> QED
    BY <1>1, <1>7

\* Joined sequences reversed.
LEMMA ReverseConcat ==
    ASSUME NEW s, Sequence(s), NEW t, Sequence(t)
    PROVE  Reverse(s \o t) = Reverse(t) \o Reverse(s)
  <1>1. PICK a, b : a = Len(s) /\ b = Len(t)
    OBVIOUS
  <1>2. a \in Nat /\ b \in Nat
    BY <1>1, SequenceLen
  <1>3. PICK u : u = s \o t
    OBVIOUS
  <1>4. PICK rs : rs = Reverse(s)
    OBVIOUS
  <1>5. PICK rt : rt = Reverse(t)
    OBVIOUS
  <1>6. PICK ru : ru = Reverse(u)
    OBVIOUS
  <1>7. PICK v : v = rt \o rs
    OBVIOUS
  <1>8. Sequence(rs) /\ Len(rs) = a /\ \A k \in 1 .. a : rs[k] = s[a - k + 1]
    BY <1>1, <1>4, ReverseAt
  <1>9. Sequence(rt) /\ Len(rt) = b /\ \A k \in 1 .. b : rt[k] = t[b - k + 1]
    BY <1>1, <1>5, ReverseAt
  <1>10. Sequence(u) /\ Len(u) = a + b
    BY <1>1, <1>3, SequenceConcat
  <1>11. Sequence(ru) /\ Len(ru) = a + b /\ \A k \in 1 .. a + b : ru[k] = u[a + b - k + 1]
    <2>1. Sequence(ru) /\ Len(ru) = Len(u) /\ \A k \in 1 .. Len(u) : ru[k] = u[Len(u) - k + 1]
      BY <1>6, <1>10, ReverseAt
    <2> QED  BY <1>2, <1>10, <2>1
  <1>12. Sequence(v) /\ Len(v) = a + b
    <2>1. Sequence(rt \o rs) /\ Len(rt \o rs) = Len(rt) + Len(rs)
      BY <1>8, <1>9, SequenceConcat
    <2> QED  BY <1>2, <1>7, <1>8, <1>9, <2>1
  <1>13. \A k \in 1 .. a + b : u[k] = IF k <= a THEN s[k] ELSE t[k - a]
    BY <1>1, <1>3, ConcatAt
  <1>14. \A k \in 1 .. b + a : v[k] = IF k <= b THEN rt[k] ELSE rs[k - b]
    BY <1>7, <1>8, <1>9, ConcatAt
  <1>15. ASSUME NEW k \in 1 .. a + b PROVE ru[k] = v[k]
    <2>1. PICK j \in 1 .. a + b : j = a + b - k + 1
      BY <1>2
    <2>2. ru[k] = IF j <= a THEN s[j] ELSE t[j - a]
      BY <1>11, <1>13, <2>1
    <2>3. v[k] = IF k <= b THEN rt[k] ELSE rs[k - b]
      BY <1>2, <1>14
    <2>4. CASE k <= b
      <3>1. ~(j <= a) /\ j - a = b - k + 1 /\ k \in 1 .. b
        BY <1>2, <2>1, <2>4
      <3> QED  BY <1>9, <2>2, <2>3, <2>4, <3>1
    <2>5. CASE ~(k <= b)
      <3>1. PICK pos \in 1 .. a : pos = k - b
        BY <1>2, <2>5
      <3>2. j <= a /\ j = a - pos + 1
        BY <1>2, <2>1, <3>1
      <3> QED  BY <1>8, <2>2, <2>3, <2>5, <3>1, <3>2
    <2> QED  BY <2>4, <2>5
  <1>16. ru = v
    BY <1>11, <1>12, <1>15, SequenceEqual
  <1> QED
    BY <1>3, <1>4, <1>5, <1>6, <1>7, <1>16

\* One or two characters reversed.
LEMMA ReverseFew ==
    /\ \A c : Reverse(<<c>>) = <<c>>
    /\ \A c, d : Reverse(<<c, d>>) = <<d, c>>
  <1>1. ASSUME NEW c PROVE Reverse(<<c>>) = <<c>>
    <2>1. PICK s : s = <<c>>
      OBVIOUS
    <2>2. Sequence(s) /\ Len(s) = 1
      BY <2>1, SequenceOne
    <2>3. PICK u : u = Reverse(s)
      OBVIOUS
    <2>4. Sequence(u) /\ Len(u) = 1 /\ \A k \in 1 .. 1 : u[k] = s[1 - k + 1]
      BY <2>2, <2>3, ReverseAt
    <2>5. \A k \in 1 .. 1 : u[k] = s[k]
      BY <2>4
    <2>6. u = s
      BY <2>2, <2>4, <2>5, SequenceEqual
    <2> QED  BY <2>1, <2>3, <2>6
  <1>2. ASSUME NEW c, NEW d PROVE Reverse(<<c, d>>) = <<d, c>>
    <2>1. PICK s : s = <<c, d>>
      OBVIOUS
    <2>1a. PICK r : r = <<d, c>>
      OBVIOUS
    <2>2. Sequence(s) /\ Len(s) = 2 /\ Sequence(r) /\ Len(r) = 2
      BY <2>1, <2>1a, SequenceOne
    <2>3. PICK u : u = Reverse(s)
      OBVIOUS
    <2>4. Sequence(u) /\ Len(u) = 2 /\ \A k \in 1 .. 2 : u[k] = s[2 - k + 1]
      BY <2>2, <2>3, ReverseAt
    <2>5. u[1] = s[2] /\ u[2] = s[1]
      BY <2>4
    <2>6. s[1] = c /\ s[2] = d /\ r[1] = d /\ r[2] = c
      BY <2>1, <2>1a
    <2>7. \A k \in 1 .. 2 : u[k] = r[k]
      BY <2>5, <2>6
    <2>8. u = r
      BY <2>2, <2>4, <2>7, SequenceEqual
    <2> QED  BY <2>1, <2>1a, <2>3, <2>8
  <1> QED
    BY <1>1, <1>2

\* The text of a signed number.
IntText(n) == IF n < 0 THEN <<"-">> \o DigitsOf(-n, 10) ELSE DigitsOf(n, 10)

\* It is a string ...
LEMMA CleanInt ==
    ASSUME NEW n \in Int, n < Pow2[LongBits], -n < Pow2[LongBits]
    PROVE  Clean(IntText(n))
  <1>1. CASE n < 0
    <2>1. PICK m \in Nat : m = -n
      BY <1>1
    <2>2. m < Pow2[LongBits]
      BY <2>1
    <2>3. Clean(DigitsOf(m, 10))
      BY <2>2, CleanDigits
    <2>4. Clean(<<"-">>)
      BY CleanPieces DEF NulChar
    <2>5. Clean(<<"-">> \o DigitsOf(m, 10))
      BY <2>3, <2>4, CleanConcat
    <2> QED  BY <1>1, <2>1, <2>5 DEF IntText
  <1>2. CASE n >= 0
    <2>1. n \in Nat
      BY <1>2
    <2>2. Clean(DigitsOf(n, 10))
      BY <2>1, CleanDigits
    <2> QED  BY <1>2, <2>2 DEF IntText
  <1> QED
    BY <1>1, <1>2

\* ... and what print_int() prints.
LEMMA PrintIntIs ==
    ASSUME NEW n \in Int, n < Pow2[LongBits], -n < Pow2[LongBits], n # LLONG_MIN,
           NEW p, NEW pr, NEW junk
    PROVE  print_int(p, n, pr, junk) = print_str(p, IntText(n), pr)
  <1> DEFINE low  == LowFirst(IF n < 0 THEN -n ELSE n, 10)
             text == IF n < 0 THEN Append(low, "-") ELSE IF n = 0 THEN <<"0">> ELSE low
  <1>1. print_int(p, n, pr, junk) = print_str(p, UpToNul(Reverse(text)), pr)
    BY Zenon DEF print_int
  <1>2. Reverse(text) = IntText(n)
    <2>1. CASE n < 0
      <3>1. PICK m \in Nat : m = -n /\ m # 0
        BY <2>1
      <3>2. m < Pow2[LongBits]
        BY <3>1
      <3>3. Reverse(LowFirst(m, 10)) = DigitsOf(m, 10)
        BY <3>1, <3>2, ReversedLow
      <3>4. Sequence(LowFirst(m, 10))
        BY SequenceLow
      <3>5. PICK l : l = LowFirst(m, 10)
        OBVIOUS
      <3>6. Append(l, "-") = l \o <<"-">>
        BY <3>4, <3>5 DEF Sequence
      <3>7. Reverse(l \o <<"-">>) = Reverse(<<"-">>) \o Reverse(l)
        <4>1. Sequence(<<"-">>)
          BY SequenceOne
        <4> QED  BY <3>4, <3>5, <4>1, ReverseConcat
      <3>8. Reverse(<<"-">>) = <<"-">>
        BY ReverseFew
      <3>9. text = Append(l, "-")
        BY <2>1, <3>1, <3>5
      <3> HIDE DEF text
      <3> QED  BY <2>1, <3>1, <3>3, <3>5, <3>6, <3>7, <3>8, <3>9 DEF IntText
    <2>2. CASE n = 0
      <3>1. text = <<"0">>
        BY <2>2
      <3>2. DigitsOf(0, 10) = <<"0">>
        BY <2>2, ReversedLow
      <3>3. Reverse(<<"0">>) = <<"0">>
        BY ReverseFew
      <3> HIDE DEF text
      <3>4. IntText(n) = DigitsOf(0, 10)
        BY <2>2 DEF IntText
      <3> QED  BY <3>1, <3>2, <3>3, <3>4
    <2>3. CASE n > 0
      <3>1. n \in Nat /\ n # 0
        BY <2>3
      <3>2. Reverse(LowFirst(n, 10)) = DigitsOf(n, 10)
        BY <3>1, ReversedLow
      <3>3. text = LowFirst(n, 10)
        BY <2>3
      <3>4. IntText(n) = DigitsOf(n, 10)
        BY <2>3 DEF IntText
      <3> HIDE DEF text
      <3> QED  BY <3>2, <3>3, <3>4
    <2> QED  BY <2>1, <2>2, <2>3
  <1>3. UpToNul(IntText(n)) = IntText(n)
    <2>1. Clean(IntText(n))
      BY CleanInt
    <2>2. Sequence(IntText(n))
      BY <2>1 DEF Clean
    <2> QED  BY <2>1, <2>2, CleanIs
  <1> HIDE DEF text
  <1> QED
    BY <1>1, <1>2, <1>3

\* A text laid out is a sequence.
LEMMA LaidSequence ==
    ASSUME NEW d, d.width \in Nat, NEW pre, Sequence(pre), NEW bare, Sequence(bare)
    PROVE  Sequence(Laid(pre, bare, d))
  <1>1. PICK a : a = pre \o bare
    OBVIOUS
  <1>2. Sequence(a)
    BY <1>1, SequenceConcat
  <1>3. PICK f : f = d.width - Len(a)
    OBVIOUS
  <1>4. f \in Int
    BY <1>2, <1>3, SequenceLen
  <1>5. Sequence(Times(" ", f)) /\ Sequence(Times("0", f))
    BY <1>4, SequenceTimes
  <1>6. Sequence(a \o Times(" ", f)) /\ Sequence(Times(" ", f) \o a)
    BY <1>2, <1>5, SequenceConcat
  <1>7. Sequence((pre \o Times("0", f)) \o bare)
    <2>1. Sequence(pre \o Times("0", f))
      BY <1>5, SequenceConcat
    <2> QED  BY <2>1, SequenceConcat
  <1>8. Laid(pre, bare, d) \in {a \o Times(" ", f), Times(" ", f) \o a, (pre \o Times("0", f)) \o bare}
    BY <1>1, <1>3, Zenon DEF Laid
  <1> QED
    BY <1>6, <1>7, <1>8

\* The prefix of print_unsigned() and the digits.
UnsignedPrefix(n, base, pr) == IF n # 0 /\ pr.alternate /\ base = 16 THEN <<"0", "x">> ELSE <<>>

\* What print_unsigned() collects, last character first.
Backwards(n, base, pr) ==
    IF n = 0 THEN <<"0">>
    ELSE IF n # 0 /\ pr.alternate /\ base = 16 THEN LowFirst(n, base) \o <<"x", "0">>
    ELSE LowFirst(n, base)

\* What print_unsigned() reverses.
LEMMA UnsignedText ==
    ASSUME NEW n \in Nat, n < Pow2[LongBits], NEW base \in {10, 16}, NEW pr
    PROVE  Reverse(Backwards(n, base, pr)) = UnsignedPrefix(n, base, pr) \o DigitsOf(n, base)
  <1>0. PICK text : text = Backwards(n, base, pr)
    OBVIOUS
  <1>1. Sequence(DigitsOf(n, base))
    BY CleanDigits DEF Clean
  <1>2. PICK D : D = DigitsOf(n, base)
    OBVIOUS
  <1>3. <<>> \o D = D
    BY <1>1, <1>2, ConcatNothing
  <1>4. CASE n = 0
    <2>1. text = <<"0">> /\ D = <<"0">> /\ UnsignedPrefix(n, base, pr) = <<>>
      BY <1>0, <1>2, <1>4, ReversedLow DEF UnsignedPrefix, Backwards
    <2>2. Reverse(<<"0">>) = <<"0">>
      BY ReverseFew
    <2> QED  BY <1>0, <1>2, <1>3, <2>1, <2>2
  <1>5. CASE n # 0
    <2>1. PICK low : low = LowFirst(n, base)
      OBVIOUS
    <2>2. Reverse(low) = D /\ Sequence(low)
      BY <1>2, <1>5, <2>1, ReversedLow, SequenceLow
    <2>3. CASE pr.alternate /\ base = 16
      <3>1. text = low \o <<"x", "0">> /\ UnsignedPrefix(n, base, pr) = <<"0", "x">>
        BY <1>0, <1>5, <2>1, <2>3 DEF UnsignedPrefix, Backwards
      <3>2. PICK x : x = <<"x", "0">>
        OBVIOUS
      <3>3. Sequence(x) /\ Reverse(x) = <<"0", "x">>
        BY <3>2, SequenceOne, ReverseFew
      <3>4. Reverse(low \o x) = Reverse(x) \o Reverse(low)
        BY <2>2, <3>3, ReverseConcat
      <3> QED  BY <1>0, <1>2, <2>2, <3>1, <3>2, <3>3, <3>4
    <2>4. CASE ~(pr.alternate /\ base = 16)
      <3>1. text = low /\ UnsignedPrefix(n, base, pr) = <<>>
        BY <1>0, <1>5, <2>1, <2>4 DEF UnsignedPrefix, Backwards
      <3> QED  BY <1>0, <1>2, <1>3, <2>2, <3>1
    <2> QED  BY <2>3, <2>4
  <1> QED
    BY <1>4, <1>5

\* Zeros behind a prefix: the prefix is added first, the width is what it leaves.
LEMMA ZerosBehindPrefix ==
    ASSUME NEW size \in Nat \ {0}, NEW p, NEW t, Given(p, t, size), NEW w \in Nat,
           NEW x, Sequence(x), Len(x) = 2, NEW D, Sequence(D), NEW pr, pr.pad = "0",
           pr.npad = (IF w > 2 THEN w - 2 ELSE 0)
    PROVE  Given(print_str(addchars(p, x), D, pr),
                 t \o ((x \o Times("0", w - Len(x \o D))) \o D), size)
  <1>1. PICK l \in Nat : l = Len(D)
    BY SequenceLen
  <1>2. Len(x \o D) = 2 + l
    BY <1>1, SequenceConcat
  <1>3. PICK v \in Nat : v = IF w > 2 THEN w - 2 ELSE 0
    OBVIOUS
  <1>4. PICK q : q = addchars(p, x)
    OBVIOUS
  <1>5. print_str(q, D, pr) = addchars(q, Times("0", v - l) \o D)
    <2>1. pr.npad = v
      BY <1>3
    <2>2. print_str(q, D, pr) = addchars(q, Times(pr.pad, v - Len(D)) \o D)
      BY <2>1, PrintStrLeft
    <2> QED  BY <1>1, <2>2
  <1>6. Times("0", v - l) = Times("0", w - (2 + l))
    <2>1. CASE w > 2
      <3>1. v - l = w - (2 + l)
        BY <1>3, <2>1
      <3> QED  BY <3>1
    <2>2. CASE ~(w > 2)
      <3>1. PICK e \in Int : e = v - l
        OBVIOUS
      <3>2. PICK f \in Int : f = w - (2 + l)
        OBVIOUS
      <3>3. e <= 0 /\ f <= 0
        BY <1>3, <2>2, <3>1, <3>2
      <3>4. Times("0", e) = <<>> /\ Times("0", f) = <<>>
        BY <3>3, NoTimes
      <3> QED  BY <3>1, <3>2, <3>4
    <2> QED  BY <2>1, <2>2
  <1>7. PICK z : z = Times("0", w - (2 + l))
    OBVIOUS
  <1>8. Sequence(z)
    <2>1. w - (2 + l) \in Int
      OBVIOUS
    <2> QED  BY <1>7, <2>1, SequenceTimes
  <1>9. Given(q, t \o x, size)
    BY <1>4, AddsGiven
  <1>10. Sequence(z \o D)
    BY <1>8, SequenceConcat
  <1>11. Given(addchars(q, z \o D), (t \o x) \o (z \o D), size)
    BY <1>9, <1>10, AddsGiven
  <1>12. Sequence(t)
    BY DEF Given
  <1>13. (t \o x) \o (z \o D) = t \o (x \o (z \o D))
    <2>1. PICK zd : zd = z \o D
      OBVIOUS
    <2>2. (t \o x) \o zd = t \o (x \o zd)
      BY <1>10, <1>12, <2>1, ConcatThree, SMTT(30)
    <2> QED  BY <2>1, <2>2
  <1>14. (x \o z) \o D = x \o (z \o D)
    BY <1>8, ConcatThree, SMTT(30)
  <1> QED
    BY <1>2, <1>4, <1>5, <1>6, <1>7, <1>11, <1>13, <1>14

\* print_unsigned() adds prefix and digits, laid out.
LEMMA UnsignedGiven ==
    ASSUME NEW size \in Nat \ {0}, NEW p, NEW t, Given(p, t, size),
           NEW n \in Nat, n < Pow2[LongBits], NEW base \in {10, 16},
           NEW d, d.flags \in FlagSets, d.width \in Nat, NEW pr \in PropsType, PropsOf(d, pr),
           NEW pre, pre = UnsignedPrefix(n, base, pr), NEW D, D = DigitsOf(n, base)
    PROVE  Given(print_unsigned(p, n, base, pr), t \o Laid(pre, D, d), size)
  <1> DEFINE low    == LowFirst(n, base)
             prefix == n # 0 /\ pr.alternate /\ base = 16
             pr2    == [pr EXCEPT !.npad = IF @ > 0 THEN (IF @ > 2 THEN @ - 2 ELSE 0) ELSE @]
             text   == IF n = 0 THEN <<"0">> ELSE IF prefix THEN low \o <<"x", "0">> ELSE low
  <1>1. print_unsigned(p, n, base, pr) =
           IF prefix /\ pr.pad = "0"
           THEN print_str(addchars(p, <<"0", "x">>), Reverse(low), pr2)
           ELSE print_str(p, Reverse(text), pr)
    BY Zenon DEF print_unsigned
  <1>2. Sequence(D)
    BY CleanDigits DEF Clean
  <1>3. Sequence(pre)
    BY SequenceOne DEF UnsignedPrefix
  <1>4. pr.npad \in Int /\ pr.pad \in {" ", "0"} /\ pr2.pad = pr.pad
        /\ pr2.npad = IF pr.npad > 0 THEN (IF pr.npad > 2 THEN pr.npad - 2 ELSE 0) ELSE pr.npad
    BY DEF PropsType
  <1>5. Reverse(text) = pre \o D
    <2>1. text = Backwards(n, base, pr)
      BY Zenon DEF Backwards
    <2> HIDE DEF text
    <2>2. Reverse(Backwards(n, base, pr)) = UnsignedPrefix(n, base, pr) \o DigitsOf(n, base)
      BY UnsignedText
    <2> QED  BY <2>1, <2>2, Zenon
  <1>6. pr.pad = "0" <=> Has(d, "0")
    BY DEF PropsOf
  <1>7. pre = IF prefix THEN <<"0", "x">> ELSE <<>>
    BY DEF UnsignedPrefix
  <1>8. n # 0 => Reverse(low) = D
    BY ReversedLow
  <1>9. prefix => n # 0
    OBVIOUS
  <1> HIDE DEF low, prefix, pr2, text
  <1>10. CASE prefix /\ pr.pad = "0"
    <2>1. PICK w \in Nat : w = d.width
      OBVIOUS
    <2>2. Has(d, "0") /\ ~Has(d, "-")
      BY <1>6, <1>10, FlagsAre
    <2>3. pr.npad = w
      BY <2>1, <2>2 DEF PropsOf
    <2>4. pr2.pad = "0" /\ pr2.npad = (IF w > 2 THEN w - 2 ELSE 0)
      BY <1>4, <1>10, <2>3
    <2>5. pre = <<"0", "x">> /\ Len(pre) = 2
      BY <1>7, <1>10, SequenceOne
    <2>6. print_unsigned(p, n, base, pr) = print_str(addchars(p, pre), D, pr2)
      BY <1>1, <1>8, <1>9, <1>10, <2>5
    <2>7. Laid(pre, D, d) = (pre \o Times("0", w - Len(pre \o D))) \o D
      BY <2>1, <2>2 DEF Laid
    <2>8. Given(print_str(addchars(p, pre), D, pr2),
                t \o ((pre \o Times("0", w - Len(pre \o D))) \o D), size)
      BY <1>2, <1>3, <2>4, <2>5, ZerosBehindPrefix
    <2> QED  BY <2>6, <2>7, <2>8
  <1>11. CASE ~(prefix /\ pr.pad = "0")
    <2>1. print_unsigned(p, n, base, pr) = print_str(p, pre \o D, pr)
      BY <1>1, <1>5, <1>11
    <2>2. pre = <<>> \/ ~Has(d, "0")
      BY <1>6, <1>7, <1>11
    <2>3. print_str(p, pre \o D, pr) = addchars(p, Laid(pre, D, d))
      BY <1>2, <1>3, <2>2, PrintStrLaid
    <2>4. Sequence(Laid(pre, D, d))
      BY <1>2, <1>3, LaidSequence
    <2>5. Given(addchars(p, Laid(pre, D, d)), t \o Laid(pre, D, d), size)
      BY <2>4, AddsGiven
    <2> QED  BY <2>1, <2>3, <2>5
  <1> QED
    BY <1>10, <1>11

\* print_str() adds a text without prefix, laid out.
LEMMA StringGiven ==
    ASSUME NEW size \in Nat \ {0}, NEW p, NEW t, Given(p, t, size), NEW str, Sequence(str),
           NEW d, d.flags \in FlagSets, d.width \in Nat, NEW pr, PropsOf(d, pr)
    PROVE  Given(print_str(p, str, pr), t \o Laid(<<>>, str, d), size)
  <1>1. PICK e : e = <<>>
    OBVIOUS
  <1>2. Sequence(e) /\ e \o str = str
    BY <1>1, SequenceOne, ConcatNothing
  <1>3. print_str(p, e \o str, pr) = addchars(p, Laid(e, str, d))
    <2>1. e = <<>> \/ ~Has(d, "0")
      BY <1>1
    <2>2. Sequence(e)
      BY <1>2
    <2> QED  BY <2>1, <2>2, PrintStrLaid
  <1>4. Sequence(Laid(e, str, d))
    BY <1>2, LaidSequence
  <1>5. Given(addchars(p, Laid(e, str, d)), t \o Laid(e, str, d), size)
    BY <1>4, AddsGiven
  <1> QED
    BY <1>1, <1>2, <1>3, <1>5

\* A directive with a meaning.
DirOK(d) == d \in Directives /\ Legal(d)

\* Its parts.
LEMMA DirParts ==
    ASSUME NEW d, DirOK(d)
    PROVE  /\ d.flags \in FlagSets /\ d.width \in 0 .. INT_MAX /\ d.width \in Nat /\ d.mods \in Modifiers
           /\ d.int \in Nat /\ d.int < Pow2[LongBits] /\ Clean(d.str) /\ Sequence(d.str)
  <1>1. /\ d.width \in 0 .. INT_MAX /\ d.width \in Nat /\ d.int \in Nat
        /\ d.str \in Seq(STRING)
    <2>1. d.width \in 0 .. INT_MAX /\ d.int \in Nat /\ d.str \in Seq(STRING)
      BY DEF DirOK, Directives
    <2> QED  BY <2>1, WidthBound
  <1>2. Sequence(d.str)
    BY <1>1 DEF Sequence
  <1>3. Clean(d.str)
    BY <1>2, CleanIs DEF DirOK, Legal
  <1> QED
    BY <1>1, <1>2, <1>3 DEF DirOK, Legal

\* Its argument, as va_arg() delivers it.
LEMMA ArgumentBounds ==
    ASSUME NEW d, DirOK(d), NEW w, w = WidthOf(d)
    PROVE  /\ Unsigned(d.int, w) \in Nat /\ Unsigned(d.int, w) < Pow2[LongBits]
           /\ Signed(d.int, w) \in Int /\ Signed(d.int, w) < Pow2[LongBits]
           /\ -Signed(d.int, w) < Pow2[LongBits]
  <1>1. w \in Nat \ {0} /\ w <= LongBits /\ LongBits \in Nat
    BY PrintfAssumption DEF WidthOf
  <1>2. PICK v \in Nat : v = d.int
    BY DirParts
  <1>3. PICK L \in Nat \ {0} : L = Pow2[LongBits]
    BY <1>1, Pow2Positive
  <1>4. v < L
    BY <1>2, <1>3, DirParts
  <1>5. PICK m \in Nat \ {0} : m = Pow2[w]
    BY <1>1, Pow2Positive
  <1>6. m <= L
    <2>1. w \in Nat
      BY <1>1
    <2> QED  BY <1>1, <1>3, <1>5, <2>1, Pow2Grow
  <1>7. PICK h \in Nat \ {0} : h = Pow2[w - 1]
    <2>1. w - 1 \in Nat
      BY <1>1
    <2> QED  BY <2>1, Pow2Positive
  <1>8. PICK u : u = v % m
    OBVIOUS
  <1>9. u \in Nat /\ u < m /\ u <= v
    BY <1>8
  <1>10. Unsigned(d.int, w) = u
    BY <1>2, <1>5, <1>8 DEF Unsigned
  <1>11. Signed(d.int, w) = IF u < h THEN u ELSE u - m
    BY <1>5, <1>7, <1>10 DEF Signed
  <1>12. PICK n : n = IF u < h THEN u ELSE u - m
    OBVIOUS
  <1>13. n \in Int /\ n < L /\ -n < L
    BY <1>4, <1>6, <1>9, <1>12
  <1> QED
    BY <1>3, <1>4, <1>9, <1>10, <1>11, <1>12, <1>13

\* The text of a directive without its padding, case by case.
LEMMA BareIs ==
    ASSUME NEW d
    PROVE  /\ d.conv = "d" => Bare(d) = IntText(Signed(d.int, WidthOf(d)))
           /\ d.conv = "u" => Bare(d) = DigitsOf(Unsigned(d.int, WidthOf(d)), 10)
           /\ d.conv = "x" => Bare(d) = DigitsOf(Unsigned(d.int, WidthOf(d)), 16)
           /\ d.conv = "p" => Bare(d) = DigitsOf(d.int, 16)
           /\ d.conv \in {"s", "c"} => Bare(d) = d.str
           /\ d.conv = End => Bare(d) = <<>>
           /\ d.conv \notin {"d", "u", "x", "p", "s", "c", End} => Bare(d) = <<d.conv>>
  <1>1. ASSUME d.conv = "d" PROVE Bare(d) = IntText(Signed(d.int, WidthOf(d)))
    BY <1>1 DEF Bare, IntText, End
  <1>2. ASSUME d.conv = "u" PROVE Bare(d) = DigitsOf(Unsigned(d.int, WidthOf(d)), 10)
    BY <1>2 DEF Bare, End
  <1>3. ASSUME d.conv = "x" PROVE Bare(d) = DigitsOf(Unsigned(d.int, WidthOf(d)), 16)
    BY <1>3 DEF Bare, End
  <1>4. ASSUME d.conv = "p" PROVE Bare(d) = DigitsOf(d.int, 16)
    BY <1>4 DEF Bare, End
  <1>5. ASSUME d.conv \in {"s", "c"} PROVE Bare(d) = d.str
    BY <1>5 DEF Bare, End
  <1>6. ASSUME d.conv = End PROVE Bare(d) = <<>>
    BY <1>6 DEF Bare, End
  <1>7. ASSUME d.conv \notin {"d", "u", "x", "p", "s", "c", End} PROVE Bare(d) = <<d.conv>>
    BY <1>7 DEF Bare
  <1> QED
    BY <1>1, <1>2, <1>3, <1>4, <1>5, <1>6, <1>7

\* The 0x in front of a hexadecimal number.
PrefixOf(d) == IF HexPrefix(d) THEN <<"0", "x">> ELSE <<>>

\* The text of a directive is laid out, or stands for itself.
LEMMA TextOfIs ==
    ASSUME NEW d
    PROVE  /\ d.conv \in {"d", "u", "x", "p", "s"} => TextOf(d) = Laid(PrefixOf(d), Bare(d), d)
           /\ d.conv \notin {"d", "u", "x", "p", "s"} => TextOf(d) = Bare(d)
  <1>1. ASSUME d.conv \in {"d", "u", "x", "p", "s"}
        PROVE  TextOf(d) = Laid(PrefixOf(d), Bare(d), d)
    <2>1. ~(d.conv = "c" \/ ~Takes(d))
      BY <1>1 DEF Takes
    <2>2. CASE Has(d, "-")
      BY <2>1, <2>2 DEF TextOf, Laid, PrefixOf
    <2>3. CASE ~Has(d, "-") /\ Has(d, "0")
      BY <2>1, <2>3 DEF TextOf, Laid, PrefixOf
    <2>4. CASE ~Has(d, "-") /\ ~Has(d, "0")
      BY <2>1, <2>4 DEF TextOf, Laid, PrefixOf
    <2> QED  BY <2>2, <2>3, <2>4
  <1>2. ASSUME d.conv \notin {"d", "u", "x", "p", "s"} PROVE TextOf(d) = Bare(d)
    <2>1. d.conv = "c" \/ ~Takes(d)
      BY <1>2 DEF Takes
    <2> QED  BY <2>1 DEF TextOf
  <1> QED
    BY <1>1, <1>2

\* What is laid out is a string if its parts are.
LEMMA CleanLaid ==
    ASSUME NEW d, d.width \in Nat, NEW pre, Clean(pre), NEW bare, Clean(bare)
    PROVE  Clean(Laid(pre, bare, d))
  <1>1. PICK a : a = pre \o bare
    OBVIOUS
  <1>2. Clean(a)
    BY <1>1, CleanConcat
  <1>3. PICK f : f = d.width - Len(a)
    OBVIOUS
  <1>4. f \in Int
    <2>1. Sequence(a)
      BY <1>2 DEF Clean
    <2> QED  BY <1>3, <2>1, SequenceLen
  <1>5. Clean(Times(" ", f)) /\ Clean(Times("0", f))
    BY <1>4, CleanPieces DEF NulChar
  <1>6. Clean(a \o Times(" ", f)) /\ Clean(Times(" ", f) \o a)
    BY <1>2, <1>5, CleanConcat
  <1>7. Clean((pre \o Times("0", f)) \o bare)
    <2>1. Clean(pre \o Times("0", f))
      BY <1>5, CleanConcat
    <2> QED  BY <2>1, CleanConcat
  <1>8. Laid(pre, bare, d) \in {a \o Times(" ", f), Times(" ", f) \o a, (pre \o Times("0", f)) \o bare}
    BY <1>1, <1>3, Zenon DEF Laid
  <1> QED
    BY <1>6, <1>7, <1>8

\* The text of a legal directive is a string.
LEMMA CleanText ==
    ASSUME NEW d, DirOK(d)
    PROVE  Clean(TextOf(d))
  <1>1. Clean(PrefixOf(d))
    BY CleanPieces DEF PrefixOf, NulChar
  <1>2. Clean(Bare(d))
    <2>1. CASE d.conv = "d"
      <3>1. PICK n \in Int : n = Signed(d.int, WidthOf(d))
        BY ArgumentBounds
      <3>2. n < Pow2[LongBits] /\ -n < Pow2[LongBits]
        BY <3>1, ArgumentBounds
      <3>3. Clean(IntText(n))
        BY <3>2, CleanInt
      <3> QED  BY <2>1, <3>1, <3>3, BareIs
    <2>2. CASE d.conv \in {"u", "x"}
      <3>1. PICK n \in Nat : n = Unsigned(d.int, WidthOf(d))
        BY ArgumentBounds
      <3>2. n < Pow2[LongBits]
        BY <3>1, ArgumentBounds
      <3>3. Clean(DigitsOf(n, 10)) /\ Clean(DigitsOf(n, 16))
        BY <3>2, CleanDigits
      <3> QED  BY <2>2, <3>1, <3>3, BareIs
    <2>3. CASE d.conv = "p"
      <3>1. Clean(DigitsOf(d.int, 16))
        BY DirParts, CleanDigits
      <3> QED  BY <2>3, <3>1, BareIs
    <2>4. CASE d.conv \in {"s", "c"}
      BY <2>4, BareIs, DirParts
    <2>5. CASE d.conv = End
      BY <2>5, BareIs, CleanPieces
    <2>6. CASE d.conv \notin {"d", "u", "x", "p", "s", "c", End}
      <3>1. d.conv # NulChar
        BY DEF DirOK, Legal
      <3>2. Bare(d) = <<d.conv>>
        BY <2>6, BareIs
      <3> QED  BY <3>1, <3>2, CleanPieces
    <2> QED  BY <2>1, <2>2, <2>3, <2>4, <2>5, <2>6
  <1>3. d.width \in Nat
    BY DirParts
  <1>4. Clean(Laid(PrefixOf(d), Bare(d), d))
    BY <1>1, <1>2, <1>3, CleanLaid
  <1> QED
    BY <1>2, <1>4, TextOfIs

\* The stream has been given the text t and is handed the properties of d.
Ready(p, t, size, d, pr) ==
    /\ size \in Nat \ {0} /\ Given(p, t, size) /\ DirOK(d)
    /\ pr \in PropsType /\ PropsOf(d, pr) /\ (pr.alternate <=> Has(d, "#"))

\* %d adds its text ...
LEMMA IntAdds ==
    ASSUME NEW p, NEW t, NEW size, NEW d, NEW pr, Ready(p, t, size, d, pr), d.conv = "d",
           NEW junk
    PROVE  Given(print_int(p, Signed(d.int, WidthOf(d)), pr, junk), t \o TextOf(d), size)
  <1>1. PICK n \in Int : n = Signed(d.int, WidthOf(d))
    BY ArgumentBounds DEF Ready
  <1>2. n < Pow2[LongBits] /\ -n < Pow2[LongBits]
    BY <1>1, ArgumentBounds DEF Ready
  <1>3. n # LLONG_MIN
    BY <1>1 DEF Ready, DirOK, Legal, Smallest
  <1>4. print_int(p, n, pr, junk) = print_str(p, IntText(n), pr)
    BY <1>2, <1>3, PrintIntIs
  <1>5. Sequence(IntText(n))
    BY <1>2, CleanInt DEF Clean
  <1>6. size \in Nat \ {0} /\ Given(p, t, size) /\ DirOK(d) /\ PropsOf(d, pr)
    BY DEF Ready
  <1>7. d.flags \in FlagSets /\ d.width \in Nat
    BY <1>6, DirParts
  <1>8. PICK str : str = IntText(n)
    OBVIOUS
  <1>9. Given(print_str(p, str, pr), t \o Laid(<<>>, str, d), size)
    BY <1>5, <1>6, <1>7, <1>8, StringGiven
  <1>10. TextOf(d) = Laid(<<>>, str, d)
    <2>1. PrefixOf(d) = <<>>
      BY DEF PrefixOf, HexPrefix
    <2>2. Bare(d) = str
      BY <1>1, <1>8, BareIs
    <2> QED  BY <2>1, <2>2, TextOfIs
  <1> QED
    BY <1>1, <1>4, <1>8, <1>9, <1>10

\* ... %u and %x theirs ...
LEMMA UnsignedAdds ==
    ASSUME NEW p, NEW t, NEW size, NEW d, NEW pr, Ready(p, t, size, d, pr),
           d.conv \in {"u", "x"}, NEW base, base = (IF d.conv = "x" THEN 16 ELSE 10)
    PROVE  Given(print_unsigned(p, Unsigned(d.int, WidthOf(d)), base, pr), t \o TextOf(d), size)
  <1>1. PICK n \in Nat : n = Unsigned(d.int, WidthOf(d))
    BY ArgumentBounds DEF Ready
  <1>2. n < Pow2[LongBits]
    BY <1>1, ArgumentBounds DEF Ready
  <1>3. /\ size \in Nat \ {0} /\ Given(p, t, size) /\ DirOK(d) /\ PropsOf(d, pr)
        /\ pr \in PropsType /\ (pr.alternate <=> Has(d, "#"))
    BY DEF Ready
  <1>4. d.flags \in FlagSets /\ d.width \in Nat
    BY <1>3, DirParts
  <1>5. PICK pre, D : pre = UnsignedPrefix(n, base, pr) /\ D = DigitsOf(n, base)
    OBVIOUS
  <1>6. Given(print_unsigned(p, n, base, pr), t \o Laid(pre, D, d), size)
    <2>1. base \in {10, 16} /\ pre = UnsignedPrefix(n, base, pr) /\ D = DigitsOf(n, base)
      BY <1>5
    <2> QED  BY <1>2, <1>3, <1>4, <2>1, UnsignedGiven
  <1>7. TextOf(d) = Laid(pre, D, d)
    <2>1. PrefixOf(d) = pre
      <3>1. HexPrefix(d) <=> (n # 0 /\ pr.alternate /\ base = 16)
        BY <1>1, <1>3 DEF HexPrefix
      <3> QED  BY <1>5, <3>1 DEF PrefixOf, UnsignedPrefix
    <2>2. Bare(d) = D
      BY <1>1, <1>5, BareIs
    <2> QED  BY <2>1, <2>2, TextOfIs
  <1> QED
    BY <1>1, <1>6, <1>7

\* ... %p its own, in the alternate form ...
LEMMA PointerAdds ==
    ASSUME NEW p, NEW t, NEW size, NEW d, NEW pr, Ready(p, t, size, d, pr), d.conv = "p"
    PROVE  Given(print_unsigned(p, d.int, 16, [pr EXCEPT !.alternate = TRUE]), t \o TextOf(d), size)
  <1>1. /\ size \in Nat \ {0} /\ Given(p, t, size) /\ DirOK(d) /\ PropsOf(d, pr)
        /\ pr \in PropsType
    BY DEF Ready
  <1>2. PICK n \in Nat : n = d.int
    BY <1>1, DirParts
  <1>3. n < Pow2[LongBits] /\ d.flags \in FlagSets /\ d.width \in Nat
    BY <1>1, <1>2, DirParts
  <1>4. PICK q : q = [pr EXCEPT !.alternate = TRUE]
    OBVIOUS
  <1>5. q \in PropsType /\ PropsOf(d, q) /\ q.alternate = TRUE
    BY <1>1, <1>4 DEF PropsType, PropsOf
  <1>6. PICK base \in {10, 16} : base = 16
    OBVIOUS
  <1>7. PICK pre, D : pre = UnsignedPrefix(n, base, q) /\ D = DigitsOf(n, base)
    OBVIOUS
  <1>8. Given(print_unsigned(p, n, base, q), t \o Laid(pre, D, d), size)
    BY <1>1, <1>3, <1>5, <1>7, UnsignedGiven
  <1>9. TextOf(d) = Laid(pre, D, d)
    <2>1. PrefixOf(d) = pre
      <3>1. HexPrefix(d) <=> (n # 0 /\ q.alternate /\ base = 16)
        BY <1>2, <1>5, <1>6 DEF HexPrefix
      <3> QED  BY <1>7, <3>1 DEF PrefixOf, UnsignedPrefix
    <2>2. Bare(d) = D
      BY <1>2, <1>6, <1>7, BareIs
    <2> QED  BY <2>1, <2>2, TextOfIs
  <1> QED
    BY <1>2, <1>4, <1>6, <1>8, <1>9

\* ... %s a string ...
LEMMA StringAdds ==
    ASSUME NEW p, NEW t, NEW size, NEW d, NEW pr, Ready(p, t, size, d, pr), d.conv = "s"
    PROVE  Given(print_str(p, d.str, pr), t \o TextOf(d), size)
  <1>1. size \in Nat \ {0} /\ Given(p, t, size) /\ DirOK(d) /\ PropsOf(d, pr)
    BY DEF Ready
  <1>2. d.flags \in FlagSets /\ d.width \in Nat /\ Sequence(d.str)
    BY <1>1, DirParts
  <1>3. PICK str : str = d.str
    OBVIOUS
  <1>4. Given(print_str(p, str, pr), t \o Laid(<<>>, str, d), size)
    BY <1>1, <1>2, <1>3, StringGiven
  <1>5. TextOf(d) = Laid(<<>>, str, d)
    <2>1. PrefixOf(d) = <<>>
      BY DEF PrefixOf, HexPrefix
    <2>2. Bare(d) = str
      BY <1>3, BareIs
    <2> QED  BY <2>1, <2>2, TextOfIs
  <1> QED
    BY <1>3, <1>4, <1>5

\* ... %c one character, and any other character itself.
LEMMA CharAdds ==
    ASSUME NEW p, NEW t, NEW size \in Nat \ {0}, Given(p, t, size), NEW d, DirOK(d),
           d.conv \notin {"d", "u", "x", "p", "s", End},
           NEW c, c = (IF d.conv = "c" THEN d.str[1] ELSE d.conv)
    PROVE  Given(addchar(p, c), t \o TextOf(d), size)
  <1>1. TextOf(d) = <<c>>
    <2>1. CASE d.conv = "c"
      <3>1. PICK s : s = d.str
        OBVIOUS
      <3>2. Sequence(s) /\ Len(s) = 1
        BY <2>1, <3>1, DirParts DEF DirOK, Legal
      <3>3. PICK o : o = <<c>>
        OBVIOUS
      <3>4. Sequence(o) /\ Len(o) = 1 /\ o[1] = c /\ s[1] = c
        BY <2>1, <3>1, <3>3, SequenceOne
      <3>5. \A k \in 1 .. Len(s) : s[k] = o[k]
        BY <3>2, <3>4
      <3>6. s = o
        BY <3>2, <3>4, <3>5, SequenceEqual
      <3>7. TextOf(d) = s
        BY <2>1, <3>1, TextOfIs, BareIs
      <3> QED  BY <3>3, <3>6, <3>7
    <2>2. CASE d.conv # "c"
      <3>1. TextOf(d) = Bare(d)
        BY TextOfIs
      <3>2. Bare(d) = <<d.conv>>
        BY <2>2, BareIs
      <3> QED  BY <2>2, <3>1, <3>2
    <2> QED  BY <2>1, <2>2
  <1>2. Sequence(<<c>>)
    BY SequenceOne
  <1>3. PICK u : u = <<c>>
    OBVIOUS
  <1>4. Given(addchars(p, u), t \o u, size)
    BY <1>2, <1>3, AddsGiven
  <1> QED
    BY <1>1, <1>3, <1>4 DEF addchar

-----------------------------------------------------------------------------
(* Printf: a format, directive by directive. *)

\* The flags and the number of a directive, as vsnprintf() reads them.
HashOf(d) == IF Has(d, "#") THEN <<"#">> ELSE <<>>
SignOf(d) == IF Has(d, "-") THEN <<"-">> ELSE IF Has(d, "0") THEN <<"0">> ELSE <<>>
NumberOf(d) == IF d.width = 0 THEN <<>> ELSE DigitsOf(d.width, 10)
ConvOf(d) == IF d.conv = End THEN <<>> ELSE <<d.conv>>

\* What is left of a format behind each part of d, if r follows d.
FromConv(d, r) == ConvOf(d) \o r
FromMods(d, r) == d.mods \o FromConv(d, r)
FromNumber(d, r) == SignOf(d) \o (NumberOf(d) \o FromMods(d, r))
FromHash(d, r) == HashOf(d) \o FromNumber(d, r)

\* All of these are sequences.
LEMMA PartsOf ==
    ASSUME NEW d, DirOK(d), NEW r, Sequence(r)
    PROVE  /\ Sequence(HashOf(d)) /\ Sequence(SignOf(d)) /\ Sequence(NumberOf(d))
           /\ Sequence(d.mods) /\ Sequence(ConvOf(d)) /\ Sequence(d.flags)
           /\ Sequence(FromConv(d, r)) /\ Sequence(FromMods(d, r))
           /\ Sequence(NumberOf(d) \o FromMods(d, r))
           /\ Sequence(FromNumber(d, r)) /\ Sequence(FromHash(d, r))
  <1>1. /\ Sequence(HashOf(d)) /\ Sequence(SignOf(d)) /\ Sequence(NumberOf(d))
        /\ Sequence(ConvOf(d))
    <2>1. d.width \in 0 .. INT_MAX
      BY DEF DirOK, Directives
    <2>2. Sequence(DigitsOf(d.width, 10))
      BY <2>1, WidthBound
    <2> QED  BY <2>2, SequenceOne DEF HashOf, SignOf, NumberOf, ConvOf
  <1>2. Sequence(d.mods) /\ Sequence(d.flags)
    BY DEF DirOK, Directives, Sequence
  <1>3. Sequence(FromConv(d, r))
    BY <1>1, SequenceConcat DEF FromConv
  <1>4. Sequence(FromMods(d, r))
    BY <1>2, <1>3, SequenceConcat DEF FromMods
  <1>5. Sequence(NumberOf(d) \o FromMods(d, r))
    BY <1>1, <1>4, SequenceConcat
  <1>6. Sequence(FromNumber(d, r))
    BY <1>1, <1>5, SequenceConcat DEF FromNumber
  <1>7. Sequence(FromHash(d, r))
    BY <1>1, <1>6, SequenceConcat DEF FromHash
  <1> QED
    BY <1>1, <1>2, <1>3, <1>4, <1>5, <1>6, <1>7

\* The flags are a # and a sign, or one or none of them.
LEMMA FlagsSplit ==
    ASSUME NEW d, DirOK(d)
    PROVE  d.flags = HashOf(d) \o SignOf(d)
  <1>1. PICK f : f = d.flags
    OBVIOUS
  <1>2. f \in FlagSets
    BY <1>1, DirParts
  <1>3. PICK o, z, m : o = <<"#">> /\ z = <<"0">> /\ m = <<"-">>
    OBVIOUS
  <1>4. Sequence(<<>>) /\ Sequence(o) /\ Sequence(z) /\ Sequence(m)
    BY <1>3, SequenceOne
  <1>5. /\ <<>> \o <<>> = <<>> /\ <<>> \o z = z /\ <<>> \o m = m /\ o \o <<>> = o
    BY <1>4, ConcatNothing
  <1>6. o \o z = <<"#", "0">> /\ o \o m = <<"#", "-">>
    BY <1>3, ConcatOnes
  <1>7. /\ Has(d, "-") <=> f \in {m, <<"#", "-">>}
        /\ Has(d, "0") <=> f \in {z, <<"#", "0">>}
        /\ Has(d, "#") <=> f \in {o, <<"#", "0">>, <<"#", "-">>}
    BY <1>1, <1>2, <1>3, FlagsAre
  <1>8. f \in {<<>>, z, m, o, <<"#", "0">>, <<"#", "-">>}
    BY <1>2, <1>3 DEF FlagSets
  <1>9. /\ z # m /\ z # o /\ m # o /\ <<"#", "0">> # <<"#", "-">>
        /\ \A x \in {<<>>, z, m, o} : x # <<"#", "0">> /\ x # <<"#", "-">>
        /\ \A x \in {z, m, o} : x # <<>>
    BY <1>3
  <1>10. CASE f \in {<<>>, z, m}
    <2>1. HashOf(d) = <<>> /\ SignOf(d) = f
      BY <1>3, <1>7, <1>9, <1>10 DEF HashOf, SignOf
    <2> QED  BY <1>1, <1>5, <1>10, <2>1
  <1>11. CASE f = o
    <2>1. HashOf(d) = o /\ SignOf(d) = <<>>
      BY <1>3, <1>7, <1>9, <1>11 DEF HashOf, SignOf
    <2> QED  BY <1>1, <1>5, <1>11, <2>1
  <1>12. CASE f = <<"#", "0">>
    <2>1. HashOf(d) = o /\ SignOf(d) = z
      BY <1>3, <1>7, <1>9, <1>12 DEF HashOf, SignOf
    <2> QED  BY <1>1, <1>6, <1>12, <2>1
  <1>13. CASE f = <<"#", "-">>
    <2>1. HashOf(d) = o /\ SignOf(d) = m
      BY <1>3, <1>7, <1>9, <1>13 DEF HashOf, SignOf
    <2> QED  BY <1>1, <1>6, <1>13, <2>1
  <1> QED
    BY <1>8, <1>10, <1>11, <1>12, <1>13

\* The text of a directive in a format, and what follows.
Nested(lead, d, r) ==
    (lead \o <<"%">> \o d.flags \o NumberOf(d) \o d.mods \o ConvOf(d)) \o r
      = lead \o (<<"%">> \o FromHash(d, r))

\* It can be read part by part.
LEMMA FormatNested ==
    ASSUME NEW lead, Sequence(lead), NEW d, DirOK(d), NEW r, Sequence(r)
    PROVE  Nested(lead, d, r)
  <1>1. PICK o, h, s, w, m, c :
           o = <<"%">> /\ h = HashOf(d) /\ s = SignOf(d) /\ w = NumberOf(d) /\ m = d.mods /\ c = ConvOf(d)
    OBVIOUS
  <1>2. Sequence(o) /\ Sequence(h) /\ Sequence(s) /\ Sequence(w) /\ Sequence(m) /\ Sequence(c)
    BY <1>1, PartsOf, SequenceOne
  <1>3. PICK f : f = d.flags
    OBVIOUS
  <1>4. f = h \o s /\ Sequence(f)
    BY <1>1, <1>3, FlagsSplit, PartsOf
  <1>5. PICK a1 : a1 = lead \o o
    OBVIOUS
  <1>6. PICK a2 : a2 = a1 \o f
    OBVIOUS
  <1>7. PICK a3 : a3 = a2 \o w
    OBVIOUS
  <1>8. PICK a4 : a4 = a3 \o m
    OBVIOUS
  <1>9. Sequence(a1)
    BY <1>2, <1>5, SequenceConcat
  <1>10. Sequence(a2)
    BY <1>4, <1>6, <1>9, SequenceConcat
  <1>11. Sequence(a3)
    BY <1>2, <1>7, <1>10, SequenceConcat
  <1>12. Sequence(a4)
    BY <1>2, <1>8, <1>11, SequenceConcat
  <1>13. PICK r1 : r1 = FromConv(d, r)
    OBVIOUS
  <1>14. PICK r2 : r2 = FromMods(d, r)
    OBVIOUS
  <1>15. PICK r3 : r3 = w \o r2
    OBVIOUS
  <1>16. PICK r4 : r4 = FromNumber(d, r)
    OBVIOUS
  <1>17. PICK r5 : r5 = FromHash(d, r)
    OBVIOUS
  <1>18. Sequence(r1) /\ Sequence(r2) /\ Sequence(r3) /\ Sequence(r4) /\ Sequence(r5)
    BY <1>1, <1>13, <1>14, <1>15, <1>16, <1>17, PartsOf
  <1>19. (a4 \o c) \o r = a4 \o r1
    <2>1a. Sequence(a4) /\ Sequence(c) /\ Sequence(r)
      BY <1>2, <1>12
    <2>1. (a4 \o c) \o r = a4 \o (c \o r)
      BY <2>1a, ConcatThree, SMTT(30)
    <2> QED  BY <1>1, <1>13, <2>1 DEF FromConv
  <1>20. a4 \o r1 = a3 \o r2
    <2>1a. Sequence(a3) /\ Sequence(m) /\ Sequence(r1)
      BY <1>2, <1>11, <1>18
    <2>1. (a3 \o m) \o r1 = a3 \o (m \o r1)
      BY <2>1a, ConcatThree, SMTT(30)
    <2> QED  BY <1>1, <1>8, <1>13, <1>14, <2>1 DEF FromMods
  <1>21. a3 \o r2 = a2 \o r3
    <2>1a. Sequence(a2) /\ Sequence(w) /\ Sequence(r2)
      BY <1>2, <1>10, <1>18
    <2>1. (a2 \o w) \o r2 = a2 \o (w \o r2)
      BY <2>1a, ConcatThree, SMTT(30)
    <2> QED  BY <1>7, <1>15, <2>1
  <1>22. a2 \o r3 = a1 \o r5
    <2>1a. Sequence(a1) /\ Sequence(f) /\ Sequence(r3)
      BY <1>4, <1>9, <1>18
    <2>1. (a1 \o f) \o r3 = a1 \o (f \o r3)
      BY <2>1a, ConcatThree, SMTT(30)
    <2>2a. Sequence(h) /\ Sequence(s) /\ Sequence(r3)
      BY <1>2, <1>18
    <2>2. (h \o s) \o r3 = h \o (s \o r3)
      BY <2>2a, ConcatThree, SMTT(30)
    <2>3. r4 = s \o r3
      BY <1>1, <1>14, <1>15, <1>16 DEF FromNumber
    <2>4. r5 = h \o r4
      BY <1>1, <1>16, <1>17 DEF FromHash
    <2> QED  BY <1>4, <1>6, <2>1, <2>2, <2>3, <2>4
  <1>23. a1 \o r5 = lead \o (o \o r5)
    <2>1a. Sequence(lead) /\ Sequence(o) /\ Sequence(r5)
      BY <1>2, <1>18
    <2>1. (lead \o o) \o r5 = lead \o (o \o r5)
      BY <2>1a, ConcatThree, SMTT(30)
    <2> QED  BY <1>5, <2>1
  <1>24. (a4 \o c) \o r = lead \o (o \o r5)
    BY <1>19, <1>20, <1>21, <1>22, <1>23
  <1>25. a4 \o c = lead \o <<"%">> \o d.flags \o NumberOf(d) \o d.mods \o ConvOf(d)
    BY <1>1, <1>3, <1>5, <1>6, <1>7, <1>8
  <1> QED
    BY <1>1, <1>17, <1>24, <1>25 DEF Nested

\* The conditions of LegalJob, on any call.
LegalCall(j) ==
    /\ "%" \notin Range(j.lead) /\ NulChar \notin Range(j.lead)
    /\ \A k \in DOMAIN j.dirs :
          Legal(j.dirs[k]) /\ (j.dirs[k].conv = End => k = Len(j.dirs))

\* A call of n directives.
Call(j, n) ==
    /\ n \in Nat /\ n = Len(j.dirs) /\ j.dirs \in Seq(Directives) /\ j.size \in Nat \ {0}
    /\ Clean(j.lead) /\ Sequence(j.lead) /\ \A k \in 1 .. Len(j.lead) : j.lead[k] # "%"
    /\ \A k \in 1 .. n : DirOK(j.dirs[k]) /\ (j.dirs[k].conv = End => k = n)

\* A legal call is one.
LEMMA CallIs ==
    ASSUME NEW j \in Jobs, LegalCall(j)
    PROVE  Call(j, Len(j.dirs))
  <1>1. j.dirs \in Seq(Directives) /\ j.lead \in Seq(STRING) /\ j.size \in Nat \ {0}
    BY PrintfAssumption
  <1>2. Len(j.dirs) \in Nat /\ DOMAIN j.dirs = 1 .. Len(j.dirs)
    BY <1>1
  <1>3. Sequence(j.lead) /\ DOMAIN j.lead = 1 .. Len(j.lead)
    BY <1>1 DEF Sequence
  <1>4. Clean(j.lead)
    BY <1>3, CleanIs DEF LegalCall
  <1>5. \A k \in 1 .. Len(j.lead) : j.lead[k] # "%"
    BY <1>3 DEF LegalCall, Range
  <1>6. ASSUME NEW k \in 1 .. Len(j.dirs)
        PROVE  DirOK(j.dirs[k]) /\ (j.dirs[k].conv = End => k = Len(j.dirs))
    <2>1. j.dirs[k] \in Directives
      BY <1>1
    <2> QED  BY <1>2, <2>1 DEF LegalCall, DirOK
  <1> QED
    BY <1>1, <1>2, <1>3, <1>4, <1>5, <1>6 DEF Call

\* F[k] is the format behind its first k directives ...
FmtPlan(j, n, F) ==
    /\ FormatOf(j.lead, j.dirs) = F[0] /\ F[n] = <<>> /\ \A k \in 0 .. n : Sequence(F[k])
    /\ \A k \in 1 .. n : F[k - 1] = j.lead \o (<<"%">> \o FromHash(j.dirs[k], F[k]))

\* ... A[k] the arguments of the others ...
ArgPlan(j, n, A) ==
    /\ ArgsOf(j.dirs) = A[0] /\ \A k \in 0 .. n : Sequence(A[k])
    /\ \A k \in 1 .. n : A[k - 1] = IF Takes(j.dirs[k]) THEN <<j.dirs[k]>> \o A[k] ELSE A[k]

\* ... T[k] the text of the first k.
TextPlan(j, n, T) ==
    /\ T[0] = <<>> /\ (\A k \in 0 .. n : Sequence(T[k]))
    /\ FlattenSeq([k \in DOMAIN j.dirs |-> j.lead \o TextOf(j.dirs[k])]) = T[n]
    /\ \A k \in 1 .. n : T[k] = T[k - 1] \o (j.lead \o TextOf(j.dirs[k]))

\* Sequences given one by one.
LEMMA SequencesAre ==
    ASSUME NEW n \in Nat, NEW ss, ss = [k \in 1 .. n |-> ss[k]], \A k \in 1 .. n : Sequence(ss[k])
    PROVE  Sequences(ss, n)
  BY SequenceFcn DEF Sequences

\* These exist.
LEMMA FmtPlanExists ==
    ASSUME NEW j, NEW n, Call(j, n)
    PROVE  \E F : FmtPlan(j, n, F)
  <1> DEFINE part(k) == j.lead \o <<"%">> \o j.dirs[k].flags \o NumberOf(j.dirs[k])
                          \o j.dirs[k].mods \o ConvOf(j.dirs[k])
             ss == [k \in 1 .. n |-> part(k)]
  <1>1. n \in Nat /\ DOMAIN j.dirs = 1 .. n /\ Sequence(j.lead) /\ \A k \in 1 .. n : DirOK(j.dirs[k])
    BY DEF Call
  <1>2. FormatOf(j.lead, j.dirs) = FlattenSeq(ss)
    <2>1. FormatOf(j.lead, j.dirs) = FlattenSeq([k \in DOMAIN j.dirs |-> part(k)])
      BY Zenon DEF FormatOf, NumberOf, ConvOf
    <2> QED  BY <1>1, <2>1, Zenon
  <1>3. ASSUME NEW k \in 1 .. n
        PROVE  /\ Sequence(part(k))
               /\ \A r : Sequence(r) => part(k) \o r = j.lead \o (<<"%">> \o FromHash(j.dirs[k], r))
    <2>1. PICK d : d = j.dirs[k]
      OBVIOUS
    <2>2. DirOK(d)
      BY <1>1, <2>1
    <2>3. ASSUME NEW r, Sequence(r)
          PROVE  part(k) \o r = j.lead \o (<<"%">> \o FromHash(j.dirs[k], r))
      <3>1. Nested(j.lead, d, r)
        BY <1>1, <2>2, <2>3, FormatNested, Zenon
      <3> QED  BY <2>1, <3>1 DEF Nested
    <2>4. Sequence(part(k))
      <3>1. /\ Sequence(d.flags) /\ Sequence(NumberOf(d)) /\ Sequence(d.mods) /\ Sequence(ConvOf(d))
        BY <2>2, PartsOf, SequenceOne
      <3>2. Sequence(j.lead \o <<"%">>)
        BY <1>1, SequenceOne, SequenceConcat
      <3>3. Sequence(j.lead \o <<"%">> \o d.flags)
        BY <3>1, <3>2, SequenceConcat
      <3>4. Sequence(j.lead \o <<"%">> \o d.flags \o NumberOf(d))
        BY <3>1, <3>3, SequenceConcat
      <3>5. Sequence(j.lead \o <<"%">> \o d.flags \o NumberOf(d) \o d.mods)
        BY <3>1, <3>4, SequenceConcat
      <3>6. Sequence(j.lead \o <<"%">> \o d.flags \o NumberOf(d) \o d.mods \o ConvOf(d))
        BY <3>1, <3>5, SequenceConcat
      <3> QED  BY <2>1, <3>6
    <2> QED  BY <2>3, <2>4
  <1> HIDE DEF part
  <1>4. ss = [k \in 1 .. n |-> ss[k]] /\ \A k \in 1 .. n : Sequence(ss[k]) /\ ss[k] = part(k)
    BY <1>3
  <1> HIDE DEF ss
  <1>5. Sequences(ss, n)
    BY <1>1, <1>4, SequencesAre
  <1>6. Len(ss) = n
    BY <1>5 DEF Sequences
  <1>7. PICK F : F = Suf(ss)
    OBVIOUS
  <1>8. IsSuf(F, ss) /\ FlattenSeq(ss) = F[0]
    BY <1>5, <1>7, FlattenSuf
  <1>9. F[n] = <<>> /\ (\A k \in 0 .. n : Sequence(F[k])) /\ \A k \in 1 .. n : F[k - 1] = ss[k] \o F[k]
    BY <1>6, <1>8 DEF IsSuf
  <1>10. ASSUME NEW k \in 1 .. n PROVE F[k - 1] = j.lead \o (<<"%">> \o FromHash(j.dirs[k], F[k]))
    <2>1. k \in 0 .. n
      BY <1>1
    <2>2. PICK r : r = F[k]
      OBVIOUS
    <2>3. Sequence(r) /\ F[k - 1] = part(k) \o r
      BY <1>4, <1>9, <2>1, <2>2
    <2>4. part(k) \o r = j.lead \o (<<"%">> \o FromHash(j.dirs[k], r))
      BY <1>3, <2>3, Zenon
    <2> QED  BY <2>2, <2>3, <2>4
  <1>11. FmtPlan(j, n, F)
    BY <1>2, <1>8, <1>9, <1>10, Zenon DEF FmtPlan
  <1> QED
    BY <1>11

\* The arguments ...
LEMMA ArgPlanExists ==
    ASSUME NEW j, NEW n, Call(j, n)
    PROVE  \E A : ArgPlan(j, n, A)
  <1> DEFINE part(k) == IF Takes(j.dirs[k]) THEN <<j.dirs[k]>> ELSE <<>>
             ss == [k \in 1 .. n |-> part(k)]
  <1>1. n \in Nat /\ DOMAIN j.dirs = 1 .. n
    BY DEF Call
  <1>2. ArgsOf(j.dirs) = FlattenSeq(ss)
    <2>1. ArgsOf(j.dirs) = FlattenSeq([k \in DOMAIN j.dirs |-> part(k)])
      BY Zenon DEF ArgsOf
    <2> QED  BY <1>1, <2>1, Zenon
  <1>3. ASSUME NEW k \in 1 .. n PROVE Sequence(part(k))
    BY SequenceOne
  <1>4. /\ ss = [k \in 1 .. n |-> ss[k]] /\ (\A k \in 1 .. n : Sequence(ss[k]))
        /\ \A k \in 1 .. n : ss[k] = IF Takes(j.dirs[k]) THEN <<j.dirs[k]>> ELSE <<>>
    BY <1>3
  <1> HIDE DEF ss
  <1>5. Sequences(ss, n)
    BY <1>1, <1>4, SequencesAre
  <1>6. Len(ss) = n
    BY <1>5 DEF Sequences
  <1>7. PICK A : A = Suf(ss)
    OBVIOUS
  <1>8. IsSuf(A, ss) /\ FlattenSeq(ss) = A[0]
    BY <1>5, <1>7, FlattenSuf
  <1>9. (\A k \in 0 .. n : Sequence(A[k])) /\ \A k \in 1 .. n : A[k - 1] = ss[k] \o A[k]
    BY <1>6, <1>8 DEF IsSuf
  <1>10. ASSUME NEW k \in 1 .. n
         PROVE  A[k - 1] = IF Takes(j.dirs[k]) THEN <<j.dirs[k]>> \o A[k] ELSE A[k]
    <2>1. k \in 0 .. n
      BY <1>1
    <2>2. PICK r : r = A[k]
      OBVIOUS
    <2>3. Sequence(r) /\ A[k - 1] = ss[k] \o r
      BY <1>9, <2>1, <2>2
    <2>4. <<>> \o r = r
      BY <2>3, ConcatNothing
    <2>5. CASE Takes(j.dirs[k])
      BY <1>4, <2>2, <2>3, <2>5
    <2>6. CASE ~Takes(j.dirs[k])
      BY <1>4, <2>2, <2>3, <2>4, <2>6
    <2> QED  BY <2>5, <2>6
  <1>11. ArgPlan(j, n, A)
    BY <1>2, <1>8, <1>9, <1>10, Zenon DEF ArgPlan
  <1> QED
    BY <1>11

\* ... and the text.
LEMMA TextPlanExists ==
    ASSUME NEW j, NEW n, Call(j, n)
    PROVE  \E T : TextPlan(j, n, T)
  <1> DEFINE ss == [k \in 1 .. n |-> j.lead \o TextOf(j.dirs[k])]
  <1>1. n \in Nat /\ DOMAIN j.dirs = 1 .. n /\ Sequence(j.lead) /\ \A k \in 1 .. n : DirOK(j.dirs[k])
    BY DEF Call
  <1>2. FlattenSeq([k \in DOMAIN j.dirs |-> j.lead \o TextOf(j.dirs[k])]) = FlattenSeq(ss)
    BY <1>1, Zenon
  <1>3. ASSUME NEW k \in 1 .. n PROVE Sequence(j.lead \o TextOf(j.dirs[k]))
    <2>1. Sequence(TextOf(j.dirs[k]))
      BY <1>1, CleanText DEF Clean
    <2> QED  BY <1>1, <2>1, SequenceConcat
  <1>4. /\ ss = [k \in 1 .. n |-> ss[k]] /\ (\A k \in 1 .. n : Sequence(ss[k]))
        /\ \A k \in 1 .. n : ss[k] = j.lead \o TextOf(j.dirs[k])
    BY <1>3
  <1> HIDE DEF ss
  <1>5. Sequences(ss, n)
    BY <1>1, <1>4, SequencesAre
  <1>6. Len(ss) = n
    BY <1>5 DEF Sequences
  <1>7. PICK T : T = Pre(ss)
    OBVIOUS
  <1>8. IsPre(T, ss) /\ FlattenSeq(ss) = T[n]
    BY <1>5, <1>7, FlattenPre
  <1>9. T[0] = <<>> /\ (\A k \in 0 .. n : Sequence(T[k])) /\ \A k \in 1 .. n : T[k] = T[k - 1] \o ss[k]
    BY <1>6, <1>8 DEF IsPre
  <1>10. \A k \in 1 .. n : T[k] = T[k - 1] \o (j.lead \o TextOf(j.dirs[k]))
    BY <1>4, <1>9
  <1>11. TextPlan(j, n, T)
    BY <1>2, <1>8, <1>9, <1>10, Zenon DEF TextPlan
  <1> QED
    BY <1>11

Plan(j, n, F, A, T) == Call(j, n) /\ FmtPlan(j, n, F) /\ ArgPlan(j, n, A) /\ TextPlan(j, n, T)

\* In front of directive k: a part of the text there has been copied.
InText(j, n, F, A, T, k, f, as, p) ==
    /\ k \in 1 .. n /\ as = A[k - 1]
    /\ \E a, b : /\ Sequence(a) /\ Sequence(b) /\ j.lead = a \o b
                 /\ f = b \o (<<"%">> \o FromHash(j.dirs[k], F[k]))
                 /\ Given(p, T[k - 1] \o a, j.size)

\* In directive k: all of the text there has been copied.
In(j, n, A, T, k, as, p) ==
    k \in 1 .. n /\ as = A[k - 1] /\ Given(p, T[k - 1] \o j.lead, j.size)

\* At its flags, ...
InHash(j, n, F, A, T, k, f, as, p, pr, nl) ==
    In(j, n, A, T, k, as, p) /\ f = FromHash(j.dirs[k], F[k]) /\ pr = NoProps /\ nl = 0

\* ... its number, ...
InNumber(j, n, F, A, T, k, f, as, p, pr, nl) ==
    /\ In(j, n, A, T, k, as, p) /\ f = FromNumber(j.dirs[k], F[k]) /\ nl = 0
    /\ pr \in PropsType /\ pr.pad = " " /\ pr.npad = 0
    /\ pr.alternate <=> Has(j.dirs[k], "#")

\* ... its modifiers, ...
Known(d, pr) == Takes(d) => PropsOf(d, pr) /\ (pr.alternate <=> Has(d, "#"))
InMods(j, n, F, A, T, k, f, as, p, pr, nl) ==
    /\ In(j, n, A, T, k, as, p) /\ Known(j.dirs[k], pr) /\ nl \in Nat
    /\ \E a, b : /\ Sequence(a) /\ Sequence(b) /\ j.dirs[k].mods = a \o b
                 /\ f = b \o FromConv(j.dirs[k], F[k]) /\ (nl = 0 <=> a = <<>>)

\* ... or its conversion.
InConv(j, n, F, A, T, k, f, as, p, pr, nl) ==
    /\ In(j, n, A, T, k, as, p) /\ Known(j.dirs[k], pr)
    /\ f = FromConv(j.dirs[k], F[k]) /\ (nl = 0 <=> j.dirs[k].mods = <<>>)

\* Where a call can be.
Where(j, n, F, A, T, c, f, as, pr, nl, p, s) ==
    \/ c = "text" /\ \E k : InText(j, n, F, A, T, k, f, as, p)
    \/ c = "spec" /\ \E k : \/ InHash(j, n, F, A, T, k, f, as, p, pr, nl)
                            \/ InNumber(j, n, F, A, T, k, f, as, p, pr, nl)
                            \/ InMods(j, n, F, A, T, k, f, as, p, pr, nl)
    \/ c \in {"text", "puts"} /\ f = <<>> /\ Given(p, T[n], j.size)
    \/ c = "done" /\ Given(p, T[n], j.size) /\ (j.fn # "snprintf" => s = p.buffer)

\* The first element of a sequence and the others.
LEMMA FirstAndRest ==
    ASSUME NEW b, Sequence(b), b # <<>>
    PROVE  \E c, t : Sequence(t) /\ b = <<c>> \o t /\ c = b[1] /\ 1 \in 1 .. Len(b)
  <1>1. PICK c : c = b[1]
    OBVIOUS
  <1>2. PICK t : t = Tail(b)
    OBVIOUS
  <1>3. PICK l \in Nat \ {0} : l = Len(b)
    <2>1. PICK S : b \in Seq(S)
      BY DEF Sequence
    <2>2. Len(b) \in Nat /\ Len(b) # 0
      BY <2>1, EmptySeq
    <2> QED  BY <2>2
  <1>4. Sequence(t) /\ Len(t) = l - 1 /\ \A k \in 1 .. l - 1 : t[k] = b[k + 1]
    <2>1. PICK S : b \in Seq(S)
      BY DEF Sequence
    <2>2. t \in Seq(S) /\ Len(t) = l - 1
      BY <1>2, <1>3, <2>1
    <2>3. \A k \in 1 .. l - 1 : t[k] = b[k + 1]
      BY <1>2, <1>3, <2>1, <2>2
    <2> QED  BY <2>2, <2>3 DEF Sequence
  <1>5. PICK o : o = <<c>>
    OBVIOUS
  <1>6. Sequence(o) /\ Len(o) = 1 /\ o[1] = c
    BY <1>5, SequenceOne
  <1>7. PICK u : u = o \o t
    OBVIOUS
  <1>8. Sequence(u) /\ Len(u) = l
    <2>1. Sequence(o \o t) /\ Len(o \o t) = Len(o) + Len(t)
      BY <1>4, <1>6, SequenceConcat
    <2> QED  BY <1>4, <1>6, <1>7, <2>1
  <1>9. ASSUME NEW k \in 1 .. l PROVE b[k] = u[k]
    <2>1. u[k] = IF k <= 1 THEN o[k] ELSE t[k - 1]
      <3>1. k \in 1 .. Len(o) + Len(t)
        BY <1>4, <1>6
      <3>2. (o \o t)[k] = IF k <= Len(o) THEN o[k] ELSE t[k - Len(o)]
        BY <1>4, <1>6, <3>1, ConcatAt
      <3> QED  BY <1>6, <1>7, <3>2
    <2>2. CASE k = 1
      BY <1>1, <1>6, <2>1, <2>2
    <2>3. CASE k # 1
      <3>1. ~(k <= 1) /\ k - 1 \in 1 .. l - 1 /\ (k - 1) + 1 = k
        BY <2>3
      <3> QED  BY <1>4, <2>1, <3>1
    <2> QED  BY <2>2, <2>3
  <1>10. b = u
    BY <1>3, <1>8, <1>9, SequenceEqual
  <1>11. Sequence(t) /\ b = <<c>> \o t /\ c = b[1] /\ 1 \in 1 .. Len(b)
    BY <1>1, <1>3, <1>4, <1>5, <1>7, <1>10
  <1> QED
    BY <1>11, Zenon

\* When a directive has been printed the next one is due, or the end.
LEMMA Begins ==
    ASSUME NEW j, NEW n, NEW F, NEW A, NEW T, Plan(j, n, F, A, T), NEW k \in 0 .. n,
           NEW f, f = F[k], NEW as, as = A[k], NEW p, Given(p, T[k], j.size),
           NEW pr, NEW nl, NEW s
    PROVE  Where(j, n, F, A, T, "text", f, as, pr, nl, p, s)
  <1>1. Call(j, n) /\ FmtPlan(j, n, F) /\ TextPlan(j, n, T)
    BY DEF Plan
  <1>2. n \in Nat
    BY <1>1 DEF Call
  <1>3. CASE k = n
    BY <1>1, <1>3 DEF Where, FmtPlan
  <1>4. CASE k # n
    <2>1. PICK m : m = k + 1
      OBVIOUS
    <2>2. m \in 1 .. n /\ m - 1 = k
      BY <1>2, <1>4, <2>1
    <2>3. f = j.lead \o (<<"%">> \o FromHash(j.dirs[m], F[m]))
      BY <1>1, <2>2 DEF FmtPlan
    <2>4. PICK t : t = T[k]
      OBVIOUS
    <2>5. Sequence(t)
      BY <1>1, <2>4 DEF TextPlan
    <2>6. t \o <<>> = t
      BY <2>5, ConcatNothing
    <2>7. PICK l : l = j.lead
      OBVIOUS
    <2>8. Sequence(l)
      BY <1>1, <2>7 DEF Call
    <2>9. <<>> \o l = l /\ Sequence(<<>>)
      BY <2>8, ConcatNothing, SequenceOne
    <2>10. Given(p, T[m - 1] \o <<>>, j.size)
      BY <2>2, <2>4, <2>6
    <2>11. \E a, b : /\ Sequence(a) /\ Sequence(b) /\ j.lead = a \o b
                     /\ f = b \o (<<"%">> \o FromHash(j.dirs[m], F[m]))
                     /\ Given(p, T[m - 1] \o a, j.size)
      <3>1. PICK e : e = <<>>
        OBVIOUS
      <3>2. Sequence(e) /\ l = e \o l /\ Given(p, T[m - 1] \o e, j.size)
        BY <2>9, <2>10, <3>1
      <3>3. Sequence(l) /\ j.lead = l /\ f = l \o (<<"%">> \o FromHash(j.dirs[m], F[m]))
        BY <2>3, <2>7, <2>8
      <3> QED  BY <3>2, <3>3, Zenon
    <2>12. InText(j, n, F, A, T, m, f, as, p)
      BY <2>2, <2>11, Zenon DEF InText
    <2> QED  BY <2>12 DEF Where
  <1> QED
    BY <1>3, <1>4

\* Facts about directive d, the k-th of a plan.
Here(j, n, F, A, T, k, d) ==
    /\ n \in Nat /\ j.size \in Nat \ {0} /\ Sequence(j.lead) /\ DirOK(d)
    /\ (d.conv = End => k = n) /\ F[n] = <<>>
    /\ Sequence(F[k]) /\ Sequence(A[k]) /\ Sequence(T[k - 1]) /\ Sequence(T[k])
    /\ A[k - 1] = (IF Takes(d) THEN <<d>> \o A[k] ELSE A[k])
    /\ T[k] = T[k - 1] \o (j.lead \o TextOf(d))

\* They follow from the plan.
LEMMA PlanAt ==
    ASSUME NEW j, NEW n, NEW F, NEW A, NEW T, Plan(j, n, F, A, T), NEW k, k \in 1 .. n,
           NEW d, d = j.dirs[k]
    PROVE  Here(j, n, F, A, T, k, d)
  <1>1. Call(j, n) /\ FmtPlan(j, n, F) /\ ArgPlan(j, n, A) /\ TextPlan(j, n, T)
    BY DEF Plan
  <1>2. n \in Nat
    BY <1>1 DEF Call
  <1>3. k \in 0 .. n /\ k - 1 \in 0 .. n
    BY <1>2
  <1>4. /\ j.size \in Nat \ {0} /\ Sequence(j.lead) /\ DirOK(j.dirs[k])
        /\ (j.dirs[k].conv = End => k = n)
    BY <1>1 DEF Call
  <1>5. F[n] = <<>> /\ Sequence(F[k])
    BY <1>1, <1>3 DEF FmtPlan
  <1>6. Sequence(A[k]) /\ A[k - 1] = (IF Takes(j.dirs[k]) THEN <<j.dirs[k]>> \o A[k] ELSE A[k])
    BY <1>1, <1>3 DEF ArgPlan
  <1>7. /\ Sequence(T[k - 1]) /\ Sequence(T[k])
        /\ T[k] = T[k - 1] \o (j.lead \o TextOf(j.dirs[k]))
    BY <1>1, <1>3 DEF TextPlan
  <1> QED
    BY <1>2, <1>4, <1>5, <1>6, <1>7 DEF Here

\* A sequence that continues s with c and then has t.
Continues(u, c, t) == u # <<>> /\ Head(u) = c /\ Tail(u) = t /\ u[1] = c

\* A character in front.
LEMMA ContinuesIs ==
    ASSUME NEW c, NEW s, Sequence(s), NEW u, u = <<c>> \o s
    PROVE  Continues(u, c, s)
  BY ConcatHead DEF Continues

\* A character in front of two sequences.
LEMMA ContinuesTwo ==
    ASSUME NEW c, NEW s, Sequence(s), NEW t, Sequence(t), NEW b, b = <<c>> \o s, NEW u, u = b \o t
    PROVE  Continues(u, c, s \o t)
  <1>1. PICK o : o = <<c>>
    OBVIOUS
  <1>2. Sequence(o)
    BY <1>1, SequenceOne
  <1>3. (o \o s) \o t = o \o (s \o t)
    BY <1>2, ConcatThree, SMTT(30)
  <1>4. PICK st : st = s \o t
    OBVIOUS
  <1>5. Sequence(st)
    BY <1>4, SequenceConcat
  <1>6. u = <<c>> \o st
    BY <1>1, <1>3, <1>4
  <1>7. Continues(u, c, st)
    BY <1>5, <1>6, ContinuesIs
  <1> QED
    BY <1>4, <1>7

\* A sequence split before or behind a character.
SameSplit(a, b, u, t) == a \o b = u \o t /\ Sequence(u) /\ u # <<>>

\* Both are the same sequence.
LEMMA SplitMoves ==
    ASSUME NEW a, Sequence(a), NEW c, NEW t, Sequence(t), NEW b, b = <<c>> \o t,
           NEW u, u = a \o <<c>>
    PROVE  SameSplit(a, b, u, t)
  <1>1. PICK o : o = <<c>>
    OBVIOUS
  <1>2. Sequence(o) /\ Len(o) = 1
    BY <1>1, SequenceOne
  <1>3. (a \o o) \o t = a \o (o \o t)
    BY <1>2, ConcatThree, SMTT(30)
  <1>4. Sequence(a \o o) /\ Len(a \o o) = Len(a) + 1 /\ Len(a) \in Nat
    BY <1>2, SequenceConcat, SequenceLen
  <1>5. u = a \o o
    BY <1>1
  <1>6. u # <<>>
    <2>1. Len(u) # 0
      BY <1>4, <1>5
    <2> QED  BY <2>1, SequenceOne
  <1> QED
    BY <1>1, <1>3, <1>4, <1>5, <1>6 DEF SameSplit

\* In front of a directive: a character is copied, or the % read.
LEMMA TextNext ==
    ASSUME NEW j, NEW n, NEW F, NEW A, NEW T, Plan(j, n, F, A, T), NEW k, NEW f, NEW as, NEW p,
           InText(j, n, F, A, T, k, f, as, p)
    PROVE  /\ f # <<>>
           /\ Head(f) # "%" => InText(j, n, F, A, T, k, Tail(f), as, addchar(p, Head(f)))
           /\ Head(f) = "%" => InHash(j, n, F, A, T, k, Tail(f), as, p, NoProps, 0)
  <1>1. k \in 1 .. n /\ as = A[k - 1]
    BY DEF InText
  <1>2. PICK a, b : /\ Sequence(a) /\ Sequence(b) /\ j.lead = a \o b
                    /\ f = b \o (<<"%">> \o FromHash(j.dirs[k], F[k]))
                    /\ Given(p, T[k - 1] \o a, j.size)
    BY Zenon DEF InText
  <1>3. PICK d, g, l : d = j.dirs[k] /\ g = FromHash(j.dirs[k], F[k]) /\ l = j.lead
    OBVIOUS
  <1>4. DirOK(d) /\ Sequence(F[k]) /\ j.size \in Nat \ {0} /\ Sequence(T[k - 1])
    <2>1. Here(j, n, F, A, T, k, d)
      BY <1>1, <1>3, PlanAt, Zenon
    <2> QED  BY <2>1 DEF Here
  <1>5. Sequence(g)
    BY <1>3, <1>4, PartsOf
  <1>6. PICK h : h = <<"%">> \o g
    OBVIOUS
  <1>7. Sequence(h) /\ Continues(h, "%", g)
    BY <1>5, <1>6, ConcatHead, ContinuesIs
  <1>8. f = b \o h
    BY <1>2, <1>3, <1>6
  <1>9. CASE b = <<>>
    <2>1. f = h
      BY <1>7, <1>8, <1>9, ConcatNothing
    <2>2. a = j.lead
      BY <1>2, <1>9, ConcatNothing
    <2>3. In(j, n, A, T, k, as, p)
      BY <1>1, <1>2, <2>2 DEF In
    <2>4. f # <<>> /\ Head(f) = "%" /\ Tail(f) = g
      BY <1>7, <2>1 DEF Continues
    <2>5. InHash(j, n, F, A, T, k, Tail(f), as, p, NoProps, 0)
      BY <1>3, <2>3, <2>4 DEF InHash
    <2> QED  BY <2>4, <2>5
  <1>10. CASE b # <<>>
    <2>1. PICK c, t : Sequence(t) /\ b = <<c>> \o t /\ c = b[1] /\ 1 \in 1 .. Len(b)
      BY <1>2, <1>10, FirstAndRest
    <2>2. Continues(f, c, t \o h)
      BY <1>7, <1>8, <2>1, ContinuesTwo
    <2>3. PICK a2 : a2 = a \o <<c>>
      OBVIOUS
    <2>4. a \o b = a2 \o t /\ Sequence(a2)
      <3>1. SameSplit(a, b, a2, t)
        BY <1>2, <2>1, <2>3, SplitMoves, Zenon
      <3> QED  BY <3>1 DEF SameSplit
    <2>5. c # "%"
      <3>1. \A pos \in 1 .. Len(l) : l[pos] # "%"
        BY <1>3 DEF Plan, Call
      <3>2. PICK pos : pos = Len(a) + 1
        OBVIOUS
      <3>3. Len(a) \in Nat /\ Len(b) \in Nat /\ l = a \o b
        BY <1>2, <1>3, SequenceLen
      <3>4. pos \in 1 .. Len(a) + Len(b) /\ ~(pos <= Len(a)) /\ pos - Len(a) = 1
        BY <2>1, <3>2, <3>3
      <3>5. Len(l) = Len(a) + Len(b)
        BY <1>2, <3>3, SequenceConcat
      <3>6. (a \o b)[pos] = IF pos <= Len(a) THEN a[pos] ELSE b[pos - Len(a)]
        BY <1>2, <3>4, ConcatAt
      <3>7. l[pos] = c
        BY <2>1, <3>3, <3>4, <3>6
      <3> QED  BY <3>1, <3>4, <3>5, <3>7
    <2>6. PICK q : q = T[k - 1]
      OBVIOUS
    <2>7. Given(addchar(p, c), q \o a2, j.size)
      <3>1. PICK o : o = <<c>>
        OBVIOUS
      <3>2. Sequence(o)
        BY <3>1, SequenceOne
      <3>3. PICK qa : qa = q \o a
        OBVIOUS
      <3>4. Given(p, qa, j.size)
        BY <1>2, <2>6, <3>3
      <3>5. Given(addchars(p, o), qa \o o, j.size)
        BY <1>4, <3>2, <3>4, AddsGiven
      <3>6. Sequence(q)
        BY <1>4, <2>6
      <3>7. (q \o a) \o o = q \o (a \o o)
        BY <1>2, <3>2, <3>6, ConcatThree, SMTT(30)
      <3> QED  BY <2>3, <3>1, <3>3, <3>5, <3>7 DEF addchar
    <2>8. Head(f) = c /\ Tail(f) = t \o h /\ f # <<>>
      BY <2>2 DEF Continues
    <2>9. /\ Sequence(a2) /\ Sequence(t) /\ j.lead = a2 \o t
          /\ t \o h = t \o (<<"%">> \o FromHash(j.dirs[k], F[k]))
          /\ Given(addchar(p, c), T[k - 1] \o a2, j.size)
      BY <1>2, <1>3, <1>6, <2>1, <2>4, <2>6, <2>7
    <2>10. InText(j, n, F, A, T, k, t \o h, as, addchar(p, c))
      BY <1>1, <2>9, Zenon DEF InText
    <2> QED  BY <2>5, <2>8, <2>10
  <1> QED
    BY <1>9, <1>10

\* The # is read, or there is none.
LEMMA HashNext ==
    ASSUME NEW j, NEW n, NEW F, NEW A, NEW T, Plan(j, n, F, A, T), NEW k, NEW f, NEW as, NEW p,
           NEW pr, NEW nl, InHash(j, n, F, A, T, k, f, as, p, pr, nl)
    PROVE  \/ InNumber(j, n, F, A, T, k, f, as, p, pr, nl)
           \/ /\ f # <<>> /\ Head(f) = "#"
              /\ InNumber(j, n, F, A, T, k, Tail(f), as, p, [pr EXCEPT !.alternate = TRUE], nl)
  <1>1. In(j, n, A, T, k, as, p) /\ f = FromHash(j.dirs[k], F[k]) /\ pr = NoProps /\ nl = 0
    BY DEF InHash
  <1>2. k \in 1 .. n
    BY <1>1 DEF In
  <1>3. PICK d, g : d = j.dirs[k] /\ g = FromNumber(j.dirs[k], F[k])
    OBVIOUS
  <1>4. Sequence(g)
    <2>1. Here(j, n, F, A, T, k, d)
      BY <1>2, <1>3, PlanAt, Zenon
    <2> QED  BY <1>3, <2>1, PartsOf DEF Here
  <1>5. f = HashOf(d) \o g
    BY <1>1, <1>3 DEF FromHash
  <1>6. CASE Has(d, "#")
    <2>1. HashOf(d) = <<"#">>
      BY <1>6 DEF HashOf
    <2>2. f = <<"#">> \o g
      BY <1>5, <2>1
    <2>3. Continues(f, "#", g)
      BY <1>4, <2>2, ContinuesIs
    <2>4. f # <<>> /\ Head(f) = "#" /\ Tail(f) = g
      BY <2>3 DEF Continues
    <2>5. PICK q : q = [pr EXCEPT !.alternate = TRUE]
      OBVIOUS
    <2>5a. q \in PropsType /\ q.pad = " " /\ q.npad = 0 /\ q.alternate
      <3>1. q = [pad |-> " ", npad |-> 0, alternate |-> TRUE]
        BY <1>1, <2>5 DEF NoProps
      <3>2. q.pad = " " /\ q.npad = 0
        BY <3>1
      <3>2a. q \in PropsType
        BY <1>1, <2>5, NoPropsType, AlternateProps, Zenon
      <3>3. q.alternate = TRUE
        BY <3>1
      <3> QED  BY <3>2, <3>2a, <3>3, Zenon
    <2>6. InNumber(j, n, F, A, T, k, g, as, p, q, nl)
      BY <1>1, <1>3, <1>6, <2>5a, Zenon DEF InNumber
    <2> QED  BY <2>4, <2>5, <2>6
  <1>7. CASE ~Has(d, "#")
    <2>1. HashOf(d) = <<>>
      BY <1>7 DEF HashOf
    <2>2. f = g
      BY <1>4, <1>5, <2>1, ConcatNothing
    <2>3. pr \in PropsType /\ pr.pad = " " /\ pr.npad = 0 /\ ~pr.alternate
      <3>1. NoProps.pad = " " /\ NoProps.npad = 0
        BY DEF NoProps
      <3>2. NoProps.alternate = FALSE
        BY DEF NoProps
      <3> QED  BY <1>1, <3>1, <3>2, NoPropsType, Zenon
    <2>4. InNumber(j, n, F, A, T, k, f, as, p, pr, nl)
      BY <1>1, <1>3, <1>7, <2>2, <2>3, Zenon DEF InNumber
    <2> QED  BY <2>4
  <1> QED
    BY <1>6, <1>7

\* The modifiers of a legal directive.
LEMMA ModsAre ==
    ASSUME NEW d, DirOK(d)
    PROVE  \A pos \in 1 .. Len(d.mods) : d.mods[pos] \in {"l", "t", "z"}
  <1>1. d.mods \in Modifiers
    BY DirParts
  <1>2. PICK m : m = d.mods
    OBVIOUS
  <1>3. \/ m = <<>> \/ m = <<"l">> \/ m = <<"l", "l">> \/ m = <<"t">> \/ m = <<"z">>
    BY <1>1, <1>2 DEF Modifiers
  <1>4. ASSUME NEW pos \in 1 .. Len(m) PROVE m[pos] \in {"l", "t", "z"}
    <2>1. CASE m = <<>>
      BY <2>1
    <2>2. CASE m = <<"l">> \/ m = <<"t">> \/ m = <<"z">>
      <3>1. Len(m) = 1
        BY <2>2
      <3>2. pos = 1
        BY <3>1
      <3> QED  BY <2>2, <3>2
    <2>3. CASE m = <<"l", "l">>
      <3>1. Len(m) = 2
        BY <2>3
      <3>2. pos = 1 \/ pos = 2
        BY <3>1
      <3> QED  BY <2>3, <3>2
    <2> QED  BY <1>3, <2>1, <2>2, <2>3
  <1> QED
    BY <1>2, <1>4

\* The modifiers begin, if there is no number.
LEMMA ModsBegin ==
    ASSUME NEW j, NEW n, NEW F, NEW A, NEW T, Plan(j, n, F, A, T), NEW k, NEW as, NEW p,
           In(j, n, A, T, k, as, p), NEW f, f = FromMods(j.dirs[k], F[k]),
           NEW pr, Known(j.dirs[k], pr), NEW nl, nl = 0
    PROVE  InMods(j, n, F, A, T, k, f, as, p, pr, nl)
  <1>1. k \in 1 .. n
    BY DEF In
  <1>2. PICK m : m = j.dirs[k].mods
    OBVIOUS
  <1>3. Sequence(m)
    <2>1. PICK d : d = j.dirs[k]
      OBVIOUS
    <2>2. Here(j, n, F, A, T, k, d)
      BY <1>1, <2>1, PlanAt, Zenon
    <2> QED  BY <1>2, <2>1, <2>2, PartsOf DEF Here
  <1>4. PICK e : e = <<>>
    OBVIOUS
  <1>5. Sequence(e) /\ m = e \o m
    BY <1>3, <1>4, SequenceOne, ConcatNothing
  <1>6. f = m \o FromConv(j.dirs[k], F[k])
    BY <1>2 DEF FromMods
  <1>7. nl \in Nat /\ (nl = 0 <=> e = <<>>)
    BY <1>4
  <1>8. \E a, b : /\ Sequence(a) /\ Sequence(b) /\ j.dirs[k].mods = a \o b
                  /\ f = b \o FromConv(j.dirs[k], F[k]) /\ (nl = 0 <=> a = <<>>)
    <2>1. j.dirs[k].mods = e \o m
      BY <1>2, <1>5
    <2>2. Sequence(e)
      BY <1>5
    <2> QED  BY <1>3, <1>6, <1>7, <2>1, <2>2, Zenon
  <1> QED
    BY <1>7, <1>8, Zenon DEF InMods

\* What follows the number of a legal directive is no digit and no sign, and
\* no blank if an argument is due.
LEMMA BehindNumber ==
    ASSUME NEW j, NEW n, NEW F, NEW A, NEW T, Plan(j, n, F, A, T), NEW k \in 1 .. n,
           NEW d, d = j.dirs[k], NEW r, r = FromMods(d, F[k])
    PROVE  /\ Sequence(r) /\ CharAt(r, 1) \notin DecDigit /\ CharAt(r, 1) # "-"
           /\ Takes(d) => CharAt(r, 1) \notin Blank \cup {"+"}
  <1>1. DirOK(d) /\ Sequence(F[k]) /\ F[n] = <<>> /\ (d.conv = End => k = n)
    <2>1. Here(j, n, F, A, T, k, d)
      BY PlanAt, Zenon
    <2> QED  BY <2>1 DEF Here
  <1>2. Sequence(r) /\ Sequence(d.mods) /\ Sequence(FromConv(d, F[k]))
    BY <1>1, PartsOf
  <1>3. PICK c : c = CharAt(r, 1)
    OBVIOUS
  <1>4. PICK m, g : m = d.mods /\ g = FromConv(d, F[k])
    OBVIOUS
  <1>5. r = m \o g /\ Sequence(m) /\ Sequence(g)
    BY <1>2, <1>4 DEF FromMods
  <1>6. {"l", "t", "z"} \cap DecDigit = {} /\ NulChar \notin DecDigit
    <2>1. ASSUME NEW v \in 0 .. 9 PROVE digit(v) \notin {"l", "t", "z", NulChar}
      <3>1. PICK pos \in 1 .. 10 : pos = v + 1
        OBVIOUS
      <3>2. digits[pos] \notin {"l", "t", "z", NulChar}
        BY DEF digits, NulChar
      <3> QED  BY <3>1, <3>2 DEF digit
    <2> QED  BY <2>1 DEF DecDigit
  <1>7. CASE m # <<>>
    <2>1. PICK x, t : Sequence(t) /\ m = <<x>> \o t /\ x = m[1] /\ 1 \in 1 .. Len(m)
      BY <1>5, <1>7, FirstAndRest
    <2>2. x \in {"l", "t", "z"}
      BY <1>1, <1>4, <2>1, ModsAre
    <2>3. CharAt(m \o g, 1) = IF 1 <= Len(m) THEN m[1] ELSE CharAt(g, 1 - Len(m))
      BY <1>5, CharAtConcat
    <2>4. c = x
      <3>1. 1 <= Len(m)
        BY <2>1
      <3> QED  BY <1>3, <1>5, <2>1, <2>3, <3>1
    <2>5. c \notin DecDigit /\ c # "-" /\ c \notin Blank \cup {"+"}
      BY <1>6, <2>2, <2>4 DEF Blank
    <2> QED  BY <1>3, <1>5, <1>2, <2>5
  <1>8. CASE m = <<>> /\ d.conv # End
    <2>1. r = g
      BY <1>5, <1>8, ConcatNothing
    <2>2. g = <<d.conv>> \o F[k]
      BY <1>4, <1>8 DEF FromConv, ConvOf
    <2>3. Continues(g, d.conv, F[k])
      BY <1>1, <2>2, ContinuesIs
    <2>4. g # <<>> /\ g[1] = d.conv
      BY <2>3 DEF Continues
    <2>5. c = d.conv
      <3>1. PICK x, t : Sequence(t) /\ g = <<x>> \o t /\ x = g[1] /\ 1 \in 1 .. Len(g)
        BY <1>5, <2>4, FirstAndRest
      <3>2. 1 <= Len(g)
        BY <3>1
      <3> QED  BY <1>3, <2>1, <2>4, <3>2 DEF CharAt
    <2>6. d.conv \notin DecDigit /\ d.conv # "-"
      BY <1>1 DEF DirOK, Legal
    <2>7. Takes(d) => d.conv \notin Blank \cup {"+"}
      BY DEF Takes, Blank
    <2> QED  BY <1>2, <1>3, <2>5, <2>6, <2>7
  <1>9. CASE m = <<>> /\ d.conv = End
    <2>1. r = g
      BY <1>5, <1>9, ConcatNothing
    <2>2. g = <<>>
      <3>1. F[k] = <<>> /\ ConvOf(d) = <<>>
        BY <1>1, <1>9 DEF ConvOf
      <3>2. <<>> \o <<>> = <<>>
        BY SequenceOne, ConcatNothing
      <3> QED  BY <1>4, <3>1, <3>2 DEF FromConv
    <2>3. c = NulChar
      <3>1. Len(r) = 0
        BY <2>1, <2>2, SequenceOne
      <3> QED  BY <1>3, <3>1 DEF CharAt
    <2>4. NulChar # "-" /\ NulChar \notin Blank \cup {"+"}
      BY DEF NulChar, Blank
    <2> QED  BY <1>2, <1>3, <1>6, <2>3, <2>4
  <1> QED
    BY <1>7, <1>8, <1>9

\* fmtnum() reads the number and leaves the modifiers.
LEMMA NumberReads ==
    ASSUME NEW j, NEW n, NEW F, NEW A, NEW T, Plan(j, n, F, A, T), NEW k, NEW as, NEW p,
           In(j, n, A, T, k, as, p), NEW d, d = j.dirs[k], NEW nl, nl = 0,
           NEW neg, neg = (IF Has(d, "-") THEN <<"-">> ELSE <<>>),
           NEW g, g = neg \o (NumberOf(d) \o FromMods(d, F[k])),
           NEW q, q.npad = IntRead(g), q.pad = (IF Has(d, "0") THEN "0" ELSE " "),
           q.alternate <=> Has(d, "#")
    PROVE  InMods(j, n, F, A, T, k, SubSeq(g, NumberLen(g) + 1, Len(g)), as, p, q, nl)
  <1>1. k \in 1 .. n
    BY DEF In
  <1>2. PICK r : r = FromMods(d, F[k])
    OBVIOUS
  <1>3. /\ Sequence(r) /\ CharAt(r, 1) \notin DecDigit /\ CharAt(r, 1) # "-"
        /\ Takes(d) => CharAt(r, 1) \notin Blank \cup {"+"}
    BY <1>1, <1>2, BehindNumber
  <1>4. PICK w, W : w = d.width /\ W = NumberOf(d)
    OBVIOUS
  <1>5. w \in 0 .. INT_MAX /\ W = (IF w = 0 THEN <<>> ELSE DigitsOf(w, 10))
    <2>1. Here(j, n, F, A, T, k, d)
      BY <1>1, PlanAt, Zenon
    <2> QED  BY <1>4, <2>1, DirParts DEF Here, NumberOf
  <1>6. neg \in {<<>>, <<"-">>} /\ (neg = <<>> <=> ~Has(d, "-")) /\ g = neg \o (W \o r)
    BY <1>2, <1>4
  <1>7. /\ SubSeq(g, NumberLen(g) + 1, Len(g)) = r
        /\ CharAt(r, 1) \notin Blank \cup {"+"} => IntRead(g) = IF neg = <<>> THEN w ELSE -w
    <2>1. Sequence(r) /\ CharAt(r, 1) \notin DecDigit /\ CharAt(r, 1) # "-"
      BY <1>3
    <2>2. PICK m : IsWidth(W, w, m)
      BY <1>5, WidthText, Zenon
    <2>3. FmtReads(g, r, neg, w)
      BY <1>5, <1>6, <2>1, <2>2, FmtNumber, Zenon
    <2> QED  BY <2>3 DEF FmtReads
  <1>8. Known(d, q)
    <2>1. SUFFICES ASSUME Takes(d) PROVE PropsOf(d, q) /\ (q.alternate <=> Has(d, "#"))
      BY Zenon DEF Known
    <2>2. q.npad = IF Has(d, "-") THEN -w ELSE w
      BY <1>3, <1>6, <1>7, <2>1
    <2>3. PropsOf(d, q)
      BY <1>4, <2>2 DEF PropsOf
    <2> QED  BY <2>3, Zenon
  <1>9. InMods(j, n, F, A, T, k, r, as, p, q, nl)
    BY <1>2, <1>8, ModsBegin, Zenon
  <1> QED
    BY <1>7, <1>9

\* The number is read, or there is none.
LEMMA NumberNext ==
    ASSUME NEW j, NEW n, NEW F, NEW A, NEW T, Plan(j, n, F, A, T), NEW k, NEW f, NEW as, NEW p,
           NEW pr, NEW nl, InNumber(j, n, F, A, T, k, f, as, p, pr, nl),
           NEW g, g = (IF Head(f) = "0" THEN Tail(f) ELSE f),
           NEW q, q = [pr EXCEPT !.npad = IntRead(g), !.pad = IF Head(f) = "0" THEN "0" ELSE @]
    PROVE  \/ InMods(j, n, F, A, T, k, f, as, p, pr, nl)
           \/ /\ f # <<>> /\ Head(f) \in DecDigit \cup {"-"}
              /\ InMods(j, n, F, A, T, k, SubSeq(g, NumberLen(g) + 1, Len(g)), as, p, q, nl)
  <1>1. /\ In(j, n, A, T, k, as, p) /\ f = FromNumber(j.dirs[k], F[k]) /\ nl = 0
        /\ pr \in PropsType /\ pr.pad = " " /\ pr.npad = 0 
        /\ pr.alternate <=> Has(j.dirs[k], "#")
    BY Zenon DEF InNumber
  <1>2. k \in 1 .. n
    BY <1>1 DEF In
  <1>3. PICK d, s, u : d = j.dirs[k] /\ s = SignOf(d) /\ u = NumberOf(d) \o FromMods(d, F[k])
    OBVIOUS
  <1>4. DirOK(d) /\ Sequence(F[k])
    <2>1. Here(j, n, F, A, T, k, d)
      BY <1>2, <1>3, PlanAt, Zenon
    <2> QED  BY <2>1 DEF Here
  <1>5. Sequence(u) /\ Sequence(FromMods(d, F[k]))
    BY <1>3, <1>4, PartsOf
  <1>6. f = s \o u
    BY <1>1, <1>3 DEF FromNumber
  <1>7. d.width \in 0 .. INT_MAX /\ ~(Has(d, "-") /\ Has(d, "0"))
    BY <1>4, DirParts, FlagsAre
  <1>8. /\ q.npad = IntRead(g) /\ q.pad = (IF Head(f) = "0" THEN "0" ELSE " ")
        /\ (q.alternate <=> Has(d, "#"))
    <2>1. pr = [pad |-> pr.pad, npad |-> pr.npad, alternate |-> pr.alternate]
      BY <1>1 DEF PropsType
    <2>2. PICK x, y : x = IntRead(g) /\ y = (IF Head(f) = "0" THEN "0" ELSE " ")
      OBVIOUS
    <2>3. q = [pr EXCEPT !.npad = x, !.pad = y]
      BY <1>1, <2>2
    <2>4. q.npad = x /\ q.pad = y /\ q.alternate = pr.alternate
      BY <2>1, <2>3
    <2> QED  BY <1>1, <1>3, <2>2, <2>4, Zenon
  <1>9. CASE Has(d, "-")
    <2>1. s = <<"-">> /\ ~Has(d, "0")
      BY <1>3, <1>7, <1>9 DEF SignOf
    <2>2. f # <<>> /\ Head(f) = "-"
      <3>1. Continues(f, "-", u)
        BY <1>5, <1>6, <2>1, ContinuesIs
      <3> QED  BY <3>1 DEF Continues
    <2>3. g = f /\ q.pad = " "
      BY <1>8, <2>2
    <2>4. PICK neg : neg = IF Has(d, "-") THEN <<"-">> ELSE <<>>
      OBVIOUS
    <2>5. g = neg \o (NumberOf(d) \o FromMods(d, F[k]))
      BY <1>3, <1>6, <1>9, <2>1, <2>3, <2>4
    <2>6. q.pad = (IF Has(d, "0") THEN "0" ELSE " ")
      BY <2>1, <2>3
    <2>7. InMods(j, n, F, A, T, k, SubSeq(g, NumberLen(g) + 1, Len(g)), as, p, q, nl)
      BY <1>1, <1>3, <1>8, <2>4, <2>5, <2>6, NumberReads, ZenonT(40)
    <2> QED  BY <2>2, <2>7
  <1>10. CASE Has(d, "0") /\ ~Has(d, "-")
    <2>1. s = <<"0">>
      BY <1>3, <1>10 DEF SignOf
    <2>2. f # <<>> /\ Head(f) = "0" /\ Tail(f) = u
      <3>1. Continues(f, "0", u)
        BY <1>5, <1>6, <2>1, ContinuesIs
      <3> QED  BY <3>1 DEF Continues
    <2>3. g = u /\ q.pad = "0"
      BY <1>8, <2>2
    <2>4. PICK neg : neg = IF Has(d, "-") THEN <<"-">> ELSE <<>>
      OBVIOUS
    <2>5. g = neg \o (NumberOf(d) \o FromMods(d, F[k]))
      <3>1. <<>> \o u = u
        BY <1>5, ConcatNothing
      <3> QED  BY <1>3, <1>10, <2>3, <2>4, <3>1
    <2>6. q.pad = (IF Has(d, "0") THEN "0" ELSE " ")
      BY <1>10, <2>3
    <2>7. InMods(j, n, F, A, T, k, SubSeq(g, NumberLen(g) + 1, Len(g)), as, p, q, nl)
      BY <1>1, <1>3, <1>8, <2>4, <2>5, <2>6, NumberReads, ZenonT(40)
    <2>8. "0" \in DecDigit
      <3>1. PICK z \in 0 .. 9 : z = 0
        OBVIOUS
      <3>2. digit(z) \in DecDigit /\ digit(z) = "0"
        BY <3>1, DigitIs
      <3> QED  BY <3>2
    <2> QED  BY <2>2, <2>7, <2>8
  <1>11. CASE ~Has(d, "0") /\ ~Has(d, "-") /\ d.width # 0
    <2>1. s = <<>>
      BY <1>3, <1>11 DEF SignOf
    <2>2. f = u
      BY <1>5, <1>6, <2>1, ConcatNothing
    <2>3. PICK W, m : W = NumberOf(d) /\ IsWidth(W, d.width, m)
      BY <1>7, WidthText, Zenon DEF NumberOf
    <2>3a. Sequence(W) /\ W # <<>> /\ W[1] \in DecDigit /\ W[1] # "0"
      <3>1. Sequence(W) /\ Len(W) = m /\ m \in Nat \ {0} /\ W[1] # "0"
        BY <1>11, <2>3 DEF IsWidth
      <3>2. 1 \in 1 .. m
        BY <3>1
      <3>3. W[1] \in DecDigit
        BY <2>3, <3>2 DEF IsWidth
      <3>4. Len(<<>>) = 0
        OBVIOUS
      <3> QED  BY <3>1, <3>3, <3>4
    <2>3b. PICK c, v : Sequence(v) /\ W = <<c>> \o v /\ c = W[1]
      BY <2>3a, FirstAndRest
    <2>4. c \in DecDigit /\ c # "0"
      BY <2>3a, <2>3b
    <2>5. f # <<>> /\ Head(f) = c
      <3>1. PICK r : r = FromMods(d, F[k])
        OBVIOUS
      <3>2. Sequence(<<c>>) /\ Sequence(v) /\ Sequence(r) /\ Sequence(v \o r)
        BY <1>5, <2>3b, <3>1, SequenceOne, SequenceConcat
      <3>3. (<<c>> \o v) \o r = <<c>> \o (v \o r)
        BY <3>2, ConcatThree, SMTT(30)
      <3>4. u = <<c>> \o (v \o r)
        BY <1>3, <2>3, <2>3b, <3>1, <3>3
      <3>5. Continues(u, c, v \o r)
        BY <3>2, <3>4, ContinuesIs
      <3> QED  BY <2>2, <3>5 DEF Continues
    <2>6. g = u /\ q.pad = (IF Has(d, "0") THEN "0" ELSE " ")
      BY <1>8, <1>11, <2>2, <2>4, <2>5
    <2>7. PICK neg : neg = IF Has(d, "-") THEN <<"-">> ELSE <<>>
      OBVIOUS
    <2>8. g = neg \o (NumberOf(d) \o FromMods(d, F[k]))
      <3>1. <<>> \o u = u
        BY <1>5, ConcatNothing
      <3> QED  BY <1>3, <1>11, <2>6, <2>7, <3>1
    <2>9. InMods(j, n, F, A, T, k, SubSeq(g, NumberLen(g) + 1, Len(g)), as, p, q, nl)
      <3>1. q.pad = (IF Has(d, "0") THEN "0" ELSE " ")
        BY <2>6
      <3> QED  BY <1>1, <1>3, <1>8, <2>7, <2>8, <3>1, NumberReads, ZenonT(40)
    <2> QED  BY <2>4, <2>5, <2>9
  <1>12. CASE ~Has(d, "0") /\ ~Has(d, "-") /\ d.width = 0
    <2>1. s = <<>> /\ NumberOf(d) = <<>>
      BY <1>3, <1>12 DEF SignOf, NumberOf
    <2>2. f = u /\ u = FromMods(d, F[k])
      BY <1>3, <1>5, <1>6, <2>1, ConcatNothing
    <2>3. PropsOf(d, pr)
      BY <1>1, <1>12 DEF PropsOf
    <2>4. Known(d, pr)
      BY <1>1, <1>3, <2>3, Zenon DEF Known
    <2>5. InMods(j, n, F, A, T, k, f, as, p, pr, nl)
      BY <1>1, <1>3, <2>2, <2>4, ModsBegin, Zenon
    <2> QED  BY <2>5
  <1> QED
    BY <1>9, <1>10, <1>11, <1>12

\* A modifier is read, or none is left.
LEMMA ModsNext ==
    ASSUME NEW j, NEW n, NEW F, NEW A, NEW T, Plan(j, n, F, A, T), NEW k, NEW f, NEW as, NEW p,
           NEW pr, NEW nl, InMods(j, n, F, A, T, k, f, as, p, pr, nl)
    PROVE  \/ InConv(j, n, F, A, T, k, f, as, p, pr, nl)
           \/ /\ f # <<>> /\ Head(f) \in {"l", "t", "z"}
              /\ \A l \in Nat \ {0} : InMods(j, n, F, A, T, k, Tail(f), as, p, pr, l)
  <1>1. In(j, n, A, T, k, as, p) /\ Known(j.dirs[k], pr) /\ nl \in Nat
    BY Zenon DEF InMods
  <1>2. PICK a, b : /\ Sequence(a) /\ Sequence(b) /\ j.dirs[k].mods = a \o b
                    /\ f = b \o FromConv(j.dirs[k], F[k]) /\ (nl = 0 <=> a = <<>>)
    BY Zenon DEF InMods
  <1>3. k \in 1 .. n
    BY <1>1 DEF In
  <1>4. PICK d, g, m : d = j.dirs[k] /\ g = FromConv(j.dirs[k], F[k]) /\ m = j.dirs[k].mods
    OBVIOUS
  <1>5. DirOK(d) /\ Sequence(F[k])
    <2>1. Here(j, n, F, A, T, k, d)
      BY <1>3, <1>4, PlanAt, Zenon
    <2> QED  BY <2>1 DEF Here
  <1>6. Sequence(g)
    BY <1>4, <1>5, PartsOf
  <1>7. f = b \o g /\ m = a \o b
    BY <1>2, <1>4
  <1>8. CASE b = <<>>
    <2>1. f = g /\ m = a
      BY <1>2, <1>6, <1>7, <1>8, ConcatNothing
    <2>2. nl = 0 <=> m = <<>>
      BY <1>2, <2>1
    <2>3. InConv(j, n, F, A, T, k, f, as, p, pr, nl)
      BY <1>1, <1>4, <2>1, <2>2, Zenon DEF InConv
    <2> QED  BY <2>3
  <1>9. CASE b # <<>>
    <2>1. PICK c, t : Sequence(t) /\ b = <<c>> \o t /\ c = b[1] /\ 1 \in 1 .. Len(b)
      BY <1>2, <1>9, FirstAndRest
    <2>2. Continues(f, c, t \o g)
      BY <1>6, <1>7, <2>1, ContinuesTwo
    <2>3. PICK a2 : a2 = a \o <<c>>
      OBVIOUS
    <2>4. a \o b = a2 \o t /\ Sequence(a2) /\ a2 # <<>>
      <3>1. SameSplit(a, b, a2, t)
        BY <1>2, <2>1, <2>3, SplitMoves, Zenon
      <3> QED  BY <3>1 DEF SameSplit
    <2>5. c \in {"l", "t", "z"}
      <3>1. \A pos \in 1 .. Len(m) : m[pos] \in {"l", "t", "z"}
        BY <1>4, <1>5, ModsAre
      <3>2. PICK pos : pos = Len(a) + 1
        OBVIOUS
      <3>3. Len(a) \in Nat /\ Len(b) \in Nat
        BY <1>2, SequenceLen
      <3>4. pos \in 1 .. Len(a) + Len(b) /\ ~(pos <= Len(a)) /\ pos - Len(a) = 1
        BY <2>1, <3>2, <3>3
      <3>5. Len(m) = Len(a) + Len(b)
        BY <1>2, <1>7, SequenceConcat
      <3>6. (a \o b)[pos] = IF pos <= Len(a) THEN a[pos] ELSE b[pos - Len(a)]
        BY <1>2, <3>4, ConcatAt
      <3>7. m[pos] = c
        BY <1>7, <2>1, <3>4, <3>6
      <3> QED  BY <3>1, <3>4, <3>5, <3>7
    <2>6. Head(f) = c /\ Tail(f) = t \o g /\ f # <<>>
      BY <2>2 DEF Continues
    <2>7. ASSUME NEW l \in Nat \ {0} PROVE InMods(j, n, F, A, T, k, Tail(f), as, p, pr, l)
      <3>1. l \in Nat /\ (l = 0 <=> a2 = <<>>)
        BY <2>4
      <3>2. /\ Sequence(a2) /\ Sequence(t) /\ j.dirs[k].mods = a2 \o t
            /\ Tail(f) = t \o FromConv(j.dirs[k], F[k])
        BY <1>2, <1>4, <2>1, <2>4, <2>6
      <3> QED  BY <1>1, <3>1, <3>2, Zenon DEF InMods
    <2> QED  BY <2>5, <2>6, <2>7
  <1> QED
    BY <1>8, <1>9

\* Where directive d is converted: t has been printed, T[k] is due.
Due(j, n, F, A, T, k, f, as, p, d, t) ==
    /\ k \in 1 .. n /\ n \in Nat /\ DirOK(d) /\ j.size \in Nat \ {0} /\ Given(p, t, j.size)
    /\ T[k] = t \o TextOf(d)
    /\ IF d.conv = End THEN f = <<>> /\ T[n] = t ELSE Continues(f, d.conv, F[k])
    /\ IF Takes(d) THEN Continues(as, d, A[k]) ELSE as = A[k]

\* The conversion follows, or the end of the format.
LEMMA ConvNext ==
    ASSUME NEW j, NEW n, NEW F, NEW A, NEW T, Plan(j, n, F, A, T), NEW k, NEW f, NEW as, NEW p,
           NEW pr, NEW nl, InConv(j, n, F, A, T, k, f, as, p, pr, nl),
           NEW d, d = j.dirs[k], NEW t, t = T[k - 1] \o j.lead
    PROVE  Due(j, n, F, A, T, k, f, as, p, d, t)
  <1>1. In(j, n, A, T, k, as, p) /\ f = FromConv(d, F[k])
    BY Zenon DEF InConv
  <1>2. k \in 1 .. n /\ as = A[k - 1] /\ Given(p, t, j.size)
    BY <1>1 DEF In
  <1>3. Here(j, n, F, A, T, k, d)
    BY <1>2, PlanAt, Zenon
  <1>4. DirOK(d) /\ j.size \in Nat \ {0} /\ n \in Nat /\ (d.conv = End => k = n) /\ F[n] = <<>>
    BY <1>3 DEF Here
  <1>5. PICK a, b, x, g : a = T[k - 1] /\ b = j.lead /\ x = TextOf(d) /\ g = F[k]
    OBVIOUS
  <1>6. Sequence(a) /\ Sequence(b) /\ Sequence(x)
    <2>1. Sequence(x)
      BY <1>4, <1>5, CleanText DEF Clean
    <2> QED  BY <1>3, <1>5, <2>1 DEF Here
  <1>7. T[k] = t \o x
    <2>1. (a \o b) \o x = a \o (b \o x)
      BY <1>6, ConcatThree, SMTT(30)
    <2>2. T[k] = a \o (b \o x)
      BY <1>3, <1>5 DEF Here
    <2> QED  BY <1>5, <2>1, <2>2
  <1>8. IF d.conv = End THEN f = <<>> /\ T[n] = t ELSE Continues(f, d.conv, F[k])
    <2>1. Sequence(g)
      BY <1>3, <1>5 DEF Here
    <2>2. CASE d.conv = End
      <3>1. g = <<>> /\ k = n
        BY <1>4, <1>5, <2>2
      <3>2. f = <<>> \o g
        BY <1>1, <1>5, <2>2 DEF FromConv, ConvOf
      <3>3. f = <<>>
        BY <2>1, <3>1, <3>2, ConcatNothing
      <3>4. x = <<>>
        <4>1. ~Takes(d)
          BY <2>2 DEF Takes, End
        <4>2. x = Bare(d)
          BY <1>5, <4>1 DEF TextOf
        <4> QED  BY <1>4, <2>2, <4>2, BareIs
      <3>5. t \o <<>> = t
        <4>1. Sequence(t)
          BY <1>2 DEF Given
        <4> QED  BY <4>1, ConcatNothing
      <3> QED  BY <1>7, <2>2, <3>1, <3>3, <3>4, <3>5
    <2>3. CASE d.conv # End
      <3>1. f = <<d.conv>> \o g
        BY <1>1, <1>5, <2>3 DEF FromConv, ConvOf
      <3>2. Continues(f, d.conv, g)
        BY <2>1, <3>1, ContinuesIs
      <3> QED  BY <1>5, <2>3, <3>2
    <2> QED  BY <2>2, <2>3
  <1>9. IF Takes(d) THEN Continues(as, d, A[k]) ELSE as = A[k]
    <2>1. PICK e : e = A[k]
      OBVIOUS
    <2>2. Sequence(e) /\ as = IF Takes(d) THEN <<d>> \o e ELSE e
      BY <1>2, <1>3, <2>1 DEF Here
    <2>3. CASE Takes(d)
      <3>1. Continues(as, d, e)
        BY <2>2, <2>3, ContinuesIs
      <3> QED  BY <2>1, <2>3, <3>1
    <2>4. CASE ~Takes(d)
      BY <2>1, <2>2, <2>4
    <2> QED  BY <2>3, <2>4
  <1> QED
    BY <1>2, <1>4, <1>5, <1>7, <1>8, <1>9 DEF Due

\* What can come next behind a %: a flag, a number, a modifier, or the
\* conversion; f and pr are then as vsnprintf() leaves them.
Reads(j, n, F, A, T, k, f, as, p, pr, nl, g, q) ==
    \/ /\ f # <<>> /\ Head(f) = "#"
       /\ InNumber(j, n, F, A, T, k, Tail(f), as, p, [pr EXCEPT !.alternate = TRUE], nl)
    \/ /\ f # <<>> /\ Head(f) \in DecDigit \cup {"-"}
       /\ InMods(j, n, F, A, T, k, SubSeq(g, NumberLen(g) + 1, Len(g)), as, p, q, nl)
    \/ /\ f # <<>> /\ Head(f) \in {"l", "t", "z"}
       /\ \A l \in Nat \ {0} : InMods(j, n, F, A, T, k, Tail(f), as, p, pr, l)
    \/ InConv(j, n, F, A, T, k, f, as, p, pr, nl)

\* One of them does.
LEMMA SpecNext ==
    ASSUME NEW j, NEW n, NEW F, NEW A, NEW T, Plan(j, n, F, A, T), NEW k, NEW f, NEW as, NEW p,
           NEW pr, NEW nl,
           \/ InHash(j, n, F, A, T, k, f, as, p, pr, nl)
           \/ InNumber(j, n, F, A, T, k, f, as, p, pr, nl)
           \/ InMods(j, n, F, A, T, k, f, as, p, pr, nl),
           NEW g, g = (IF Head(f) = "0" THEN Tail(f) ELSE f),
           NEW q, q = [pr EXCEPT !.npad = IntRead(g), !.pad = IF Head(f) = "0" THEN "0" ELSE @]
    PROVE  Reads(j, n, F, A, T, k, f, as, p, pr, nl, g, q)
  <1>1. ASSUME InMods(j, n, F, A, T, k, f, as, p, pr, nl)
        PROVE  Reads(j, n, F, A, T, k, f, as, p, pr, nl, g, q)
    BY <1>1, ModsNext, Zenon DEF Reads
  <1>2. ASSUME InNumber(j, n, F, A, T, k, f, as, p, pr, nl)
        PROVE  Reads(j, n, F, A, T, k, f, as, p, pr, nl, g, q)
    <2>1. \/ InMods(j, n, F, A, T, k, f, as, p, pr, nl)
          \/ /\ f # <<>> /\ Head(f) \in DecDigit \cup {"-"}
             /\ InMods(j, n, F, A, T, k, SubSeq(g, NumberLen(g) + 1, Len(g)), as, p, q, nl)
      BY <1>2, NumberNext, Zenon
    <2> QED  BY <1>1, <2>1, Zenon DEF Reads
  <1>3. ASSUME InHash(j, n, F, A, T, k, f, as, p, pr, nl)
        PROVE  Reads(j, n, F, A, T, k, f, as, p, pr, nl, g, q)
    <2>1. \/ InNumber(j, n, F, A, T, k, f, as, p, pr, nl)
          \/ /\ f # <<>> /\ Head(f) = "#"
             /\ InNumber(j, n, F, A, T, k, Tail(f), as, p, [pr EXCEPT !.alternate = TRUE], nl)
      BY <1>3, HashNext, Zenon
    <2> QED  BY <1>2, <2>1, Zenon DEF Reads
  <1> QED
    BY <1>1, <1>2, <1>3

\* The text printed so far has no NUL, ...
LEMMA TextClean ==
    ASSUME NEW j, NEW n, NEW F, NEW A, NEW T, Plan(j, n, F, A, T)
    PROVE  Clean(T[n])
  <1>1. Call(j, n) /\ TextPlan(j, n, T)
    BY DEF Plan
  <1>2. n \in Nat /\ Clean(j.lead) /\ \A k \in 1 .. n : DirOK(j.dirs[k])
    BY <1>1 DEF Call
  <1> DEFINE S == {k \in Nat : k <= n => Clean(T[k])}
  <1>3. 0 \in S
    BY <1>1, CleanPieces DEF TextPlan
  <1>4. ASSUME NEW m \in Nat, m \in S PROVE m + 1 \in S
    <2>1. SUFFICES ASSUME m + 1 <= n PROVE Clean(T[m + 1])
      OBVIOUS
    <2>2. PICK k \in 1 .. n : k = m + 1
      BY <1>2, <2>1
    <2>3. PICK a, b, x : a = T[m] /\ b = j.lead /\ x = TextOf(j.dirs[k])
      OBVIOUS
    <2>4. Clean(a) /\ Clean(b) /\ Clean(x)
      <3>1. Clean(x)
        BY <1>2, <2>3, CleanText
      <3> QED  BY <1>2, <1>4, <2>1, <2>3, <3>1
    <2>5. Clean(b \o x)
      BY <2>4, CleanConcat
    <2>6. Clean(a \o (b \o x))
      BY <2>4, <2>5, CleanConcat
    <2>7. k - 1 = m
      BY <1>2, <2>2
    <2>8. T[k] = T[k - 1] \o (j.lead \o TextOf(j.dirs[k]))
      BY <1>1 DEF TextPlan
    <2> QED  BY <2>2, <2>3, <2>6, <2>7, <2>8
  <1>5. n \in S
    <2> HIDE DEF S
    <2> QED  BY <1>2, <1>3, <1>4, SetInduction
  <1> QED
    BY <1>2, <1>5

\* ... so that puts() stops at its end.
LEMMA PutsAll ==
    ASSUME NEW t, Clean(t), NEW size \in Nat \ {0}, NEW p, Given(p, t, size)
    PROVE  UpToNul(p.buffer) = p.buffer
  <1>1. Sequence(t) /\ Len(t) \in Nat /\ \A k \in 1 .. Len(t) : t[k] # NulChar
    BY SequenceLen DEF Clean
  <1>2. PICK m : m = Kept(t, size)
    OBVIOUS
  <1>3. m \in Nat /\ m <= Len(t)
    BY <1>1, <1>2 DEF Kept
  <1>4. PICK u : u = p.buffer
    OBVIOUS
  <1>5. u = SubSeq(t, 1, m)
    BY <1>2, <1>4 DEF Given
  <1>6. Sequence(u) /\ Len(u) = m /\ \A k \in 1 .. m : u[k] = t[k]
    BY <1>1, <1>3, <1>5, PrefixAt
  <1>7. Clean(u)
    BY <1>1, <1>3, <1>6 DEF Clean
  <1> QED
    BY <1>4, <1>6, <1>7, CleanIs

\* Where a call is, by pc.
LEMMA WhereIs ==
    ASSUME NEW j, NEW n, NEW F, NEW A, NEW T, NEW c, NEW f, NEW as, NEW pr, NEW nl, NEW p, NEW s,
           Where(j, n, F, A, T, c, f, as, pr, nl, p, s)
    PROVE  /\ c = "text" => \/ \E k : InText(j, n, F, A, T, k, f, as, p)
                            \/ f = <<>> /\ Given(p, T[n], j.size)
           /\ c = "spec" => \E k : \/ InHash(j, n, F, A, T, k, f, as, p, pr, nl)
                                   \/ InNumber(j, n, F, A, T, k, f, as, p, pr, nl)
                                   \/ InMods(j, n, F, A, T, k, f, as, p, pr, nl)
           /\ c = "puts" => f = <<>> /\ Given(p, T[n], j.size)
           /\ c = "done" => Given(p, T[n], j.size) /\ (j.fn # "snprintf" => s = p.buffer)
  <1>1. /\ "text" # "spec" /\ "text" # "puts" /\ "text" # "done" /\ "spec" # "puts"
        /\ "spec" # "done" /\ "puts" # "done"
    OBVIOUS
  <1> QED
    BY <1>1, Zenon DEF Where

\* The characters after which vsnprintf() reads on are apart from each other
\* and from the conversions.
Flags == {"#", "-", "l", "t", "z"} \cup DecDigit

\* None of the other characters is a digit.
LEMMA CharsApart ==
    /\ "#" \notin DecDigit /\ "-" \notin DecDigit /\ "l" \notin DecDigit /\ "t" \notin DecDigit
    /\ "z" \notin DecDigit
  <1>1. ASSUME NEW v \in 0 .. 9 PROVE digit(v) \notin {"#", "-", "l", "t", "z"}
    <2>1. PICK pos \in 1 .. 10 : pos = v + 1
      OBVIOUS
    <2>2. digits[pos] \notin {"#", "-", "l", "t", "z"}
      BY DEF digits
    <2> QED  BY <2>1, <2>2 DEF digit
  <1> QED
    BY <1>1 DEF DecDigit

\* What comes next, by the character that is there.
LEMMA ReadCases ==
    ASSUME NEW j, NEW n, NEW F, NEW A, NEW T, Plan(j, n, F, A, T), NEW k, NEW f, NEW as, NEW p,
           NEW pr, NEW nl,
           \/ InHash(j, n, F, A, T, k, f, as, p, pr, nl)
           \/ InNumber(j, n, F, A, T, k, f, as, p, pr, nl)
           \/ InMods(j, n, F, A, T, k, f, as, p, pr, nl),
           NEW g, g = (IF Head(f) = "0" THEN Tail(f) ELSE f),
           NEW q, q = [pr EXCEPT !.npad = IntRead(g), !.pad = IF Head(f) = "0" THEN "0" ELSE @]
    PROVE  /\ f = <<>> \/ Head(f) \notin Flags => InConv(j, n, F, A, T, k, f, as, p, pr, nl)
           /\ f # <<>> /\ Head(f) = "#" =>
                 InNumber(j, n, F, A, T, k, Tail(f), as, p, [pr EXCEPT !.alternate = TRUE], nl)
           /\ f # <<>> /\ Head(f) \in DecDigit \cup {"-"} =>
                 InMods(j, n, F, A, T, k, SubSeq(g, NumberLen(g) + 1, Len(g)), as, p, q, nl)
           /\ f # <<>> /\ Head(f) \in {"l", "t", "z"} =>
                 \A l \in Nat \ {0} : InMods(j, n, F, A, T, k, Tail(f), as, p, pr, l)
  <1>1. Reads(j, n, F, A, T, k, f, as, p, pr, nl, g, q)
    BY SpecNext, Zenon
  <1>2. InConv(j, n, F, A, T, k, f, as, p, pr, nl) => f = <<>> \/ Head(f) \notin Flags
    <2>1. PICK d, t : d = j.dirs[k] /\ t = T[k - 1] \o j.lead
      OBVIOUS
    <2>2. SUFFICES ASSUME InConv(j, n, F, A, T, k, f, as, p, pr, nl) PROVE f = <<>> \/ Head(f) \notin Flags
      OBVIOUS
    <2>3. Due(j, n, F, A, T, k, f, as, p, d, t)
      BY <2>1, <2>2, ConvNext, Zenon
    <2>4. DirOK(d) /\ (f = <<>> \/ Head(f) = d.conv)
      BY <2>3 DEF Due, Continues
    <2>5. d.conv \notin Flags
      BY <2>4 DEF DirOK, Legal, Flags
    <2> QED  BY <2>4, <2>5
  <1>3. /\ "#" \in Flags /\ DecDigit \cup {"-"} \subseteq Flags /\ {"l", "t", "z"} \subseteq Flags
        /\ "#" \notin DecDigit \cup {"-"} /\ "#" \notin {"l", "t", "z"}
        /\ \A c \in DecDigit \cup {"-"} : c \notin {"l", "t", "z"}
    BY CharsApart DEF Flags
  <1> HIDE DEF Flags
  <1>4. PICK h : h = Head(f)
    OBVIOUS
  <1>5. PICK B1, B2, B3 \in BOOLEAN :
           /\ B1 <=> h = "#" 
           /\ B2 <=> h \in DecDigit \cup {"-"}
           /\ B3 <=> h \in {"l", "t", "z"}
    <2>1. (h = "#") \in BOOLEAN /\ (h \in DecDigit \cup {"-"}) \in BOOLEAN /\ (h \in {"l", "t", "z"}) \in BOOLEAN
      OBVIOUS
    <2> QED  BY <2>1, Zenon
  <1>6. (B1 \/ B2 \/ B3 => h \in Flags) /\ ~(B1 /\ B2) /\ ~(B1 /\ B3) /\ ~(B2 /\ B3)
    BY <1>3, <1>5
  <1> QED
    BY <1>1, <1>2, <1>4, <1>5, <1>6, Zenon DEF Reads

\* When a directive has been converted.
LEMMA AfterConv ==
    ASSUME NEW j, NEW n, NEW F, NEW A, NEW T, Plan(j, n, F, A, T), NEW k, NEW f, NEW as, NEW p,
           NEW d, NEW t, Due(j, n, F, A, T, k, f, as, p, d, t),
           NEW f1, f1 = F[k], NEW as1, as1 = A[k], NEW p1, Given(p1, t \o TextOf(d), j.size),
           NEW pr, NEW nl, NEW s
    PROVE  Where(j, n, F, A, T, "text", f1, as1, pr, nl, p1, s)
  <1>1. k \in 0 .. n /\ Given(p1, T[k], j.size)
    <2>1. k \in 1 .. n /\ n \in Nat /\ T[k] = t \o TextOf(d)
      BY DEF Due
    <2> QED  BY <2>1
  <1> QED
    BY <1>1, Begins, Zenon

\* Where this call is.
At(n, F, A, T) == Where(job, n, F, A, T, pc, fmt, args, props, nlong, ps, sent)
AtNext(n, F, A, T) == Where(job, n, F, A, T, pc', fmt', args', props', nlong', ps', sent')

\* A character of the text, a %, and the end.
LEMMA TextSteps ==
    ASSUME NEW n, NEW F, NEW A, NEW T, Plan(job, n, F, A, T), At(n, F, A, T),
           Literal \/ Percent \/ Finish
    PROVE  AtNext(n, F, A, T)
  <1>1. pc = "text"
    BY DEF Literal, Percent, Finish
  <1>2. \/ \E k : InText(job, n, F, A, T, k, fmt, args, ps)
        \/ fmt = <<>> /\ Given(ps, T[n], job.size)
    BY <1>1, WhereIs, Zenon DEF At
  <1>3. CASE \E k : InText(job, n, F, A, T, k, fmt, args, ps)
    <2>1. PICK k : InText(job, n, F, A, T, k, fmt, args, ps)
      BY <1>3
    <2>2. /\ fmt # <<>>
          /\ Head(fmt) # "%" => InText(job, n, F, A, T, k, Tail(fmt), args, addchar(ps, Head(fmt)))
          /\ Head(fmt) = "%" => InHash(job, n, F, A, T, k, Tail(fmt), args, ps, NoProps, 0)
      BY <2>1, TextNext, Zenon
    <2>3. CASE Literal
      <3>1. pc' = "text" /\ InText(job, n, F, A, T, k, fmt', args', ps')
        BY <2>2, <2>3 DEF Literal
      <3> QED  BY <3>1, Zenon DEF AtNext, Where
    <2>4. CASE Percent
      <3>1. pc' = "spec" /\ InHash(job, n, F, A, T, k, fmt', args', ps', props', nlong')
        BY <2>2, <2>4 DEF Percent
      <3> QED  BY <3>1, Zenon DEF AtNext, Where
    <2>5. ~Finish
      BY <2>2 DEF Finish
    <2> QED  BY <2>3, <2>4, <2>5
  <1>4. CASE fmt = <<>> /\ Given(ps, T[n], job.size)
    <2>1. Finish
      BY <1>4 DEF Literal, Percent
    <2>2. fmt' = <<>> /\ ps' = ps
      BY <1>4, <2>1 DEF Finish
    <2>3. CASE job.fn # "snprintf"
      <3>1. pc' = "puts"
        BY <2>1, <2>3 DEF Finish
      <3>2. pc' \in {"text", "puts"}
        BY <3>1
      <3> QED  BY <1>4, <2>2, <3>2, Zenon DEF AtNext, Where
    <2>4. CASE job.fn = "snprintf"
      <3>1. pc' = "done"
        BY <2>1, <2>4 DEF Finish
      <3> QED  BY <1>4, <2>2, <2>4, <3>1, Zenon DEF AtNext, Where
    <2> QED  BY <2>3, <2>4
  <1> QED
    BY <1>2, <1>3, <1>4

\* printf() hands the text on.
LEMMA PutsSteps ==
    ASSUME NEW n, NEW F, NEW A, NEW T, Plan(job, n, F, A, T), At(n, F, A, T), Puts
    PROVE  AtNext(n, F, A, T)
  <1>1. pc = "puts" /\ pc' = "done" /\ ps' = ps /\ sent' = UpToNul(ps.buffer)
    BY DEF Puts
  <1>2. Given(ps, T[n], job.size)
    BY <1>1, WhereIs, Zenon DEF At
  <1>3. job.size \in Nat \ {0}
    BY DEF Plan, Call
  <1>4. Clean(T[n])
    BY TextClean, Zenon
  <1>5. UpToNul(ps.buffer) = ps.buffer
    BY <1>2, <1>3, <1>4, PutsAll
  <1>6. Given(ps', T[n], job.size) /\ sent' = ps'.buffer
    BY <1>1, <1>2, <1>5
  <1> QED
    BY <1>1, <1>6, Zenon DEF AtNext, Where

\* A flag, the number, a modifier.
LEMMA FlagSteps ==
    ASSUME NEW n, NEW F, NEW A, NEW T, Plan(job, n, F, A, T), At(n, F, A, T),
           FlagHash \/ FlagZero \/ FlagNumber \/ ModLong \/ ModSize
    PROVE  AtNext(n, F, A, T)
  <1>1. pc = "spec" /\ fmt # <<>> /\ pc' = "spec" /\ args' = args /\ ps' = ps
    BY DEF FlagHash, FlagZero, FlagNumber, ModLong, ModSize, ReadsOn
  <1>2. PICK k : \/ InHash(job, n, F, A, T, k, fmt, args, ps, props, nlong)
                 \/ InNumber(job, n, F, A, T, k, fmt, args, ps, props, nlong)
                 \/ InMods(job, n, F, A, T, k, fmt, args, ps, props, nlong)
    BY <1>1, WhereIs, Zenon DEF At
  <1>3. PICK g : g = IF Head(fmt) = "0" THEN Tail(fmt) ELSE fmt
    OBVIOUS
  <1>4. PICK q : q = [props EXCEPT !.npad = IntRead(g), !.pad = IF Head(fmt) = "0" THEN "0" ELSE @]
    OBVIOUS
  <1>5. /\ Head(fmt) = "#" =>
              InNumber(job, n, F, A, T, k, Tail(fmt), args, ps, [props EXCEPT !.alternate = TRUE], nlong)
        /\ Head(fmt) \in DecDigit \cup {"-"} =>
              InMods(job, n, F, A, T, k, SubSeq(g, NumberLen(g) + 1, Len(g)), args, ps, q, nlong)
        /\ Head(fmt) \in {"l", "t", "z"} =>
              \A l \in Nat \ {0} : InMods(job, n, F, A, T, k, Tail(fmt), args, ps, props, l)
    BY <1>1, <1>2, <1>3, <1>4, ReadCases, Zenon
  <1>6. nlong \in Nat
    <2>1. 0 \in Nat
      OBVIOUS
    <2> QED  BY <1>2, <2>1, Zenon DEF InHash, InNumber, InMods
  <1>7. CASE FlagHash
    <2>1. /\ Head(fmt) = "#" /\ props' = [props EXCEPT !.alternate = TRUE]
          /\ fmt' = Tail(fmt) /\ nlong' = nlong
      BY <1>7 DEF FlagHash, ReadsOn
    <2>2. InNumber(job, n, F, A, T, k, fmt', args', ps', props', nlong')
      BY <1>1, <1>5, <2>1, Zenon
    <2> QED  BY <1>1, <2>2, Zenon DEF AtNext, Where
  <1>8. CASE FlagZero \/ FlagNumber
    <2>1. Head(fmt) \in DecDigit \cup {"-"} /\ nlong' = nlong /\ fmtnum(g)
      <3>1. CASE FlagZero
        <4>1. Head(fmt) = "0" /\ g = Tail(fmt) /\ nlong' = nlong /\ fmtnum(g)
          BY <1>3, <3>1 DEF FlagZero, ReadsOn
        <4>2. "0" \in DecDigit
          <5>1. PICK z \in 0 .. 9 : z = 0
            OBVIOUS
          <5>2. digit(z) \in DecDigit /\ digit(z) = "0"
            BY <5>1, DigitIs
          <5> QED  BY <5>2
        <4> QED  BY <4>1, <4>2
      <3>2. CASE FlagNumber
        <4>1. "-" # "0"
          OBVIOUS
        <4>2. Head(fmt) \in (DecDigit \ {"0"}) \cup {"-"} /\ nlong' = nlong /\ fmtnum(fmt)
          BY <3>2 DEF FlagNumber, ReadsOn
        <4>3. Head(fmt) # "0"
          BY <4>1, <4>2
        <4>4. g = fmt
          BY <1>3, <4>3
        <4> QED  BY <4>2, <4>4
      <3> QED  BY <1>8, <3>1, <3>2
    <2>2. props' = q /\ fmt' = SubSeq(g, NumberLen(g) + 1, Len(g))
      BY <1>4, <2>1, Zenon DEF fmtnum, IntRead
    <2>3. InMods(job, n, F, A, T, k, fmt', args', ps', props', nlong')
      BY <1>1, <1>5, <2>1, <2>2, Zenon
    <2> QED  BY <1>1, <2>3, Zenon DEF AtNext, Where
  <1>9. CASE ModLong \/ ModSize
    <2>1. Head(fmt) \in {"l", "t", "z"} /\ fmt' = Tail(fmt) /\ props' = props
      BY <1>9 DEF ModLong, ModSize, ReadsOn
    <2>2. nlong' \in Nat \ {0}
      BY <1>6, <1>9 DEF ModLong, ModSize
    <2>3. InMods(job, n, F, A, T, k, fmt', args', ps', props', nlong')
      BY <1>1, <1>5, <2>1, <2>2, Zenon
    <2> QED  BY <1>1, <2>3, Zenon DEF AtNext, Where
  <1> QED
    BY <1>7, <1>8, <1>9

\* A conversion is no flag.
LEMMA ConversionsApart ==
    \A c \in {"d", "u", "x", "p", "s", "c"} : c \notin Flags
  <1>1. ASSUME NEW v \in 0 .. 9 PROVE digit(v) \notin {"d", "u", "x", "p", "s", "c"}
    <2>1. PICK pos \in 1 .. 10 : pos = v + 1
      OBVIOUS
    <2>2. digits[pos] \notin {"d", "u", "x", "p", "s", "c"}
      BY DEF digits
    <2> QED  BY <2>1, <2>2 DEF digit
  <1> QED
    BY <1>1 DEF DecDigit, Flags

\* What is known when a conversion is read.
LEMMA AtConversion ==
    ASSUME NEW n, NEW F, NEW A, NEW T, Plan(job, n, F, A, T), At(n, F, A, T),
           pc = "spec", fmt = <<>> \/ Head(fmt) \notin Flags
    PROVE  \E k, d, t : /\ Due(job, n, F, A, T, k, fmt, args, ps, d, t)
                        /\ Known(d, props) /\ (nlong = 0 <=> d.mods = <<>>)
  <1>1. PICK k : \/ InHash(job, n, F, A, T, k, fmt, args, ps, props, nlong)
                 \/ InNumber(job, n, F, A, T, k, fmt, args, ps, props, nlong)
                 \/ InMods(job, n, F, A, T, k, fmt, args, ps, props, nlong)
    BY WhereIs, Zenon DEF At
  <1>2. PICK g : g = IF Head(fmt) = "0" THEN Tail(fmt) ELSE fmt
    OBVIOUS
  <1>3. PICK q : q = [props EXCEPT !.npad = IntRead(g), !.pad = IF Head(fmt) = "0" THEN "0" ELSE @]
    OBVIOUS
  <1>4. InConv(job, n, F, A, T, k, fmt, args, ps, props, nlong)
    BY <1>1, <1>2, <1>3, ReadCases, Zenon
  <1>5. PICK d, t : d = job.dirs[k] /\ t = T[k - 1] \o job.lead
    OBVIOUS
  <1>6. Due(job, n, F, A, T, k, fmt, args, ps, d, t)
    BY <1>4, <1>5, ConvNext, Zenon
  <1>7. Known(d, props) /\ (nlong = 0 <=> d.mods = <<>>)
    BY <1>4, <1>5, Zenon DEF InConv
  <1> QED
    BY <1>6, <1>7, Zenon

\* The stream and the directive, for a conversion that takes an argument.
LEMMA ReadyIs ==
    ASSUME NEW j, NEW n, NEW F, NEW A, NEW T, NEW k, NEW f, NEW as, NEW p, NEW d, NEW t,
           Due(j, n, F, A, T, k, f, as, p, d, t), Takes(d), NEW pr, Known(d, pr), pr \in PropsType
    PROVE  Ready(p, t, j.size, d, pr)
  <1>1. DirOK(d) /\ j.size \in Nat \ {0} /\ Given(p, t, j.size)
    BY DEF Due
  <1> QED
    BY <1>1, Zenon DEF Known, Ready

\* A conversion prints the text of its directive.
LEMMA ConvSteps ==
    ASSUME NEW n, NEW F, NEW A, NEW T, Plan(job, n, F, A, T), At(n, F, A, T), props \in PropsType,
           ConvInt \/ ConvUnsigned \/ ConvPointer \/ ConvString \/ ConvChar \/ ConvOther
    PROVE  AtNext(n, F, A, T)
  <1>1. pc = "spec" /\ pc' = "text" /\ fmt # <<>> /\ fmt' = Tail(fmt)
    BY DEF ConvInt, ConvUnsigned, ConvPointer, ConvString, ConvChar, ConvOther, Converts
  <1>2. Head(fmt) \in {"d", "u", "x", "p", "s", "c"} \/ Head(fmt) \notin Letters
    BY DEF ConvInt, ConvUnsigned, ConvPointer, ConvString, ConvChar, ConvOther, Converts
  <1>3. Head(fmt) \notin Flags
    <2>1. Flags \subseteq Letters
      BY DEF Flags, Letters
    <2> QED  BY <1>2, <2>1, ConversionsApart, Zenon
  <1>4. PICK k, d, t : /\ Due(job, n, F, A, T, k, fmt, args, ps, d, t)
                       /\ Known(d, props) /\ (nlong = 0 <=> d.mods = <<>>)
    BY <1>1, <1>3, AtConversion, Zenon
  <1>5. d.conv # End /\ Head(fmt) = d.conv /\ fmt' = F[k]
    BY <1>1, <1>4 DEF Due, Continues
  <1>6. Takes(d) => Head(args) = d /\ Tail(args) = A[k] /\ Ready(ps, t, job.size, d, props)
    <2>1. Takes(d) => Head(args) = d /\ Tail(args) = A[k]
      BY <1>4 DEF Due, Continues
    <2>2. Takes(d) => Ready(ps, t, job.size, d, props)
      BY <1>4, ReadyIs, Zenon
    <2> QED  BY <2>1, <2>2
  <1>7. Bits = WidthOf(d)
    BY <1>4 DEF Bits, WidthOf
  <1>8. args' = A[k] /\ Given(ps', t \o TextOf(d), job.size)
    <2>1. CASE ConvInt
      <3>1. d.conv = "d" /\ Takes(d)
        BY <1>5, <2>1 DEF ConvInt, Converts, Takes
      <3>2. PICK junk : ps' = print_int(ps, Signed(d.int, WidthOf(d)), props, junk)
        BY <1>6, <1>7, <2>1, <3>1, Zenon DEF ConvInt
      <3>3. args' = A[k]
        BY <1>6, <2>1, <3>1 DEF ConvInt, Arg
      <3> QED  BY <1>6, <3>1, <3>2, <3>3, IntAdds
    <2>2. CASE ConvUnsigned
      <3>1. d.conv \in {"u", "x"} /\ Takes(d)
        BY <1>5, <2>2 DEF ConvUnsigned, Converts, Takes
      <3>2. PICK base : base = IF d.conv = "x" THEN 16 ELSE 10
        OBVIOUS
      <3>3. ps' = print_unsigned(ps, Unsigned(d.int, WidthOf(d)), base, props)
        BY <1>5, <1>6, <1>7, <2>2, <3>1, <3>2, Zenon DEF ConvUnsigned
      <3>4. args' = A[k]
        BY <1>6, <2>2, <3>1 DEF ConvUnsigned, Arg
      <3> QED  BY <1>6, <3>1, <3>2, <3>3, <3>4, UnsignedAdds
    <2>3. CASE ConvPointer
      <3>1. d.conv = "p" /\ Takes(d)
        BY <1>5, <2>3 DEF ConvPointer, Converts, Takes
      <3>2. ps' = print_unsigned(ps, d.int, 16, [props EXCEPT !.alternate = TRUE])
        BY <1>6, <2>3, <3>1, Zenon DEF ConvPointer
      <3>3. args' = A[k]
        BY <1>6, <2>3, <3>1 DEF ConvPointer, Arg
      <3> QED  BY <1>6, <3>1, <3>2, <3>3, PointerAdds
    <2>4. CASE ConvString
      <3>1. d.conv = "s" /\ Takes(d)
        BY <1>5, <2>4 DEF ConvString, Converts, Takes
      <3>2. ps' = print_str(ps, d.str, props)
        BY <1>6, <2>4, <3>1, Zenon DEF ConvString
      <3>3. args' = A[k]
        BY <1>6, <2>4, <3>1 DEF ConvString, Arg
      <3> QED  BY <1>6, <3>1, <3>2, <3>3, StringAdds
    <2>5. DirOK(d) /\ job.size \in Nat \ {0} /\ Given(ps, t, job.size)
      BY <1>4 DEF Due
    <2>6. CASE ConvChar
      <3>1. d.conv = "c" /\ Takes(d)
        BY <1>5, <2>6 DEF ConvChar, Converts, Takes
      <3>2. d.conv \notin {"d", "u", "x", "p", "s", End}
        BY <1>5, <3>1
      <3>3. PICK c : c = IF d.conv = "c" THEN d.str[1] ELSE d.conv
        OBVIOUS
      <3>4. ps' = addchar(ps, c)
        BY <1>6, <2>6, <3>1, <3>3, Zenon DEF ConvChar
      <3>5. args' = A[k]
        BY <1>6, <2>6, <3>1 DEF ConvChar, Arg
      <3> QED  BY <2>5, <3>2, <3>3, <3>4, <3>5, CharAdds
    <2>7. CASE ConvOther
      <3>1. d.conv \notin {"d", "u", "x", "p", "s", "c", End}
        BY <1>5, <2>7 DEF ConvOther, Converts, Letters
      <3>2. ~Takes(d) /\ d.conv \notin {"d", "u", "x", "p", "s", End} /\ d.conv # "c"
        BY <3>1 DEF Takes
      <3>3. PICK c : c = IF d.conv = "c" THEN d.str[1] ELSE d.conv
        OBVIOUS
      <3>4. ps' = addchar(ps, c)
        BY <1>5, <2>7, <3>2, <3>3 DEF ConvOther
      <3>5. args' = A[k]
        <4>1. args = A[k]
          BY <1>4, <3>2 DEF Due
        <4> QED  BY <2>7, <4>1 DEF ConvOther
      <3> QED  BY <2>5, <3>2, <3>3, <3>4, <3>5, CharAdds
    <2> QED  BY <2>1, <2>2, <2>3, <2>4, <2>6, <2>7
  <1>9. Where(job, n, F, A, T, "text", fmt', args', props', nlong', ps', sent')
    BY <1>4, <1>5, <1>8, AfterConv, Zenon
  <1> QED
    BY <1>1, <1>9 DEF AtNext

\* The format ends behind a %.
LEMMA SpecEndsStep ==
    ASSUME NEW n, NEW F, NEW A, NEW T, Plan(job, n, F, A, T), At(n, F, A, T), SpecEnds
    PROVE  AtNext(n, F, A, T)
  <1>1. pc = "spec" /\ fmt = <<>> /\ pc' = "text" /\ fmt' = <<>> /\ ps' = ps
    BY DEF SpecEnds
  <1>2. PICK k, d, t : Due(job, n, F, A, T, k, fmt, args, ps, d, t)
    BY <1>1, AtConversion, Zenon
  <1>3. T[n] = t /\ Given(ps, t, job.size)
    BY <1>1, <1>2 DEF Due, Continues
  <1>4. pc' \in {"text", "puts"} /\ fmt' = <<>> /\ Given(ps', T[n], job.size)
    BY <1>1, <1>3
  <1> QED
    BY <1>4, Zenon DEF AtNext, Where

\* The blank.
Space(c) == c = " "

\* atol() stops at it.
LEMMA SpaceNoDigit ==
    ASSUME NEW c, Space(c)
    PROVE  c \notin DecDigit /\ NulChar \notin DecDigit
  <1>1. ASSUME NEW v \in 0 .. 9 PROVE digit(v) # c /\ digit(v) # NulChar
    BY DigitIs, Zenon DEF Space
  <1> QED
    BY <1>1, Zenon DEF DecDigit

\* Four sequences joined.
Joined(t, a, b, c, d) == t = a \o (b \o (c \o d))

\* Blanks, a sign, digits and what follows are a text atol() can read.
LEMMA PiecesRead ==
    ASSUME NEW p, ArePowers(p, 10), NEW n \in Nat, NEW D, NEW m, Digits(D, n, 10, p, m),
           NEW c, Space(c), NEW L, Sequence(L), \A k \in 1 .. Len(L) : L[k] = c,
           NEW N, N \in {<<>>, <<"-">>}, NEW R, Sequence(R), CharAt(R, 1) \notin DecDigit,
           NEW t, Joined(t, L, N, D, R)
    PROVE  atol(t) = IF N = <<>> THEN n ELSE -n
  <1>1. Sequence(D) /\ Len(D) = m /\ m \in Nat
    BY SequenceLen DEF Digits
  <1>2. PICK s \in 0 .. 1 : s = IF N = <<>> THEN 0 ELSE 1
    OBVIOUS
  <1>3. Sequence(N) /\ Len(N) = s /\ (s = 1 => N[1] = "-") /\ (N = <<>> <=> s = 0)
    BY <1>2, SequenceOne
  <1>4. PICK a \in Nat : a = Len(L)
    BY SequenceLen
  <1>5. PICK v : v = D \o R
    OBVIOUS
  <1>6. PICK u : u = N \o v
    OBVIOUS
  <1>7. Sequence(v)
    BY <1>1, <1>5, SequenceConcat
  <1>8. Sequence(u)
    BY <1>3, <1>6, <1>7, SequenceConcat
  <1>9. t = L \o u
    BY <1>5, <1>6 DEF Joined
  <1>10. Sequence(t)
    BY <1>8, <1>9, SequenceConcat
  <1>11. ASSUME NEW k \in Nat \ {0}
         PROVE  CharAt(t, k) = IF k <= a THEN L[k] ELSE CharAt(u, k - a)
    <2>1. CharAt(L \o u, k) = IF k <= Len(L) THEN L[k] ELSE CharAt(u, k - Len(L))
      BY <1>8, CharAtConcat
    <2> QED  BY <1>4, <1>9, <2>1
  <1>12. ASSUME NEW k \in Nat \ {0}
         PROVE  CharAt(u, k) = IF k <= s THEN N[k] ELSE CharAt(v, k - s)
    <2>1. CharAt(N \o v, k) = IF k <= Len(N) THEN N[k] ELSE CharAt(v, k - Len(N))
      BY <1>3, <1>7, CharAtConcat
    <2> QED  BY <1>3, <1>6, <2>1
  <1>13. ASSUME NEW k \in Nat \ {0}
         PROVE  CharAt(v, k) = IF k <= m THEN D[k] ELSE CharAt(R, k - m)
    <2>1. CharAt(D \o R, k) = IF k <= Len(D) THEN D[k] ELSE CharAt(R, k - Len(D))
      BY <1>1, CharAtConcat
    <2> QED  BY <1>1, <1>5, <2>1
  <1>14. \A k \in 1 .. a : CharAt(t, k) = c
    <2>1. ASSUME NEW k \in 1 .. a PROVE CharAt(t, k) = c
      <3>1. k \in Nat \ {0} /\ k <= a /\ L[k] = c
        BY <1>4
      <3> QED  BY <1>11, <3>1
    <2> QED  BY <2>1
  <1>15. s = 1 => CharAt(t, a + 1) = "-"
    <2>1. SUFFICES ASSUME s = 1 PROVE CharAt(t, a + 1) = "-"
      OBVIOUS
    <2>2. a + 1 \in Nat \ {0} /\ ~(a + 1 <= a) /\ (a + 1) - a = 1 /\ 1 \in Nat \ {0} /\ 1 <= s
      BY <2>1
    <2>3. CharAt(t, a + 1) = CharAt(u, 1)
      BY <1>11, <2>2
    <2>4. CharAt(u, 1) = N[1]
      BY <1>12, <2>2
    <2> QED  BY <1>3, <2>1, <2>3, <2>4
  <1>16. ASSUME NEW k \in Nat \ {0} PROVE CharAt(t, a + s + k) = CharAt(v, k)
    <2>1. /\ a + s + k \in Nat \ {0} /\ ~(a + s + k <= a) /\ (a + s + k) - a = s + k
          /\ s + k \in Nat \ {0} /\ ~(s + k <= s) /\ (s + k) - s = k
      OBVIOUS
    <2>2. CharAt(t, a + s + k) = CharAt(u, s + k)
      BY <1>11, <2>1
    <2>3. CharAt(u, s + k) = CharAt(v, k)
      BY <1>12, <2>1
    <2> QED  BY <2>2, <2>3
  <1>17. \A k \in 1 .. m : CharAt(t, a + s + k) = D[k]
    <2>1. ASSUME NEW k \in 1 .. m PROVE CharAt(t, a + s + k) = D[k]
      <3>1. k \in Nat \ {0} /\ k <= m
        BY <1>1
      <3> QED  BY <1>13, <1>16, <3>1
    <2> QED  BY <2>1
  <1>18. CharAt(t, a + s + m + 1) \notin DecDigit
    <2>1. PICK k \in Nat \ {0} : k = m + 1
      BY <1>1
    <2>2. ~(k <= m) /\ k - m = 1 /\ a + s + m + 1 = a + s + k
      BY <1>1, <2>1
    <2>3. CharAt(v, k) = CharAt(R, 1)
      BY <1>13, <2>2
    <2> QED  BY <1>16, <2>2, <2>3
  <1>19. NumberText(t, a, s, D, m)
    BY <1>14, <1>15, <1>17, <1>18, Zenon DEF NumberText, Space
  <1>20. atol(t) = IF s = 0 THEN n ELSE -n
    BY <1>10, <1>19, DigitsRead
  <1> QED
    BY <1>3, <1>20

\* A character several times: no digit if it is none.
LEMMA TimesAre ==
    ASSUME NEW n \in Int, NEW c, c \notin DecDigit, NulChar \notin DecDigit, NEW b, b = Times(c, n)
    PROVE  Sequence(b) /\ (\A k \in 1 .. Len(b) : b[k] = c) /\ CharAt(b, 1) \notin DecDigit
  <1>1. Sequence(b)
    BY SequenceTimes
  <1>2. \A k \in 1 .. Len(b) : b[k] = c
    <2>1. CASE n > 0
      <3>1. b = [k \in 1 .. n |-> c]
        BY <2>1 DEF Times
      <3>2. Len(b) = n
        BY <2>1, <3>1
      <3> QED  BY <3>1, <3>2
    <2>2. CASE ~(n > 0)
      <3>1. Len(b) = 0
        BY <2>2, SequenceOne DEF Times
      <3> QED  BY <3>1
    <2> QED  BY <2>1, <2>2
  <1>3. CharAt(b, 1) \in {c, NulChar}
    <2>1. CASE 1 <= Len(b)
      <3>1. Len(b) \in Nat
        BY <1>1, SequenceLen
      <3>2. b[1] = c
        BY <1>2, <2>1, <3>1
      <3> QED  BY <2>1, <3>2 DEF CharAt
    <2>2. CASE ~(1 <= Len(b))
      BY <2>2 DEF CharAt
    <2> QED  BY <2>1, <2>2
  <1> QED
    BY <1>1, <1>2, <1>3

\* Text laid out with blanks.
BlankLaid(x, a, d, c) ==
    x = IF Has(d, "-") THEN a \o Times(c, d.width - Len(a)) ELSE Times(c, d.width - Len(a)) \o a

\* Without the flag 0 a number is laid out so.
LEMMA LaidBlank ==
    ASSUME NEW d, ~Has(d, "0"), NEW pre, NEW bare, NEW a, a = pre \o bare, NEW c, Space(c)
    PROVE  BlankLaid(Laid(pre, bare, d), a, d, c)
  BY Zenon DEF Laid, Space, BlankLaid

\* atol() reads back what %d prints, padded with blanks or not.
LEMMA TextReads ==
    ASSUME NEW d, DirOK(d), d.conv = "d", ~Has(d, "0")
    PROVE  atol(TextOf(d)) = Signed(d.int, WidthOf(d))
  <1>1. PICK v \in Int : v = Signed(d.int, WidthOf(d)) /\ v < Pow2[LongBits] /\ -v < Pow2[LongBits]
    BY ArgumentBounds
  <1>2. PICK n \in Nat : n = IF v < 0 THEN -v ELSE v
    OBVIOUS
  <1>3. PICK N : N = IF v < 0 THEN <<"-">> ELSE <<>>
    OBVIOUS
  <1>4. PICK p, D : p = Powers(10) /\ D = DigitsOf(n, 10)
    OBVIOUS
  <1>5. n < Pow2[LongBits]
    BY <1>1, <1>2
  <1>6. ArePowers(p, 10)
    BY <1>4, PowersAre
  <1>7. PICK m : Digits(D, n, 10, p, m)
    BY <1>4, <1>5, ReversedLow
  <1>8. Sequence(D)
    BY <1>7 DEF Digits
  <1>9. Sequence(N) /\ N \in {<<>>, <<"-">>} /\ (N = <<>> <=> ~(v < 0))
    BY <1>3, SequenceOne
  <1>10. PICK b : b = N \o D
    OBVIOUS
  <1>11. b = IntText(v)
    <2>1. CASE v < 0
      BY <1>2, <1>3, <1>4, <1>10, <2>1 DEF IntText
    <2>2. CASE ~(v < 0)
      <3>1. b = D
        BY <1>3, <1>8, <1>10, <2>2, ConcatNothing
      <3> QED  BY <1>2, <1>4, <2>2, <3>1 DEF IntText
    <2> QED  BY <2>1, <2>2
  <1>12. Sequence(b)
    BY <1>8, <1>9, <1>10, SequenceConcat
  <1>13. PrefixOf(d) = <<>>
    BY DEF PrefixOf, HexPrefix
  <1>14. TextOf(d) = Laid(<<>>, b, d)
    <2>1. TextOf(d) = Laid(PrefixOf(d), Bare(d), d)
      BY TextOfIs
    <2>2. Bare(d) = IntText(v)
      BY <1>1, BareIs
    <2> QED  BY <1>11, <1>13, <2>1, <2>2
  <1>15. <<>> \o b = b
    BY <1>12, ConcatNothing
  <1>16. PICK w \in Int : w = d.width - Len(b)
    <2>1. d.width \in Nat /\ Len(b) \in Nat
      BY <1>12, DirParts, SequenceLen
    <2> QED  BY <2>1
  <1>16a. PICK c : Space(c)
    BY Zenon DEF Space
  <1>17. PICK r : r = Times(c, w)
    OBVIOUS
  <1>17a. c \notin DecDigit /\ NulChar \notin DecDigit
    BY <1>16a, SpaceNoDigit
  <1>18. Sequence(r) /\ (\A k \in 1 .. Len(r) : r[k] = c) /\ CharAt(r, 1) \notin DecDigit
    BY <1>17, <1>17a, TimesAre
  <1>19. PICK e : e = <<>>
    OBVIOUS
  <1>20. Sequence(e) /\ (\A k \in 1 .. Len(e) : e[k] = c) /\ CharAt(e, 1) \notin DecDigit
    <2>1. PICK z \in Int : z = 0
      OBVIOUS
    <2>2. e = Times(c, z)
      BY <1>19, <2>1 DEF Times
    <2> QED  BY <1>17a, <2>2, TimesAre
  <1>20a. TextOf(d) = IF Has(d, "-") THEN b \o r ELSE r \o b
    <2>1. b = e \o b
      BY <1>15, <1>19
    <2>2. BlankLaid(Laid(e, b, d), b, d, c)
      BY <1>16a, <2>1, LaidBlank, Zenon
    <2> QED  BY <1>14, <1>16, <1>17, <1>19, <2>2 DEF BlankLaid
  <1>21. atol(TextOf(d)) = IF N = <<>> THEN n ELSE -n
    <2>1. CASE Has(d, "-")
      <3>1. TextOf(d) = b \o r
        BY <1>20a, <2>1
      <3>2. Sequence(N) /\ Sequence(D) /\ Sequence(r)
        BY <1>8, <1>9, <1>18
      <3>3. (N \o D) \o r = N \o (D \o r)
        BY <3>2, ConcatThree, SMTT(30)
      <3>4. PICK x : x = N \o (D \o r)
        OBVIOUS
      <3>5. Sequence(x)
        <4>1. Sequence(b \o r)
          BY <1>12, <1>18, SequenceConcat
        <4> QED  BY <1>10, <3>3, <3>4, <4>1
      <3>6. e \o x = x
        BY <1>19, <3>5, ConcatNothing
      <3>7. Joined(TextOf(d), e, N, D, r)
        BY <1>10, <3>1, <3>3, <3>4, <3>6 DEF Joined
      <3> QED  BY <1>6, <1>7, <1>9, <1>16a, <1>18, <1>20, <3>7, PiecesRead
    <2>2. CASE ~Has(d, "-")
      <3>1. TextOf(d) = r \o b
        BY <1>20a, <2>2
      <3>2. D \o e = D
        BY <1>8, <1>19, ConcatNothing
      <3>3. Joined(TextOf(d), r, N, D, e)
        BY <1>10, <3>1, <3>2 DEF Joined
      <3> QED  BY <1>6, <1>7, <1>9, <1>16a, <1>18, <1>20, <3>3, PiecesRead
    <2> QED  BY <2>1, <2>2
  <1> QED
    BY <1>1, <1>2, <1>9, <1>21

\* The call follows the plan of its format.
PrintInv ==
    job.fn # "print_binstr" /\ LegalCall(job) =>
        \E n, F, A, T : Plan(job, n, F, A, T) /\ At(n, F, A, T)

\* It starts in front of the first directive.
LEMMA PrintStarts == PrintfInit => PrintInv
  <1> SUFFICES ASSUME PrintfInit, job.fn # "print_binstr", LegalCall(job)
               PROVE  \E n, F, A, T : Plan(job, n, F, A, T) /\ At(n, F, A, T)
    BY Zenon DEF PrintInv
  <1>1. /\ job \in Jobs /\ fmt = FormatOf(job.lead, job.dirs) /\ args = ArgsOf(job.dirs)
        /\ pc = "text" /\ ps.buffer = <<>> /\ ps.remain = job.size - 1 /\ ps.added = 0
    BY DEF PrintfInit
  <1>2. PICK n : n = Len(job.dirs)
    OBVIOUS
  <1>3. Call(job, n)
    BY <1>1, <1>2, CallIs
  <1>4. PICK F : FmtPlan(job, n, F)
    BY <1>3, FmtPlanExists
  <1>5. PICK A : ArgPlan(job, n, A)
    BY <1>3, ArgPlanExists
  <1>6. PICK T : TextPlan(job, n, T)
    BY <1>3, TextPlanExists
  <1>7. Plan(job, n, F, A, T)
    BY <1>3, <1>4, <1>5, <1>6 DEF Plan
  <1>8. fmt = F[0] /\ args = A[0] /\ T[0] = <<>>
    BY <1>1, <1>4, <1>5, <1>6 DEF FmtPlan, ArgPlan, TextPlan
  <1>9. n \in Nat /\ job.size \in Nat \ {0}
    BY <1>3 DEF Call
  <1>10. 0 \in 0 .. n
    BY <1>9
  <1>11. Given(ps, <<>>, job.size)
    <2>1. PICK e : e = <<>>
      OBVIOUS
    <2>2. Sequence(e) /\ Len(e) = 0
      BY <2>1, SequenceOne
    <2>3. Kept(e, job.size) = 0
      BY <1>9, <2>2 DEF Kept
    <2>4. SubSeq(e, 1, 0) = e
      BY <2>2, WholePart
    <2>5. Given(ps, e, job.size)
      BY <1>1, <1>9, <2>1, <2>2, <2>3, <2>4 DEF Given
    <2> QED  BY <2>1, <2>5
  <1>12. At(n, F, A, T)
    <2>1. Given(ps, T[0], job.size)
      BY <1>8, <1>11
    <2>2. Where(job, n, F, A, T, "text", fmt, args, props, nlong, ps, sent)
      BY <1>7, <1>8, <1>10, <2>1, Begins, Zenon
    <2> QED  BY <1>1, <2>2 DEF At
  <1> QED
    BY <1>7, <1>12, Zenon

\* Every step follows it.
LEMMA PrintSteps ==
    PrintInv /\ PrintfInv /\ [PrintfStep \/ PrintfReturned]_printfVars => PrintInv'
  <1> SUFFICES ASSUME PrintInv, PrintfInv, [PrintfStep \/ PrintfReturned]_printfVars
               PROVE  PrintInv'
    OBVIOUS
  <1>1. CASE UNCHANGED printfVars
    BY <1>1 DEF printfVars, PrintInv, At
  <1>2. CASE PrintfReturned
    BY <1>1, <1>2 DEF PrintfReturned
  <1>3. CASE PrintfStep
    <2>1. job' = job
      BY <1>3 DEF PrintfStep, Literal, Percent, FlagHash, FlagZero, FlagNumber, ModLong, ModSize,
                  ReadsOn, ConvInt, ConvUnsigned, ConvPointer, ConvString, ConvChar, ConvOther,
                  Converts, SpecEnds, Finish, Puts
    <2>2. CASE job.fn # "print_binstr" /\ LegalCall(job)
      <3>1. PICK n, F, A, T : Plan(job, n, F, A, T) /\ At(n, F, A, T)
        BY <2>2, Zenon DEF PrintInv
      <3>2. props \in PropsType
        BY DEF PrintfInv
      <3>3. AtNext(n, F, A, T)
        <4>1. CASE Literal \/ Percent \/ Finish
          BY <3>1, <4>1, TextSteps
        <4>2. CASE Puts
          BY <3>1, <4>2, PutsSteps
        <4>3. CASE FlagHash \/ FlagZero \/ FlagNumber \/ ModLong \/ ModSize
          BY <3>1, <4>3, FlagSteps
        <4>4. CASE ConvInt \/ ConvUnsigned \/ ConvPointer \/ ConvString \/ ConvChar \/ ConvOther
          BY <3>1, <3>2, <4>4, ConvSteps
        <4>5. CASE SpecEnds
          BY <3>1, <4>5, SpecEndsStep
        <4> QED  BY <1>3, <4>1, <4>2, <4>3, <4>4, <4>5 DEF PrintfStep
      <3>4. Plan(job', n, F, A, T) /\ At(n, F, A, T)'
        BY <2>1, <3>1, <3>3 DEF At, AtNext
      <3> QED  BY <3>4, Zenon DEF PrintInv
    <2>3. CASE ~(job.fn # "print_binstr" /\ LegalCall(job))
      BY <2>1, <2>3 DEF PrintInv
    <2> QED  BY <2>2, <2>3
  <1> QED
    BY <1>1, <1>2, <1>3

\* What it has printed when it returns.
LEMMA PrintIsExpected == PrintInv /\ PrintfInv => PrintsExpected
  <1> SUFFICES ASSUME PrintInv, PrintfInv, pc = "done", job.fn # "print_binstr", LegalJob
               PROVE  /\ ps.added = Len(Expected)
                      /\ ps.buffer = SubSeq(Expected, 1, IF Len(Expected) < job.size
                                                         THEN Len(Expected) ELSE job.size - 1)
                      /\ job.fn # "snprintf" => sent = ps.buffer
                      /\ Len(job.dirs) = 1 /\ ps.added < job.size =>
                            LET d == job.dirs[1]
                            IN  d.conv = "d" /\ ~Has(d, "0") =>
                                    atol(SubSeq(ps.buffer, Len(job.lead) + 1, Len(ps.buffer)))
                                        = Signed(d.int, WidthOf(d))
    BY Zenon DEF PrintsExpected
  <1>1. LegalCall(job)
    BY DEF LegalJob, LegalCall
  <1>2. PICK n, F, A, T : Plan(job, n, F, A, T) /\ At(n, F, A, T)
    BY <1>1, Zenon DEF PrintInv
  <1>3. Given(ps, T[n], job.size) /\ (job.fn # "snprintf" => sent = ps.buffer)
    <2>1. Where(job, n, F, A, T, "done", fmt, args, props, nlong, ps, sent)
      BY <1>2 DEF At
    <2>2. "done" # "text" /\ "done" # "spec" /\ "done" \notin {"text", "puts"}
      OBVIOUS
    <2> QED  BY <2>1, <2>2, Zenon DEF Where
  <1>4. Call(job, n) /\ TextPlan(job, n, T)
    BY <1>2 DEF Plan
  <1>5. PICK t : t = T[n]
    OBVIOUS
  <1>6. Expected = t
    BY <1>4, <1>5, Zenon DEF TextPlan, Expected
  <1>7. /\ Sequence(t) /\ ps.added = Len(t) /\ ps.buffer = SubSeq(t, 1, Kept(t, job.size))
    BY <1>3, <1>5 DEF Given
  <1>8. ps.buffer = SubSeq(Expected, 1, IF Len(Expected) < job.size
                                        THEN Len(Expected) ELSE job.size - 1)
    BY <1>6, <1>7, Zenon DEF Kept
  <1>9. ASSUME NEW d, d = job.dirs[1], Len(job.dirs) = 1, ps.added < job.size,
               d.conv = "d", ~Has(d, "0")
        PROVE  atol(SubSeq(ps.buffer, Len(job.lead) + 1, Len(ps.buffer))) = Signed(d.int, WidthOf(d))
    <2>1. n = 1 /\ Sequence(job.lead) /\ DirOK(d)
      BY <1>4, <1>9 DEF Call
    <2>2. PICK l, x : l = job.lead /\ x = TextOf(d)
      OBVIOUS
    <2>3. Sequence(l) /\ Sequence(x)
      BY <2>1, <2>2, CleanText DEF Clean
    <2>4. t = l \o x
      <3>1. t = T[0] \o (l \o x) /\ T[0] = <<>>
        <4>1. 1 \in 1 .. n /\ 1 - 1 = 0
          BY <2>1
        <4>2. T[1] = T[1 - 1] \o (job.lead \o TextOf(job.dirs[1])) /\ T[0] = <<>>
          BY <1>4, <4>1 DEF TextPlan
        <4> QED  BY <1>5, <1>9, <2>1, <2>2, <4>1, <4>2
      <3>2. Sequence(l \o x)
        BY <2>3, SequenceConcat
      <3>3. <<>> \o (l \o x) = l \o x
        BY <3>2, ConcatNothing
      <3> QED  BY <3>1, <3>3
    <2>5. ps.buffer = t
      <3>1. Len(t) < job.size
        BY <1>7, <1>9
      <3>2. Kept(t, job.size) = Len(t)
        BY <3>1 DEF Kept
      <3> QED  BY <1>7, <3>2, WholePart
    <2>6. SubSeq(l \o x, Len(l) + 1, Len(l \o x)) = x
      BY <2>3, DropFirst
    <2>7. atol(x) = Signed(d.int, WidthOf(d))
      BY <1>9, <2>1, <2>2, TextReads
    <2> QED  BY <2>2, <2>4, <2>5, <2>6, <2>7
  <1>10. Len(job.dirs) = 1 /\ ps.added < job.size =>
            LET d == job.dirs[1]
            IN  d.conv = "d" /\ ~Has(d, "0") =>
                    atol(SubSeq(ps.buffer, Len(job.lead) + 1, Len(ps.buffer)))
                        = Signed(d.int, WidthOf(d))
    BY <1>9, Zenon
  <1> QED
    BY <1>3, <1>6, <1>7, <1>8, <1>10, Zenon

\* A call prints exactly the text its directives describe, cut to the buffer,
\* and returns its full length; printf() hands this text on, and atol() reads
\* back the number that %d printed.  Widths are any an int can hold.
THEOREM PrintfPrintsExpected == PrintfSpec => []PrintsExpected
  <1> QED
    BY PrintfStarts, PrintfSteps, PrintStarts, PrintSteps, PrintIsExpected, PTL DEF PrintfSpec

=============================================================================
