--------------------------- MODULE SessionProofs ---------------------------
(***************************************************************************)
(* TLAPS proofs about Session, for any number of benchmarks, any set of     *)
(* them whose init() or kernel prints, a line of any size that loses what   *)
(* it has no room for, and a virtual machine that may die at any moment.    *)
(*                                                                         *)
(* Once it is known which benchmarks print, the whole text of a session is  *)
(* known in advance.  The proof writes it down as Text, a function of the   *)
(* position, and shows that the line and the string being sent are adjacent  *)
(* pieces of it, so that what the host does next is a matter of the         *)
(* position it has reached.  Once something is lost, only the beginning of  *)
(* what is in the line is such a piece; the host stays in step up to there. *)
(***************************************************************************)
EXTENDS Session, LeastNumber, FiniteSetTheorems, SequenceTheorems

-----------------------------------------------------------------------------
(* The text of a session. *)

Chars == {"nl", "sp", "text", "*", "[", "]", "{", "}", "BENCHMARKS", "BEGIN", "END",
          "category", "name", "number"}
Atoms == [c : Chars, of : 0 .. NBench]

BootLine  == <<txt, sp, txt, nl>>
TitleLine == <<txt, sp, txt, sp, txt, nl>>

\* What is printed before the benchmarks, and after them.
Prologue ==
    <<txt, sp, txt, nl, Atom("*"), nl, txt, sp, txt, sp, txt, nl,
      Atom("["), Atom("BENCHMARKS"), sp, Atom("BEGIN"), Atom("]"), nl>>
Epilogue ==
    <<Atom("["), Atom("BENCHMARKS"), sp, Atom("END"), Atom("]"), nl,
      Atom("["), Atom("BENCHMARKS"), sp, Atom("END"), Atom("]"), nl>>

\* Atoms that init() and the kernel of benchmark k add.
InitLen(pr, k) == IF k \in pr.init THEN 4 ELSE 0
KernelLen(pr, k) == IF k \in pr.kernel THEN 1 ELSE 0

\* The o-th atom printed for benchmark k.
BenchAt(pr, k, o) ==
    IF o <= 4 THEN <<Mark("category", k), sp, Mark("name", k), sp>>[o]
    ELSE IF o <= 4 + InitLen(pr, k) THEN BootLine[o - 4]
    ELSE IF o <= 9 + InitLen(pr, k)
    THEN <<Mark("number", k), sp, Mark("{", k), Mark("}", k), Mark("[", k)>>[o - 4 - InitLen(pr, k)]
    ELSE IF o <= 9 + InitLen(pr, k) + KernelLen(pr, k) THEN txt
    ELSE <<Mark("]", k), nl>>[o - 9 - InitLen(pr, k) - KernelLen(pr, k)]

\* How many atoms are printed before benchmark k.
UpTo(S, k) == {j \in 1 .. k : j \in S}
Count(S, k) == Cardinality(UpTo(S, k))
Start(pr, k) ==
    IF k = 0 THEN 0
    ELSE 18 + 11 * (k - 1) + 4 * Count(pr.init, k - 1) + Count(pr.kernel, k - 1)

Last(pr) == Start(pr, NBench + 1)
Total(pr) == Last(pr) + 12

\* The n-th atom of the session.
Around(pr, n, k) == Start(pr, k) < n /\ n <= Start(pr, k + 1)
Text(pr, n) ==
    IF n > Last(pr) THEN Epilogue[n - Last(pr)]
    ELSE LET k == CHOOSE k \in 0 .. NBench : Around(pr, n, k)
         IN IF k = 0 THEN Prologue[n] ELSE BenchAt(pr, k, n - Start(pr, k))

\* The number of benchmarks of a set among the first k.
LEMMA CountFacts ==
    ASSUME NEW S
    PROVE  /\ Count(S, 0) = 0
           /\ \A k \in Nat : Count(S, k) \in Nat
           /\ \A k \in Nat : Count(S, k + 1) = Count(S, k) + (IF k + 1 \in S THEN 1 ELSE 0)
  <1>1. ASSUME NEW k \in Nat
        PROVE  IsFiniteSet(UpTo(S, k)) /\ Count(S, k) \in Nat
    <2>1. IsFiniteSet(1 .. k)
      BY FS_Interval
    <2>2. UpTo(S, k) \subseteq 1 .. k
      BY DEF UpTo
    <2> QED  BY <2>1, <2>2, FS_Subset, FS_CardinalityType DEF Count
  <1>2. UpTo(S, 0) = {}
    <2>1. 1 .. 0 = {}
      OBVIOUS
    <2> QED  BY <2>1 DEF UpTo
  <1>3. Count(S, 0) = 0
    BY <1>2, FS_EmptySet DEF Count
  <1>4. ASSUME NEW k \in Nat
        PROVE  Count(S, k + 1) = Count(S, k) + (IF k + 1 \in S THEN 1 ELSE 0)
    <2>1. 1 .. k + 1 = (1 .. k) \cup {k + 1} /\ k + 1 \notin 1 .. k
      OBVIOUS
    <2>2. CASE k + 1 \in S
      <3>1. UpTo(S, k + 1) = UpTo(S, k) \cup {k + 1}
        BY <2>1, <2>2, Zenon DEF UpTo
      <3>2. k + 1 \notin UpTo(S, k)
        BY <2>1 DEF UpTo
      <3> QED  BY <2>2, <3>1, <3>2, <1>1, FS_AddElement DEF Count
    <2>3. CASE k + 1 \notin S
      <3>1. UpTo(S, k + 1) = UpTo(S, k)
        BY <2>1, <2>3, Zenon DEF UpTo
      <3>2. Count(S, k + 1) = Count(S, k) /\ Count(S, k) \in Nat
        BY <3>1, <1>1 DEF Count
      <3> QED  BY <2>3, <3>2
    <2> QED  BY <2>2, <2>3
  <1> QED
    BY <1>1, <1>3, <1>4

\* Each benchmark begins behind the one before.
LEMMA StartFacts ==
    ASSUME NEW pr
    PROVE  /\ Start(pr, 0) = 0 /\ Start(pr, 1) = 18
           /\ \A k \in Nat : Start(pr, k) \in Nat
           /\ \A k \in Nat \ {0} : Start(pr, k + 1) = Start(pr, k) + 11 + InitLen(pr, k) + KernelLen(pr, k)
           /\ \A j, k \in Nat : j <= k => Start(pr, j) <= Start(pr, k)
  <1> DEFINE a(k) == Count(pr.init, k)
             z(k) == Count(pr.kernel, k)
  <1>1. /\ a(0) = 0 /\ z(0) = 0
        /\ \A k \in Nat : a(k) \in Nat /\ z(k) \in Nat
    BY CountFacts
  <1>2. \A k \in Nat : /\ a(k + 1) = a(k) + (IF k + 1 \in pr.init THEN 1 ELSE 0)
                       /\ z(k + 1) = z(k) + (IF k + 1 \in pr.kernel THEN 1 ELSE 0)
    BY CountFacts
  <1>3. \A k : Start(pr, k) = IF k = 0 THEN 0 ELSE 18 + 11 * (k - 1) + 4 * a(k - 1) + z(k - 1)
    BY DEF Start
  <1> HIDE DEF a, z
  <1>4. Start(pr, 0) = 0 /\ Start(pr, 1) = 18
    BY <1>1, <1>3
  <1>5. ASSUME NEW k \in Nat
        PROVE  Start(pr, k) \in Nat
    <2>1. CASE k = 0
      BY <2>1, <1>4
    <2>2. CASE k # 0
      <3>1. k - 1 \in Nat
        BY <2>2
      <3> QED  BY <2>2, <3>1, <1>1, <1>3
    <2> QED  BY <2>1, <2>2
  <1>6. ASSUME NEW k \in Nat \ {0}
        PROVE  Start(pr, k + 1) = Start(pr, k) + 11 + InitLen(pr, k) + KernelLen(pr, k)
    <2>1. k - 1 \in Nat /\ k - 1 + 1 = k /\ k + 1 - 1 = k /\ k + 1 # 0
      OBVIOUS
    <2>2. Start(pr, k + 1) = 18 + 11 * k + 4 * a(k) + z(k)
      BY <1>3, <2>1
    <2>3. Start(pr, k) = 18 + 11 * (k - 1) + 4 * a(k - 1) + z(k - 1)
      BY <1>3
    <2>4. a(k) = a(k - 1) + (IF k \in pr.init THEN 1 ELSE 0)
      BY <1>2, <2>1
    <2>5. z(k) = z(k - 1) + (IF k \in pr.kernel THEN 1 ELSE 0)
      BY <1>2, <2>1
    <2>6. a(k - 1) \in Nat /\ z(k - 1) \in Nat
      BY <1>1, <2>1
    <2>7. 4 * a(k) = 4 * a(k - 1) + InitLen(pr, k)
      BY <2>4, <2>6 DEF InitLen
    <2>8. z(k) = z(k - 1) + KernelLen(pr, k)
      BY <2>5, <2>6 DEF KernelLen
    <2>9. a(k) \in Nat /\ z(k) \in Nat /\ InitLen(pr, k) \in Nat /\ KernelLen(pr, k) \in Nat
      BY <1>1 DEF InitLen, KernelLen
    <2> QED  BY <2>2, <2>3, <2>6, <2>7, <2>8, <2>9
  <1>7. ASSUME NEW k \in Nat
        PROVE  Start(pr, k) <= Start(pr, k + 1)
    <2>1. CASE k = 0
      BY <2>1, <1>4
    <2>2. CASE k # 0
      <3>1. InitLen(pr, k) \in Nat /\ KernelLen(pr, k) \in Nat
        BY DEF InitLen, KernelLen
      <3> QED  BY <2>2, <3>1, <1>5, <1>6
    <2> QED  BY <2>1, <2>2
  <1>8. ASSUME NEW j \in Nat
        PROVE  \A k \in Nat : j <= k => Start(pr, j) <= Start(pr, k)
    <2> DEFINE P == {k \in Nat : Start(pr, j) <= Start(pr, j + k)}
    <2>1. 0 \in P
      BY <1>5
    <2>2. ASSUME NEW k \in Nat, k \in P
          PROVE  k + 1 \in P
      <3>1. j + k \in Nat /\ j + (k + 1) = j + k + 1 /\ j + k + 1 \in Nat
        OBVIOUS
      <3>2. Start(pr, j) <= Start(pr, j + k) /\ Start(pr, j + k) <= Start(pr, j + k + 1)
        BY <2>2, <3>1, <1>7
      <3>3. Start(pr, j) \in Nat /\ Start(pr, j + k) \in Nat /\ Start(pr, j + k + 1) \in Nat
        BY <3>1, <1>5
      <3>4. Start(pr, j) <= Start(pr, j + (k + 1))
        BY <3>1, <3>2, <3>3
      <3> QED  BY <3>4
    <2> HIDE DEF P
    <2>3. Nat \subseteq P
      BY <2>1, <2>2, SetInduction
    <2>4. ASSUME NEW k \in Nat, j <= k
          PROVE  Start(pr, j) <= Start(pr, k)
      <3>1. k - j \in P /\ j + (k - j) = k
        BY <2>3, <2>4
      <3> QED  BY <3>1 DEF P
    <2> QED  BY <2>4
  <1> QED
    BY <1>4, <1>5, <1>6, <1>8

\* Single facts of these.
LEMMA StartNat ==
    ASSUME NEW pr, NEW k \in Nat
    PROVE  Start(pr, k) \in Nat
  <1>1. \A j \in Nat : Start(pr, j) \in Nat
    BY StartFacts, Zenon
  <1> QED  BY <1>1

\* A benchmark takes eleven atoms, and what its init() and kernel print.
LEMMA StartNext ==
    ASSUME NEW pr, NEW k \in Nat \ {0}
    PROVE  Start(pr, k + 1) = Start(pr, k) + 11 + InitLen(pr, k) + KernelLen(pr, k)
  <1>1. \A j \in Nat \ {0} : Start(pr, j + 1) = Start(pr, j) + 11 + InitLen(pr, j) + KernelLen(pr, j)
    BY StartFacts, Zenon
  <1> QED  BY <1>1

\* Benchmarks follow one another in the text.
LEMMA StartMonotone ==
    ASSUME NEW pr, NEW j \in Nat, NEW k \in Nat, j <= k
    PROVE  Start(pr, j) <= Start(pr, k)
  <1>1. \A i, n \in Nat : i <= n => Start(pr, i) <= Start(pr, n)
    BY StartFacts, Zenon
  <1> QED  BY <1>1

\* The first benchmark comes behind the prologue.
LEMMA StartFirst ==
    ASSUME NEW pr
    PROVE  Start(pr, 0) = 0 /\ Start(pr, 1) = 18
  BY StartFacts, Zenon

\* The benchmarks end where the last lines begin.
LEMMA LastFacts ==
    ASSUME NEW pr
    PROVE  /\ Last(pr) \in Nat /\ 18 <= Last(pr)
           /\ \A k \in 1 .. NBench : Start(pr, k + 1) \in Nat /\ Start(pr, k + 1) <= Last(pr)
  <1>0. NBench \in Nat \ {0}
    BY SessionAssumption
  <1>1. Last(pr) \in Nat
    BY <1>0, StartNat DEF Last
  <1>2. Start(pr, 1) <= Start(pr, NBench + 1)
    BY <1>0, StartMonotone
  <1>3. ASSUME NEW k \in 1 .. NBench
        PROVE  Start(pr, k + 1) \in Nat /\ Start(pr, k + 1) <= Last(pr)
    <2>1. k + 1 \in Nat /\ NBench + 1 \in Nat /\ k + 1 <= NBench + 1
      BY <1>0
    <2> QED  BY <2>1, StartNat, StartMonotone DEF Last
  <1> QED
    BY <1>1, <1>2, <1>3, StartFirst DEF Last

\* The text before, ...
LEMMA TextPrologue ==
    ASSUME NEW pr, NEW o \in 1 .. 18
    PROVE  Text(pr, o) = Prologue[o]
  <1>0. NBench \in Nat \ {0}
    BY SessionAssumption
  <1>1. ~(o > Last(pr))
    BY LastFacts
  <1>2. Around(pr, o, 0)
    <2>1. Start(pr, 0) = 0 /\ Start(pr, 0 + 1) = 18
      BY StartFirst
    <2> QED  BY <2>1 DEF Around
  <1>3. ASSUME NEW k \in 0 .. NBench, Around(pr, o, k)
        PROVE  k = 0
    <2>1. SUFFICES ASSUME k # 0 PROVE FALSE
      OBVIOUS
    <2>2. k \in Nat /\ 1 <= k
      BY <1>0, <2>1
    <2>3. Start(pr, 1) <= Start(pr, k) /\ Start(pr, k) \in Nat
      BY <2>2, StartMonotone, StartNat
    <2> QED  BY <2>3, <1>3, StartFirst DEF Around
  <1>4. (CHOOSE k \in 0 .. NBench : Around(pr, o, k)) = 0
    <2>1. 0 \in 0 .. NBench
      BY <1>0
    <2> QED  BY <1>2, <1>3, <2>1, Zenon
  <1> QED
    BY <1>1, <1>4 DEF Text

\* ... of ...
LEMMA TextBench ==
    ASSUME NEW pr, NEW k \in 1 .. NBench, NEW o \in 1 .. 11 + InitLen(pr, k) + KernelLen(pr, k)
    PROVE  Text(pr, Start(pr, k) + o) = BenchAt(pr, k, o)
  <1> DEFINE n == Start(pr, k) + o
  <1>0. NBench \in Nat \ {0} /\ k \in Nat \ {0} /\ k + 1 \in Nat
    BY SessionAssumption
  <1>1. InitLen(pr, k) \in Nat /\ KernelLen(pr, k) \in Nat
    BY DEF InitLen, KernelLen
  <1>2. /\ Start(pr, k) \in Nat
        /\ Start(pr, k + 1) = Start(pr, k) + 11 + InitLen(pr, k) + KernelLen(pr, k)
    BY <1>0, StartNat, StartNext
  <1>3. /\ Start(pr, k + 1) \in Nat /\ Last(pr) \in Nat /\ Start(pr, k + 1) <= Last(pr)
    BY LastFacts
  <1>4. n \in Nat /\ Start(pr, k) < n /\ n <= Start(pr, k + 1) /\ ~(n > Last(pr))
        /\ n - Start(pr, k) = o
    BY <1>1, <1>2, <1>3
  <1> HIDE DEF n
  <1>5. Around(pr, n, k)
    BY <1>4 DEF Around
  <1>6. ASSUME NEW j \in 0 .. NBench, Around(pr, n, j)
        PROVE  j = k
    <2>0. j \in Nat /\ j + 1 \in Nat
      BY <1>0
    <2>1. Start(pr, j) \in Nat /\ Start(pr, j + 1) \in Nat
      BY <2>0, StartNat
    <2>2. ASSUME j < k PROVE FALSE
      <3>1. j + 1 <= k
        BY <2>0, <2>2, <1>0
      <3>2. Start(pr, j + 1) <= Start(pr, k)
        BY <2>0, <3>1, <1>0, StartMonotone
      <3> QED  BY <3>2, <2>1, <1>2, <1>4, <1>6 DEF Around
    <2>3. ASSUME k < j PROVE FALSE
      <3>1. k + 1 <= j
        BY <2>0, <2>3, <1>0
      <3>2. Start(pr, k + 1) <= Start(pr, j)
        BY <2>0, <3>1, <1>0, StartMonotone
      <3> QED  BY <3>2, <2>1, <1>3, <1>4, <1>6 DEF Around
    <2> QED  BY <2>0, <2>2, <2>3, <1>0
  <1>7. (CHOOSE j \in 0 .. NBench : Around(pr, n, j)) = k
    <2>1. k \in 0 .. NBench
      BY <1>0
    <2> QED  BY <1>5, <1>6, <2>1, Zenon
  <1>8. Text(pr, n) = BenchAt(pr, k, n - Start(pr, k))
    BY <1>0, <1>4, <1>7 DEF Text
  <1> QED
    BY <1>4, <1>8 DEF n

\* ... and after the benchmarks.
LEMMA TextEpilogue ==
    ASSUME NEW pr, NEW o \in 1 .. 12
    PROVE  Text(pr, Last(pr) + o) = Epilogue[o]
  <1> DEFINE n == Last(pr) + o
  <1>1. Last(pr) \in Nat
    BY LastFacts
  <1>2. n > Last(pr) /\ n - Last(pr) = o
    BY <1>1
  <1> HIDE DEF n
  <1>3. Text(pr, n) = Epilogue[n - Last(pr)]
    BY <1>2 DEF Text
  <1> QED
    BY <1>2, <1>3 DEF n

\* What is printed for benchmark k, atom by atom.
LEMMA BenchText ==
    ASSUME NEW pr, NEW k \in 1 .. NBench
    PROVE  LET s == Start(pr, k)
               i == InitLen(pr, k)
               e == KernelLen(pr, k)
           IN /\ Text(pr, s + 1) = Mark("category", k) /\ Text(pr, s + 2) = sp
              /\ Text(pr, s + 3) = Mark("name", k) /\ Text(pr, s + 4) = sp
              /\ i = 4 => /\ Text(pr, s + 5) = txt /\ Text(pr, s + 6) = sp
                          /\ Text(pr, s + 7) = txt /\ Text(pr, s + 8) = nl
              /\ Text(pr, s + i + 5) = Mark("number", k) /\ Text(pr, s + i + 6) = sp
              /\ Text(pr, s + i + 7) = Mark("{", k) /\ Text(pr, s + i + 8) = Mark("}", k)
              /\ Text(pr, s + i + 9) = Mark("[", k)
              /\ e = 1 => Text(pr, s + i + 10) = txt
              /\ Text(pr, s + i + e + 10) = Mark("]", k) /\ Text(pr, s + i + e + 11) = nl
  <1> DEFINE s == Start(pr, k)
             i == InitLen(pr, k)
             e == KernelLen(pr, k)
  <1>0. i \in {0, 4} /\ e \in {0, 1}
    BY DEF InitLen, KernelLen
  <1>1. s \in Nat
    BY SessionAssumption, StartNat
  <1>2. \A o \in 1 .. 11 + i + e : Text(pr, s + o) = BenchAt(pr, k, o)
    BY TextBench
  <1>3. /\ BenchAt(pr, k, 1) = Mark("category", k) /\ BenchAt(pr, k, 2) = sp
        /\ BenchAt(pr, k, 3) = Mark("name", k) /\ BenchAt(pr, k, 4) = sp
    BY DEF BenchAt
  <1>4. i = 4 => /\ BenchAt(pr, k, 5) = txt /\ BenchAt(pr, k, 6) = sp
                 /\ BenchAt(pr, k, 7) = txt /\ BenchAt(pr, k, 8) = nl
    BY DEF BenchAt, BootLine
  <1>5. /\ BenchAt(pr, k, i + 5) = Mark("number", k) /\ BenchAt(pr, k, i + 6) = sp
        /\ BenchAt(pr, k, i + 7) = Mark("{", k) /\ BenchAt(pr, k, i + 8) = Mark("}", k)
        /\ BenchAt(pr, k, i + 9) = Mark("[", k)
    <2> HIDE DEF i, e
    <2>1. CASE i = 0
      BY <2>1 DEF BenchAt, i, e
    <2>2. CASE i = 4
      BY <2>2 DEF BenchAt, i, e
    <2> QED  BY <1>0, <2>1, <2>2
  <1>6. e = 1 => BenchAt(pr, k, i + 10) = txt
    <2> HIDE DEF i, e
    <2>1. CASE i = 0
      BY <2>1 DEF BenchAt, i, e
    <2>2. CASE i = 4
      BY <2>2 DEF BenchAt, i, e
    <2> QED  BY <1>0, <2>1, <2>2
  <1>7. BenchAt(pr, k, i + e + 10) = Mark("]", k) /\ BenchAt(pr, k, i + e + 11) = nl
    <2> HIDE DEF i, e
    <2>1. CASE i = 0 /\ e = 0
      BY <2>1 DEF BenchAt, i, e
    <2>2. CASE i = 4 /\ e = 0
      BY <2>2 DEF BenchAt, i, e
    <2>3. CASE i = 0 /\ e = 1
      BY <2>3 DEF BenchAt, i, e
    <2>4. CASE i = 4 /\ e = 1
      BY <2>4 DEF BenchAt, i, e
    <2> QED  BY <1>0, <2>1, <2>2, <2>3, <2>4
  <1> HIDE DEF s, i, e
  <1>8. /\ Text(pr, s + 1) = Mark("category", k) /\ Text(pr, s + 2) = sp
        /\ Text(pr, s + 3) = Mark("name", k) /\ Text(pr, s + 4) = sp
    BY <1>0, <1>2, <1>3
  <1>9. i = 4 => /\ Text(pr, s + 5) = txt /\ Text(pr, s + 6) = sp
                 /\ Text(pr, s + 7) = txt /\ Text(pr, s + 8) = nl
    BY <1>0, <1>2, <1>4
  <1>10. \A o \in 5 .. 9 : i + o \in 1 .. 11 + i + e /\ s + i + o = s + (i + o)
    BY <1>0, <1>1
  <1>11. /\ Text(pr, s + i + 5) = Mark("number", k) /\ Text(pr, s + i + 6) = sp
         /\ Text(pr, s + i + 7) = Mark("{", k) /\ Text(pr, s + i + 8) = Mark("}", k)
         /\ Text(pr, s + i + 9) = Mark("[", k)
    <2>1. ASSUME NEW o \in 5 .. 9
          PROVE  Text(pr, s + i + o) = BenchAt(pr, k, i + o)
      BY <1>2, <1>10
    <2>2. \A o \in {5, 6, 7, 8, 9} : Text(pr, s + i + o) = BenchAt(pr, k, i + o)
      BY <2>1
    <2> QED  BY <1>5, <2>2, Zenon
  <1>12. e = 1 => Text(pr, s + i + 10) = txt
    <2>1. e = 1 => i + 10 \in 1 .. 11 + i + e /\ s + i + 10 = s + (i + 10)
      BY <1>0, <1>1
    <2> QED  BY <1>2, <1>6, <2>1
  <1>13. Text(pr, s + i + e + 10) = Mark("]", k) /\ Text(pr, s + i + e + 11) = nl
    <2>1. \A o \in 10 .. 11 : i + e + o \in 1 .. 11 + i + e /\ s + i + e + o = s + (i + e + o)
      BY <1>0, <1>1
    <2> QED  BY <1>2, <1>7, <2>1
  <1> QED
    BY <1>8, <1>9, <1>11, <1>12, <1>13 DEF s, i, e

-----------------------------------------------------------------------------
(* Pieces of the text. *)

\* s is the text from behind position h up to position m.
Piece(pr, s, h, m) ==
    /\ s \in Seq(Atoms) /\ h \in Nat /\ m \in Nat /\ m = h + Len(s)
    /\ \A i \in 1 .. Len(s) : s[i] = Text(pr, h + i)

\* An empty piece ends where it begins.
LEMMA PieceEmpty ==
    ASSUME NEW pr, NEW h, NEW m, Piece(pr, <<>>, h, m)
    PROVE  h = m
  BY DEF Piece

\* Nothing is the piece of the text between a position and itself.
LEMMA EmptyPiece ==
    ASSUME NEW pr, NEW h \in Nat
    PROVE  Piece(pr, <<>>, h, h)
  BY DEF Piece

\* Taking the first atom.
LEMMA PieceTail ==
    ASSUME NEW pr, NEW s, NEW h, NEW m, Piece(pr, s, h, m), s # <<>>
    PROVE  /\ Head(s) = Text(pr, h + 1) /\ Head(s) \in Atoms
           /\ Piece(pr, Tail(s), h + 1, m)
  <1>1. /\ s \in Seq(Atoms) /\ h \in Nat /\ m \in Nat /\ m = h + Len(s)
        /\ \A i \in 1 .. Len(s) : s[i] = Text(pr, h + i)
    BY DEF Piece
  <1>2. Len(s) \in Nat /\ Len(s) > 0
    BY <1>1
  <1>3. Head(s) = s[1] /\ Head(s) \in Atoms
    BY <1>1, <1>2
  <1>4. Tail(s) \in Seq(Atoms) /\ Len(Tail(s)) = Len(s) - 1
        /\ \A i \in 1 .. Len(s) - 1 : Tail(s)[i] = s[i + 1]
    BY <1>1, <1>2
  <1>5. ASSUME NEW i \in 1 .. Len(Tail(s))
        PROVE  Tail(s)[i] = Text(pr, h + 1 + i)
    <2>1. i \in 1 .. Len(s) - 1 /\ i + 1 \in 1 .. Len(s) /\ h + (i + 1) = h + 1 + i
      BY <1>1, <1>2, <1>4
    <2> QED  BY <2>1, <1>1, <1>4
  <1>6. m = h + 1 + Len(Tail(s))
    BY <1>1, <1>2, <1>4
  <1>7. Piece(pr, Tail(s), h + 1, m)
    BY <1>1, <1>4, <1>5, <1>6 DEF Piece
  <1>8. s[1] = Text(pr, h + 1)
    BY <1>1, <1>2
  <1> QED
    BY <1>3, <1>7, <1>8

\* Adding the next one.
LEMMA PieceAppend ==
    ASSUME NEW pr, NEW s, NEW h, NEW m, Piece(pr, s, h, m), NEW x \in Atoms, x = Text(pr, m + 1)
    PROVE  Piece(pr, Append(s, x), h, m + 1)
  <1>1. /\ s \in Seq(Atoms) /\ h \in Nat /\ m \in Nat /\ m = h + Len(s)
        /\ \A i \in 1 .. Len(s) : s[i] = Text(pr, h + i)
    BY DEF Piece
  <1> DEFINE t == Append(s, x)
  <1>2. t \in Seq(Atoms) /\ Len(t) = Len(s) + 1 /\ t[Len(s) + 1] = x
        /\ \A i \in 1 .. Len(s) : t[i] = s[i]
    BY <1>1
  <1> HIDE DEF t
  <1>3. ASSUME NEW i \in 1 .. Len(t)
        PROVE  t[i] = Text(pr, h + i)
    <2>0. Len(s) \in Nat
      BY <1>1
    <2>1. CASE i \in 1 .. Len(s)
      BY <2>1, <1>1, <1>2
    <2>2. CASE i = Len(s) + 1
      <3>1. h + i = m + 1
        BY <2>0, <2>2, <1>1
      <3> QED  BY <2>2, <3>1, <1>2
    <2> QED  BY <2>0, <2>1, <2>2, <1>2
  <1>4. m + 1 \in Nat /\ m + 1 = h + Len(t)
    BY <1>1, <1>2
  <1> QED
    BY <1>1, <1>2, <1>3, <1>4 DEF Piece, t

-----------------------------------------------------------------------------
(* Reading lines. *)

\* The text has this line behind position a.
LineAt(pr, line, a) == a \in Nat /\ \A i \in 1 .. Len(line) : Text(pr, a + i) = line[i]

\* A line ends with its only end of line.
OneLine(line) ==
    /\ line \in Seq(Atoms) /\ Len(line) # 0
    /\ \A i \in 1 .. Len(line) : line[i] = nl <=> i = Len(line)

\* The host has read bu, the beginning of the line that starts at a.
Reading(h, bu, line, a) ==
    \E n \in 0 .. Len(line) - 1 : h = a + n /\ bu = SubSeq(line, 1, n)

\* The first atoms of a sequence, and one more.
LEMMA Prefix ==
    ASSUME NEW S, NEW s \in Seq(S), NEW n \in 0 .. Len(s) - 1
    PROVE  /\ Append(SubSeq(s, 1, n), s[n + 1]) = SubSeq(s, 1, n + 1)
           /\ SubSeq(s, 1, n + 1)[1] = s[1]
           /\ Len(SubSeq(s, 1, n + 1)) = n + 1
           /\ SubSeq(s, 1, Len(s)) = s
  OBVIOUS

\* Reading starts at the beginning of a line.
LEMMA ReadingStarts ==
    ASSUME NEW line, OneLine(line), NEW a \in Nat
    PROVE  Reading(a, <<>>, line, a)
  <1>1. 0 \in 0 .. Len(line) - 1 /\ a + 0 = a
    BY DEF OneLine
  <1>2. SubSeq(line, 1, 0) = <<>>
    BY DEF OneLine
  <1> QED
    BY <1>1, <1>2 DEF Reading

\* One more atom x: it completes the line or not; and no line that begins
\* differently.
ReadOn(h, bu, line, a, x) ==
    /\ x = nl => h + 1 = a + Len(line) /\ Append(bu, x) = line
    /\ x # nl => Reading(h + 1, Append(bu, x), line, a) /\ Append(bu, x) # line
    /\ \A str : str[1] # line[1] => Append(bu, x) # str

\* Whatever the line.
LEMMA ReadingOn ==
    ASSUME NEW pr, NEW h, NEW bu, NEW line, NEW a, Reading(h, bu, line, a),
           LineAt(pr, line, a), OneLine(line), NEW x, x = Text(pr, h + 1)
    PROVE  ReadOn(h, bu, line, a, x)
  <1>1. PICK n \in 0 .. Len(line) - 1 : h = a + n /\ bu = SubSeq(line, 1, n)
    BY DEF Reading
  <1>2. line \in Seq(Atoms) /\ Len(line) \in Nat /\ n + 1 \in 1 .. Len(line) /\ a \in Nat
    BY DEF OneLine, LineAt
  <1>3. h + 1 = a + (n + 1)
    BY <1>1, <1>2
  <1>4. x = line[n + 1]
    BY <1>2, <1>3 DEF LineAt
  <1>5. /\ Append(bu, x) = SubSeq(line, 1, n + 1)
        /\ SubSeq(line, 1, n + 1)[1] = line[1]
        /\ Len(SubSeq(line, 1, n + 1)) = n + 1
        /\ SubSeq(line, 1, Len(line)) = line
    BY <1>1, <1>2, <1>4, Prefix
  <1>6. x = nl <=> n + 1 = Len(line)
    BY <1>2, <1>4 DEF OneLine
  <1>7. ASSUME x # nl
        PROVE  Reading(h + 1, Append(bu, x), line, a) /\ Append(bu, x) # line
    <2>1. n + 1 \in 0 .. Len(line) - 1
      BY <1>2, <1>6, <1>7
    <2>2. Append(bu, x) # line
      BY <1>5, <1>6, <1>7
    <2> QED  BY <2>1, <2>2, <1>3, <1>5 DEF Reading
  <1>8. \A str : str[1] # line[1] => Append(bu, x) # str
    BY <1>5
  <1>9. x = nl => h + 1 = a + Len(line) /\ Append(bu, x) = line
    BY <1>3, <1>5, <1>6
  <1> QED
    BY <1>7, <1>8, <1>9 DEF ReadOn

\* The atoms the lines are made of.
LEMMA AtomFacts ==
    /\ txt \in Atoms /\ sp \in Atoms /\ nl \in Atoms
    /\ \A c \in Chars : Atom(c) \in Atoms /\ \A k \in 1 .. NBench : Mark(c, k) \in Atoms
    /\ \A c : (Atom(c) = nl <=> c = "nl") /\ Atom(c).c = c /\ \A k : Mark(c, k).c = c
    /\ \A c, k : Mark(c, k).of = k
    /\ txt = Atom("text") /\ sp = Atom("sp") /\ nl = Atom("nl")
  BY SessionAssumption DEF Atoms, Chars, Atom, Mark, txt, sp, nl

\* The lines are lines.
LEMMA Lines ==
    OneLine(BootLine) /\ OneLine(StarLine) /\ OneLine(TitleLine)
    /\ OneLine(BeginLine) /\ OneLine(EndLine)
  <1>1. txt # nl /\ sp # nl /\ Atom("*") # nl /\ Atom("[") # nl /\ Atom("BENCHMARKS") # nl
        /\ Atom("BEGIN") # nl /\ Atom("END") # nl /\ Atom("]") # nl
    BY DEF Atom, txt, sp, nl
  <1>2. {txt, sp, nl, Atom("*"), Atom("["), Atom("BENCHMARKS"), Atom("BEGIN"), Atom("END"),
         Atom("]")} \subseteq Atoms
    BY AtomFacts DEF Chars
  <1>3. OneLine(BootLine)
    BY <1>1, <1>2 DEF OneLine, BootLine
  <1>4. OneLine(StarLine)
    BY <1>1, <1>2 DEF OneLine, StarLine
  <1>5. OneLine(TitleLine)
    BY <1>1, <1>2 DEF OneLine, TitleLine
  <1>6. OneLine(BeginLine)
    BY <1>1, <1>2 DEF OneLine, BeginLine
  <1>7. OneLine(EndLine)
    BY <1>1, <1>2 DEF OneLine, EndLine
  <1> QED
    BY <1>3, <1>4, <1>5, <1>6, <1>7

\* Where they stand in the text.
LEMMA LinesAt ==
    ASSUME NEW pr
    PROVE  /\ LineAt(pr, BootLine, 0) /\ LineAt(pr, StarLine, 4) /\ LineAt(pr, TitleLine, 6)
           /\ LineAt(pr, BeginLine, 12)
           /\ LineAt(pr, EndLine, Last(pr)) /\ LineAt(pr, EndLine, Last(pr) + 6)
  <1>1. \A o \in 1 .. 18 : Text(pr, o) = Prologue[o]
    BY TextPrologue
  <1>2. \A o \in 1 .. 12 : Text(pr, Last(pr) + o) = Epilogue[o]
    BY TextEpilogue
  <1>3. Last(pr) \in Nat
    BY LastFacts
  <1>4. LineAt(pr, BootLine, 0)
    BY <1>1 DEF LineAt, BootLine, Prologue
  <1>5. LineAt(pr, StarLine, 4)
    BY <1>1 DEF LineAt, StarLine, Prologue
  <1>6. LineAt(pr, TitleLine, 6)
    BY <1>1 DEF LineAt, TitleLine, Prologue
  <1>7. LineAt(pr, BeginLine, 12)
    BY <1>1 DEF LineAt, BeginLine, Prologue
  <1>8. LineAt(pr, EndLine, Last(pr))
    BY <1>2, <1>3 DEF LineAt, EndLine, Epilogue
  <1>9. LineAt(pr, EndLine, Last(pr) + 6)
    BY <1>2, <1>3 DEF LineAt, EndLine, Epilogue
  <1> QED
    BY <1>4, <1>5, <1>6, <1>7, <1>8, <1>9

-----------------------------------------------------------------------------
(* What the host has done when it has read the text up to position h. *)

Arg1(k) == <<<<Mark("category", k)>>>>
Arg2(k) == <<<<Mark("category", k)>>, <<Mark("name", k)>>>>
Arg3(k) == <<<<Mark("category", k)>>, <<Mark("name", k)>>, <<Mark("number", k)>>>>
Words == Seq(Seq(Atoms))
StampFns == [Stamps -> 0 .. NBench]
Row == [args : Words, stamp : StampFns]

\* The first n rows are printed, and right.
Right(ro, n) == ro \in Seq(Row) /\ Len(ro) = n /\ \A j \in 1 .. n : ro[j] = RowOf(j)

\* Waiting for the first lines.
Opening(h, hp, bu, ar, ro) ==
    /\ ar = <<>> /\ Right(ro, 0)
    /\ \/ hp = "star" /\ (Reading(h, bu, BootLine, 0) \/ Reading(h, bu, StarLine, 4))
       \/ hp = "pin" /\ h = 6 /\ bu = <<>>
       \/ hp = "begin" /\ (Reading(h, bu, TitleLine, 6) \/ Reading(h, bu, BeginLine, 12))

\* Reading the name of benchmark k, ...
Naming(s, k, h, hp, ar) ==
    \/ hp = "scan" /\ ar = <<>> /\ h = s
    \/ hp = "word" /\ ar = Arg1(k) /\ h = s + 1
    \/ hp = "scan" /\ ar = Arg1(k) /\ h \in {s + 1, s + 2}
    \/ hp = "word" /\ ar = Arg2(k) /\ h = s + 3
    \/ hp = "scan" /\ ar = Arg2(k) /\ h \in {s + 3, s + 4}

\* ... or between its number and its row, with s where it begins and e atoms
\* printed by its kernel.
Timing(s, e, k, h, hp, st) ==
    \/ hp = "blank" /\ h \in {s + 5, s + 6}
    \/ hp = "control" /\ h = s + 6
    \/ hp = "in_control" /\ h = s + 7 /\ st["control0"] = k
    \/ hp = "kernel" /\ h = s + 8 /\ st["control0"] = k /\ st["control1"] = k
    \/ /\ hp = "in_kernel" /\ h \in {s + 9, s + e + 9}
       /\ st["control0"] = k /\ st["control1"] = k /\ st["kernel0"] = k
    \/ hp = "report" /\ h = s + e + 10 /\ \A x \in Stamps : st[x] = k

Named(pr, k, h, hp, bu, ar, ro) ==
    bu = <<>> /\ Right(ro, k - 1) /\ Naming(Start(pr, k), k, h, hp, ar)

Timed(pr, k, h, hp, bu, ar, st, ro) ==
    /\ k \notin pr.init /\ bu = <<>> /\ ar = Arg3(k) /\ Right(ro, k - 1)
    /\ Timing(Start(pr, k), KernelLen(pr, k), k, h, hp, st)

\* The row of k is printed, the end of its line not read.
Between(pr, k, h, hp, bu, ar, ro) ==
    hp = "scan" /\ bu = <<>> /\ ar = <<>> /\ Right(ro, k) /\ h \in Nat /\ h + 1 = Start(pr, k + 1)

\* The first of the last lines, at a, is taken for the name of a benchmark, ...
Misread(a, h, hp, ar) ==
    \/ hp = "scan" /\ h = a /\ Len(ar) = 0
    \/ hp = "word" /\ h \in {a + 1, a + 2} /\ Len(ar) = 1
    \/ hp = "scan" /\ h \in {a + 2, a + 3} /\ Len(ar) = 1
    \/ hp = "word" /\ h \in {a + 4, a + 5} /\ Len(ar) = 2
    \/ hp = "scan" /\ h \in {a + 5, a + 6} /\ Len(ar) = 2

Ending(pr, h, hp, bu, ar, ro) ==
    bu = <<>> /\ ar \in Words /\ Right(ro, NBench) /\ Misread(Last(pr), h, hp, ar)

\* ... which is why there is a second.
Closing(pr, h, hp, bu, ro) ==
    hp = "end" /\ Right(ro, NBench) /\ Reading(h, bu, EndLine, Last(pr) + 6)

HostAt(pr, h, hp, bu, ar, st, ro) ==
    \/ Opening(h, hp, bu, ar, ro)
    \/ \E k \in 1 .. NBench : \/ Named(pr, k, h, hp, bu, ar, ro)
                              \/ Timed(pr, k, h, hp, bu, ar, st, ro)
                              \/ Between(pr, k, h, hp, bu, ar, ro)
    \/ Ending(pr, h, hp, bu, ar, ro)
    \/ Closing(pr, h, hp, bu, ro)

-----------------------------------------------------------------------------
(* One step of the host, by the place it is at; x is the next atom. *)

\* Reading up to the star.
LEMMA StarStep ==
    ASSUME NEW pr, NEW h, NEW bu, NEW ar, NEW st, NEW ro, HostAt(pr, h, "star", bu, ar, st, ro),
           NEW x, x = Text(pr, h + 1)
    PROVE  HostAt(pr, h + 1, IF Append(bu, x) = StarLine THEN "pin" ELSE "star",
                  IF x = nl THEN <<>> ELSE Append(bu, x), ar, st, ro)
  <1>1. /\ ar = <<>> /\ Right(ro, 0)
        /\ Reading(h, bu, BootLine, 0) \/ Reading(h, bu, StarLine, 4)
    BY DEF HostAt, Opening, Named, Naming, Timed, Timing, Between, Ending, Misread, Closing
  <1> DEFINE hp1 == IF Append(bu, x) = StarLine THEN "pin" ELSE "star"
             bu1 == IF x = nl THEN <<>> ELSE Append(bu, x)
  <1> SUFFICES Opening(h + 1, hp1, bu1, ar, ro)
    BY Zenon DEF HostAt
  <1>2. Len(BootLine) = 4 /\ Len(StarLine) = 2 /\ BootLine[1] # StarLine[1]
    BY DEF BootLine, StarLine, txt, Atom
  <1>3. CASE Reading(h, bu, BootLine, 0)
    <2>0. ReadOn(h, bu, BootLine, 0, x)
      <3>1. LineAt(pr, BootLine, 0) /\ OneLine(BootLine)
        BY LinesAt, Lines
      <3> QED  BY <3>1, <1>3, ReadingOn
    <2>1. /\ x = nl => h + 1 = 0 + Len(BootLine)
          /\ x # nl => Reading(h + 1, Append(bu, x), BootLine, 0)
          /\ Append(bu, x) # StarLine
      BY <2>0, <1>2 DEF ReadOn
    <2>2. CASE x = nl
      <3>1. h + 1 = 4
        BY <2>1, <2>2, <1>2
      <3>2. Reading(h + 1, <<>>, StarLine, 4)
        BY <3>1, ReadingStarts, Lines
      <3> QED  BY <2>1, <2>2, <3>2, <1>1 DEF Opening
    <2>3. CASE x # nl
      BY <2>1, <2>3, <1>1 DEF Opening
    <2> QED  BY <2>2, <2>3
  <1>4. CASE Reading(h, bu, StarLine, 4)
    <2>0. ReadOn(h, bu, StarLine, 4, x)
      <3>1. LineAt(pr, StarLine, 4) /\ OneLine(StarLine)
        BY LinesAt, Lines
      <3> QED  BY <3>1, <1>4, ReadingOn
    <2>1. /\ x = nl => h + 1 = 4 + Len(StarLine) /\ Append(bu, x) = StarLine
          /\ x # nl => Reading(h + 1, Append(bu, x), StarLine, 4) /\ Append(bu, x) # StarLine
      BY <2>0 DEF ReadOn
    <2>2. CASE x = nl
      BY <2>1, <2>2, <1>1, <1>2 DEF Opening
    <2>3. CASE x # nl
      BY <2>1, <2>3, <1>1 DEF Opening
    <2> QED  BY <2>2, <2>3
  <1> QED
    BY <1>1, <1>3, <1>4

\* Reading up to the beginning of the benchmarks.
LEMMA BeginStep ==
    ASSUME NEW pr, NEW h, NEW bu, NEW ar, NEW st, NEW ro, HostAt(pr, h, "begin", bu, ar, st, ro),
           NEW x, x = Text(pr, h + 1)
    PROVE  HostAt(pr, h + 1, IF Append(bu, x) = BeginLine THEN "scan" ELSE "begin",
                  IF x = nl THEN <<>> ELSE Append(bu, x), ar, st, ro)
  <1>1. /\ ar = <<>> /\ Right(ro, 0)
        /\ Reading(h, bu, TitleLine, 6) \/ Reading(h, bu, BeginLine, 12)
    BY DEF HostAt, Opening, Named, Naming, Timed, Timing, Between, Ending, Misread, Closing
  <1> DEFINE hp1 == IF Append(bu, x) = BeginLine THEN "scan" ELSE "begin"
             bu1 == IF x = nl THEN <<>> ELSE Append(bu, x)
  <1>2. Len(TitleLine) = 6 /\ Len(BeginLine) = 6 /\ TitleLine[1] # BeginLine[1]
    BY DEF TitleLine, BeginLine, txt, Atom
  <1>3. CASE Reading(h, bu, TitleLine, 6)
    <2>0. ReadOn(h, bu, TitleLine, 6, x)
      <3>1. LineAt(pr, TitleLine, 6) /\ OneLine(TitleLine)
        BY LinesAt, Lines
      <3> QED  BY <3>1, <1>3, ReadingOn
    <2>1. /\ x = nl => h + 1 = 6 + Len(TitleLine)
          /\ x # nl => Reading(h + 1, Append(bu, x), TitleLine, 6)
          /\ Append(bu, x) # BeginLine
      BY <2>0, <1>2 DEF ReadOn
    <2>2. CASE x = nl
      <3>1. h + 1 = 12
        BY <2>1, <2>2, <1>2
      <3>2. Reading(h + 1, <<>>, BeginLine, 12)
        BY <3>1, ReadingStarts, Lines
      <3>3. Opening(h + 1, hp1, bu1, ar, ro)
        BY <2>1, <2>2, <3>2, <1>1 DEF Opening
      <3> QED  BY <3>3, Zenon DEF HostAt
    <2>3. CASE x # nl
      <3>1. Opening(h + 1, hp1, bu1, ar, ro)
        BY <2>1, <2>3, <1>1 DEF Opening
      <3> QED  BY <3>1, Zenon DEF HostAt
    <2> QED  BY <2>2, <2>3
  <1>4. CASE Reading(h, bu, BeginLine, 12)
    <2>0. ReadOn(h, bu, BeginLine, 12, x)
      <3>1. LineAt(pr, BeginLine, 12) /\ OneLine(BeginLine)
        BY LinesAt, Lines
      <3> QED  BY <3>1, <1>4, ReadingOn
    <2>1. /\ x = nl => h + 1 = 12 + Len(BeginLine) /\ Append(bu, x) = BeginLine
          /\ x # nl => Reading(h + 1, Append(bu, x), BeginLine, 12) /\ Append(bu, x) # BeginLine
      BY <2>0 DEF ReadOn
    <2>2. CASE x = nl
      <3>1. h + 1 = 18 /\ hp1 = "scan" /\ bu1 = <<>>
        BY <2>1, <2>2, <1>2
      <3>2. 1 \in 1 .. NBench /\ 1 - 1 = 0
        BY SessionAssumption
      <3> HIDE DEF hp1, bu1
      <3>3. Named(pr, 1, h + 1, hp1, bu1, ar, ro)
        BY <3>1, <3>2, <1>1, StartFirst DEF Named, Naming
      <3> QED  BY <3>2, <3>3, Zenon DEF HostAt, hp1, bu1
    <2>3. CASE x # nl
      <3>1. Opening(h + 1, hp1, bu1, ar, ro)
        BY <2>1, <2>3, <1>1 DEF Opening
      <3> QED  BY <3>1, Zenon DEF HostAt
    <2> QED  BY <2>2, <2>3
  <1> QED
    BY <1>1, <1>3, <1>4

\* Reading up to the end of the benchmarks.
LEMMA EndStep ==
    ASSUME NEW pr, NEW h, NEW bu, NEW ar, NEW st, NEW ro, HostAt(pr, h, "end", bu, ar, st, ro),
           NEW x, x = Text(pr, h + 1)
    PROVE  /\ Right(ro, NBench)
           /\ Append(bu, x) # EndLine =>
                 HostAt(pr, h + 1, "end", IF x = nl THEN <<>> ELSE Append(bu, x), ar, st, ro)
  <1>1. Right(ro, NBench) /\ Reading(h, bu, EndLine, Last(pr) + 6)
    BY DEF HostAt, Opening, Named, Naming, Timed, Timing, Between, Ending, Misread, Closing
  <1>2. /\ x = nl => Append(bu, x) = EndLine
        /\ x # nl => Reading(h + 1, Append(bu, x), EndLine, Last(pr) + 6)
    <2>1. LineAt(pr, EndLine, Last(pr) + 6) /\ OneLine(EndLine)
      BY LinesAt, Lines
    <2>2. ReadOn(h, bu, EndLine, Last(pr) + 6, x)
      BY <2>1, <1>1, ReadingOn
    <2> QED  BY <2>2 DEF ReadOn
  <1>3. ASSUME Append(bu, x) # EndLine
        PROVE  HostAt(pr, h + 1, "end", Append(bu, x), ar, st, ro)
    BY <1>1, <1>2, <1>3, Zenon DEF HostAt, Closing
  <1> QED
    BY <1>1, <1>2, <1>3

\* The text around the name of benchmark k: its fifth atom is its number, or a
\* word that init() prints.
LEMMA NameText ==
    ASSUME NEW pr, NEW k \in 1 .. NBench, NEW s, s = Start(pr, k)
    PROVE  /\ s \in Nat
           /\ Text(pr, s + 1) = Mark("category", k) /\ Text(pr, s + 2) = sp
           /\ Text(pr, s + 3) = Mark("name", k) /\ Text(pr, s + 4) = sp
           /\ Text(pr, s + 5) = IF k \in pr.init THEN txt ELSE Mark("number", k)
  <1>1. s \in Nat
    BY SessionAssumption, StartNat
  <1>2. /\ Text(pr, s + 1) = Mark("category", k) /\ Text(pr, s + 2) = sp
        /\ Text(pr, s + 3) = Mark("name", k) /\ Text(pr, s + 4) = sp
        /\ InitLen(pr, k) = 4 => Text(pr, s + 5) = txt
        /\ Text(pr, s + InitLen(pr, k) + 5) = Mark("number", k)
    BY BenchText
  <1>3. Text(pr, s + 5) = IF k \in pr.init THEN txt ELSE Mark("number", k)
    <2>1. CASE k \in pr.init
      BY <2>1, <1>2 DEF InitLen
    <2>2. CASE k \notin pr.init
      <3>1. InitLen(pr, k) = 0 /\ s + 0 = s
        BY <2>2, <1>1 DEF InitLen
      <3> QED  BY <2>2, <3>1, <1>2
    <2> QED  BY <2>1, <2>2
  <1> QED
    BY <1>1, <1>2, <1>3

\* The braces, under names of their own: the provers stumble over these two
\* strings.
LBrace == "{"
RBrace == "}"

\* The text behind the number, when init() prints nothing.
LEMMA TimeText ==
    ASSUME NEW pr, NEW k \in 1 .. NBench, k \notin pr.init, NEW s, s = Start(pr, k),
           NEW e, e = KernelLen(pr, k)
    PROVE  /\ s \in Nat /\ e \in {0, 1} /\ s + e + 11 = Start(pr, k + 1)
           /\ Text(pr, s + 6) = sp /\ Text(pr, s + 7) = Mark(LBrace, k)
           /\ Text(pr, s + 8) = Mark(RBrace, k) /\ Text(pr, s + 9) = Mark("[", k)
           /\ e = 1 => Text(pr, s + 10) = txt
           /\ Text(pr, s + e + 10) = Mark("]", k)
  <1>1. s \in Nat /\ e \in {0, 1} /\ InitLen(pr, k) = 0
    BY SessionAssumption, StartNat DEF KernelLen, InitLen
  <1>2. Start(pr, k + 1) = s + 11 + InitLen(pr, k) + e
    <2>1. k \in Nat \ {0}
      BY SessionAssumption
    <2> QED  BY <2>1, StartNext
  <1> DEFINE i == InitLen(pr, k)
  <1>3. /\ Text(pr, s + i + 6) = sp
        /\ Text(pr, s + i + 7) = Mark("{", k) /\ Text(pr, s + i + 8) = Mark("}", k)
        /\ Text(pr, s + i + 9) = Mark("[", k)
        /\ e = 1 => Text(pr, s + i + 10) = txt
        /\ Text(pr, s + i + e + 10) = Mark("]", k)
    BY BenchText, Zenon
  <1>4. i = 0
    BY <1>1
  <1> HIDE DEF i
  <1>5. s + i = s
    BY <1>1, <1>4
  <1>6. /\ Text(pr, s + 6) = sp
        /\ Text(pr, s + 7) = Mark(LBrace, k) /\ Text(pr, s + 8) = Mark(RBrace, k)
        /\ Text(pr, s + 9) = Mark("[", k)
        /\ e = 1 => Text(pr, s + 10) = txt
        /\ Text(pr, s + e + 10) = Mark("]", k)
    BY <1>3, <1>5, Zenon DEF LBrace, RBrace
  <1>7. s + e + 11 = Start(pr, k + 1)
    BY <1>1, <1>2
  <1> QED
    BY <1>1, <1>6, <1>7

\* The first of the last lines, and the beginning of the second.
LEMMA EndText ==
    ASSUME NEW pr, NEW a, a = Last(pr)
    PROVE  /\ a \in Nat
           /\ Text(pr, a + 1) = Atom("[") /\ Text(pr, a + 2) = Atom("BENCHMARKS")
           /\ Text(pr, a + 3) = sp /\ Text(pr, a + 4) = Atom("END")
           /\ Text(pr, a + 5) = Atom("]") /\ Text(pr, a + 6) = nl
           /\ Text(pr, a + 7) = Atom("[")
  <1>1. \A o \in 1 .. 12 : Text(pr, a + o) = Epilogue[o]
    BY TextEpilogue
  <1>2. a \in Nat
    BY LastFacts
  <1> QED
    BY <1>1, <1>2 DEF Epilogue

\* What is white.
LEMMA Whites ==
    /\ White(sp) /\ White(nl) /\ ~White(txt)
    /\ \A c : White(Atom(c)) <=> c \in {"nl", "sp"}
    /\ \A c, k : White(Mark(c, k)) <=> c \in {"nl", "sp"}
  BY DEF White, sp, nl, txt, Atom, Mark

\* The braces are not.
LEMMA Braces == LBrace \notin {"nl", "sp"} /\ RBrace \notin {"nl", "sp"}
  BY Zenon DEF LBrace, RBrace

\* White space between words.
LEMMA SkipStep ==
    ASSUME NEW pr, NEW h, NEW bu, NEW ar, NEW st, NEW ro, HostAt(pr, h, "scan", bu, ar, st, ro),
           NEW x, x = Text(pr, h + 1), White(x)
    PROVE  HostAt(pr, h + 1, "scan", bu, ar, st, ro)
  <1>1. CASE \E k \in 1 .. NBench : Named(pr, k, h, "scan", bu, ar, ro)
    <2>1. PICK k \in 1 .. NBench : Named(pr, k, h, "scan", bu, ar, ro)
      BY <1>1
    <2>2. PICK s : s = Start(pr, k)
      OBVIOUS
    <2>3. /\ s \in Nat
          /\ Text(pr, s + 1) = Mark("category", k) /\ Text(pr, s + 2) = sp
          /\ Text(pr, s + 3) = Mark("name", k) /\ Text(pr, s + 4) = sp
          /\ Text(pr, s + 5) = IF k \in pr.init THEN txt ELSE Mark("number", k)
      BY <2>2, NameText
    <2>4. \/ ar = <<>> /\ h = s
          \/ ar = Arg1(k) /\ h \in {s + 1, s + 2}
          \/ ar = Arg2(k) /\ h \in {s + 3, s + 4}
      BY <2>1, <2>2 DEF Named, Naming
    <2>5. \/ ar = Arg1(k) /\ h + 1 = s + 2
          \/ ar = Arg2(k) /\ h + 1 = s + 4
      BY <2>3, <2>4, Whites
    <2>6. Naming(s, k, h + 1, "scan", ar)
      BY <2>5 DEF Naming
    <2>7. Named(pr, k, h + 1, "scan", bu, ar, ro)
      BY <2>1, <2>2, <2>6 DEF Named
    <2> QED  BY <2>7, Zenon DEF HostAt
  <1>2. CASE \E k \in 1 .. NBench : Between(pr, k, h, "scan", bu, ar, ro)
    <2>1. PICK k \in 1 .. NBench : Between(pr, k, h, "scan", bu, ar, ro)
      BY <1>2
    <2>2. bu = <<>> /\ ar = <<>> /\ Right(ro, k) /\ h + 1 = Start(pr, k + 1)
      BY <2>1 DEF Between
    <2>3. NBench \in Nat \ {0}
      BY SessionAssumption
    <2>4. CASE k + 1 \in 1 .. NBench
      <3>1. k + 1 - 1 = k
        BY <2>3
      <3>2. Named(pr, k + 1, h + 1, "scan", bu, ar, ro)
        BY <2>2, <3>1 DEF Named, Naming
      <3> QED  BY <2>4, <3>2, Zenon DEF HostAt
    <2>5. CASE k = NBench
      <3>1. ar \in Words /\ Len(ar) = 0
        BY <2>2 DEF Words
      <3>2. Ending(pr, h + 1, "scan", bu, ar, ro)
        BY <2>2, <2>5, <3>1 DEF Ending, Misread, Last
      <3> QED  BY <3>2, Zenon DEF HostAt
    <2> QED  BY <2>3, <2>4, <2>5
  <1>3. CASE Ending(pr, h, "scan", bu, ar, ro)
    <2>1. PICK a : a = Last(pr)
      OBVIOUS
    <2>2. /\ a \in Nat
          /\ Text(pr, a + 1) = Atom("[") /\ Text(pr, a + 2) = Atom("BENCHMARKS")
          /\ Text(pr, a + 3) = sp /\ Text(pr, a + 4) = Atom("END")
          /\ Text(pr, a + 5) = Atom("]") /\ Text(pr, a + 6) = nl
          /\ Text(pr, a + 7) = Atom("[")
      BY <2>1, EndText
    <2>3. \/ h = a /\ Len(ar) = 0
          \/ h \in {a + 2, a + 3} /\ Len(ar) = 1
          \/ h \in {a + 5, a + 6} /\ Len(ar) = 2
      BY <1>3, <2>1 DEF Ending, Misread
    <2>4. \/ h + 1 = a + 3 /\ Len(ar) = 1
          \/ h + 1 = a + 6 /\ Len(ar) = 2
      BY <2>2, <2>3, Whites
    <2>5. Misread(a, h + 1, "scan", ar)
      BY <2>4 DEF Misread
    <2>6. Ending(pr, h + 1, "scan", bu, ar, ro)
      BY <1>3, <2>1, <2>5 DEF Ending
    <2> QED  BY <2>6, Zenon DEF HostAt
  <1>4. \/ \E k \in 1 .. NBench : Named(pr, k, h, "scan", bu, ar, ro)
        \/ \E k \in 1 .. NBench : Between(pr, k, h, "scan", bu, ar, ro)
        \/ Ending(pr, h, "scan", bu, ar, ro)
    BY DEF HostAt, Opening, Timed, Timing, Closing
  <1> QED
    BY <1>1, <1>2, <1>3, <1>4

\* The words read one after the other.
LEMMA WordsGrow ==
    \A k : /\ Append(<<>>, <<Mark("category", k)>>) = Arg1(k)
           /\ Append(Arg1(k), <<Mark("name", k)>>) = Arg2(k)
           /\ Append(Arg2(k), <<Mark("number", k)>>) = Arg3(k)
           /\ Len(Arg1(k)) = 1 /\ Len(Arg2(k)) = 2 /\ Len(Arg3(k)) = 3
  <1>1. \A u, v, w : /\ Append(<<>>, u) = <<u>>
                     /\ Append(<<u>>, v) = <<u, v>>
                     /\ Append(<<u, v>>, w) = <<u, v, w>>
    <2> TAKE u, v, w
    <2> DEFINE S == {u, v, w}
    <2>1. u \in S /\ v \in S /\ w \in S
      OBVIOUS
    <2> HIDE DEF S
    <2>2. <<>> \in Seq(S) /\ <<u>> \in Seq(S) /\ <<u, v>> \in Seq(S) /\ <<u, v, w>> \in Seq(S)
      BY <2>1
    <2>3. Append(<<>>, u) = <<u>>
      BY <2>1, <2>2
    <2>4. Append(<<u>>, v) = <<u, v>>
      <3> DEFINE t == Append(<<u>>, v)
      <3>1. t \in Seq(S) /\ Len(t) = 2 /\ t[1] = u /\ t[2] = v
        BY <2>1, <2>2
      <3> HIDE DEF t
      <3>2. Len(t) = Len(<<u, v>>) /\ \A i \in 1 .. Len(t) : t[i] = <<u, v>>[i]
        BY <3>1
      <3>3. t = <<u, v>>
        BY <2>2, <3>1, <3>2, SeqEqual
      <3> QED  BY <3>3 DEF t
    <2>5. Append(<<u, v>>, w) = <<u, v, w>>
      <3> DEFINE t == Append(<<u, v>>, w)
      <3>1. t \in Seq(S) /\ Len(t) = 3 /\ t[1] = u /\ t[2] = v /\ t[3] = w
        BY <2>1, <2>2
      <3> HIDE DEF t
      <3>2. Len(t) = Len(<<u, v, w>>) /\ \A i \in 1 .. Len(t) : t[i] = <<u, v, w>>[i]
        BY <3>1
      <3>3. t = <<u, v, w>>
        BY <2>2, <3>1, <3>2, SeqEqual
      <3> QED  BY <3>3 DEF t
    <2> QED  BY <2>3, <2>4, <2>5
  <1> QED
    BY <1>1 DEF Arg1, Arg2, Arg3

\* The first atom of a word.
LEMMA WordStep ==
    ASSUME NEW pr, NEW h, NEW bu, NEW ar \in Words, NEW st, NEW ro,
           HostAt(pr, h, "scan", bu, ar, st, ro), Len(ar) < 2,
           NEW x \in Atoms, x = Text(pr, h + 1), ~White(x)
    PROVE  HostAt(pr, h + 1, "word", bu, Append(ar, <<x>>), st, ro)
  <1>1. CASE \E k \in 1 .. NBench : Named(pr, k, h, "scan", bu, ar, ro)
    <2>1. PICK k \in 1 .. NBench : Named(pr, k, h, "scan", bu, ar, ro)
      BY <1>1
    <2>2. PICK s : s = Start(pr, k)
      OBVIOUS
    <2>3. /\ s \in Nat
          /\ Text(pr, s + 1) = Mark("category", k) /\ Text(pr, s + 2) = sp
          /\ Text(pr, s + 3) = Mark("name", k)
      BY <2>2, NameText
    <2>4. \/ ar = <<>> /\ h = s
          \/ ar = Arg1(k) /\ h \in {s + 1, s + 2}
          \/ ar = Arg2(k)
      BY <2>1, <2>2 DEF Named, Naming
    <2>5. \/ ar = <<>> /\ h + 1 = s + 1 /\ x = Mark("category", k)
          \/ ar = Arg1(k) /\ h + 1 = s + 3 /\ x = Mark("name", k)
      <3>1. Len(Arg2(k)) = 2
        BY WordsGrow
      <3> QED  BY <2>3, <2>4, <3>1, Whites
    <2>6. \/ Append(ar, <<x>>) = Arg1(k) /\ h + 1 = s + 1
          \/ Append(ar, <<x>>) = Arg2(k) /\ h + 1 = s + 3
      BY <2>5, WordsGrow
    <2>7. Naming(s, k, h + 1, "word", Append(ar, <<x>>))
      BY <2>6 DEF Naming
    <2>8. Named(pr, k, h + 1, "word", bu, Append(ar, <<x>>), ro)
      BY <2>1, <2>2, <2>7 DEF Named
    <2> QED  BY <2>8, Zenon DEF HostAt
  <1>2. CASE \E k \in 1 .. NBench : Between(pr, k, h, "scan", bu, ar, ro)
    <2>1. PICK k \in 1 .. NBench : h + 1 = Start(pr, k + 1)
      BY <1>2 DEF Between
    <2>2. Text(pr, h + 1) = nl
      <3>1. k \in Nat \ {0} /\ InitLen(pr, k) \in Nat /\ KernelLen(pr, k) \in Nat
            /\ Start(pr, k) \in Nat
        BY SessionAssumption, StartNat DEF InitLen, KernelLen
      <3>2. Text(pr, Start(pr, k) + InitLen(pr, k) + KernelLen(pr, k) + 11) = nl
        BY BenchText
      <3>3. Start(pr, k + 1) = Start(pr, k) + 11 + InitLen(pr, k) + KernelLen(pr, k)
        BY <3>1, StartNext
      <3>4. Start(pr, k + 1) = Start(pr, k) + InitLen(pr, k) + KernelLen(pr, k) + 11
        BY <3>1, <3>3
      <3> QED  BY <2>1, <3>2, <3>4
    <2> QED  BY <2>2, Whites
  <1>3. CASE Ending(pr, h, "scan", bu, ar, ro)
    <2>1. PICK a : a = Last(pr)
      OBVIOUS
    <2>2. /\ a \in Nat
          /\ Text(pr, a + 1) = Atom("[") /\ Text(pr, a + 2) = Atom("BENCHMARKS")
          /\ Text(pr, a + 3) = sp /\ Text(pr, a + 4) = Atom("END")
      BY <2>1, EndText
    <2>3. \/ h = a /\ Len(ar) = 0
          \/ h \in {a + 2, a + 3} /\ Len(ar) = 1
          \/ Len(ar) = 2
      BY <1>3, <2>1 DEF Ending, Misread
    <2>4. \/ h + 1 = a + 1 /\ Len(ar) = 0
          \/ h + 1 = a + 4 /\ Len(ar) = 1
      BY <2>2, <2>3, Whites
    <2>5. Append(ar, <<x>>) \in Words /\ Len(Append(ar, <<x>>)) = Len(ar) + 1
      <3>1. <<x>> \in Seq(Atoms)
        OBVIOUS
      <3> QED  BY <3>1 DEF Words
    <2>6. Misread(a, h + 1, "word", Append(ar, <<x>>))
      BY <2>4, <2>5 DEF Misread
    <2>7. Ending(pr, h + 1, "word", bu, Append(ar, <<x>>), ro)
      BY <1>3, <2>1, <2>5, <2>6 DEF Ending
    <2> QED  BY <2>7, Zenon DEF HostAt
  <1>4. \/ \E k \in 1 .. NBench : Named(pr, k, h, "scan", bu, ar, ro)
        \/ \E k \in 1 .. NBench : Between(pr, k, h, "scan", bu, ar, ro)
        \/ Ending(pr, h, "scan", bu, ar, ro)
    BY DEF HostAt, Opening, Timed, Timing, Closing
  <1> QED
    BY <1>1, <1>2, <1>3, <1>4

\* The rest of a word, and its end.
LEMMA MoreStep ==
    ASSUME NEW pr, NEW h, NEW bu, NEW ar \in Words, NEW st, NEW ro,
           HostAt(pr, h, "word", bu, ar, st, ro), NEW x \in Atoms, x = Text(pr, h + 1)
    PROVE  /\ White(x) => HostAt(pr, h, "scan", bu, ar, st, ro)
           /\ ~White(x) => HostAt(pr, h + 1, "word", bu, [ar EXCEPT ![Len(ar)] = Append(@, x)],
                                  st, ro)
  <1>1. CASE \E k \in 1 .. NBench : Named(pr, k, h, "word", bu, ar, ro)
    <2>1. PICK k \in 1 .. NBench : Named(pr, k, h, "word", bu, ar, ro)
      BY <1>1
    <2>2. PICK s : s = Start(pr, k)
      OBVIOUS
    <2>3. s \in Nat /\ Text(pr, s + 2) = sp /\ Text(pr, s + 4) = sp
      BY <2>2, NameText
    <2>4. \/ ar = Arg1(k) /\ h = s + 1
          \/ ar = Arg2(k) /\ h = s + 3
      BY <2>1, <2>2 DEF Named, Naming
    <2>5. White(x)
      BY <2>3, <2>4, Whites
    <2>6. Naming(s, k, h, "scan", ar)
      BY <2>4 DEF Naming
    <2>7. Named(pr, k, h, "scan", bu, ar, ro)
      BY <2>1, <2>2, <2>6 DEF Named
    <2>8. HostAt(pr, h, "scan", bu, ar, st, ro)
      BY <2>7, Zenon DEF HostAt
    <2> QED  BY <2>5, <2>8
  <1>2. CASE Ending(pr, h, "word", bu, ar, ro)
    <2>1. PICK a : a = Last(pr)
      OBVIOUS
    <2>2. /\ a \in Nat /\ Text(pr, a + 2) = Atom("BENCHMARKS") /\ Text(pr, a + 3) = sp
          /\ Text(pr, a + 5) = Atom("]") /\ Text(pr, a + 6) = nl
      BY <2>1, EndText
    <2>3. \/ h \in {a + 1, a + 2} /\ Len(ar) = 1
          \/ h \in {a + 4, a + 5} /\ Len(ar) = 2
      BY <1>2, <2>1 DEF Ending, Misread
    <2>4. ASSUME White(x)
          PROVE  HostAt(pr, h, "scan", bu, ar, st, ro)
      <3>1. (h = a + 2 /\ Len(ar) = 1) \/ (h = a + 5 /\ Len(ar) = 2)
        BY <2>2, <2>3, <2>4, Whites
      <3>2. Ending(pr, h, "scan", bu, ar, ro)
        BY <1>2, <2>1, <3>1 DEF Ending, Misread
      <3> QED  BY <3>2, Zenon DEF HostAt
    <2>5. ASSUME ~White(x)
          PROVE  HostAt(pr, h + 1, "word", bu, [ar EXCEPT ![Len(ar)] = Append(@, x)], st, ro)
      <3> DEFINE ar1 == [ar EXCEPT ![Len(ar)] = Append(@, x)]
      <3>1. (h + 1 = a + 2 /\ Len(ar) = 1) \/ (h + 1 = a + 5 /\ Len(ar) = 2)
        BY <2>2, <2>3, <2>5, Whites
      <3>2. ar1 \in Words /\ Len(ar1) = Len(ar)
        <4>1. Len(ar) \in 1 .. Len(ar)
          BY <3>1 DEF Words
        <4>2. ar[Len(ar)] \in Seq(Atoms)
          BY <4>1 DEF Words
        <4>3. Append(ar[Len(ar)], x) \in Seq(Atoms)
          BY <4>2
        <4> QED  BY <4>1, <4>3 DEF Words
      <3> HIDE DEF ar1
      <3>3. Misread(a, h + 1, "word", ar1)
        BY <3>1, <3>2 DEF Misread
      <3>4. Ending(pr, h + 1, "word", bu, ar1, ro)
        BY <1>2, <2>1, <3>2, <3>3 DEF Ending
      <3>5. HostAt(pr, h + 1, "word", bu, ar1, st, ro)
        BY <3>4, Zenon DEF HostAt
      <3> QED  BY <3>5 DEF ar1
    <2> QED  BY <2>4, <2>5
  <1>3. \/ \E k \in 1 .. NBench : Named(pr, k, h, "word", bu, ar, ro)
        \/ Ending(pr, h, "word", bu, ar, ro)
    BY DEF HostAt, Opening, Timed, Timing, Between, Closing
  <1> QED
    BY <1>1, <1>2, <1>3

\* A third word: the number, or something else, where the host gives up.  With
\* no init() that prints it is the first of the last lines.
LEMMA ThirdStep ==
    ASSUME NEW pr, NEW h, NEW bu, NEW ar \in Words, NEW st, NEW ro,
           HostAt(pr, h, "scan", bu, ar, st, ro), Len(ar) = 2,
           NEW x, x = Text(pr, h + 1), ~White(x)
    PROVE  /\ x.c = "number" => HostAt(pr, h + 1, "blank", bu, Append(ar, <<x>>), st, ro)
           /\ x.c # "number" => \/ HostAt(pr, h, "end", bu, <<>>, st, ro)
                                \/ pr.init # {} /\ \E n \in 0 .. NBench : Right(ro, n)
  <1>1. CASE \E k \in 1 .. NBench : Named(pr, k, h, "scan", bu, ar, ro)
    <2>1. PICK k \in 1 .. NBench : Named(pr, k, h, "scan", bu, ar, ro)
      BY <1>1
    <2>2. PICK s : s = Start(pr, k)
      OBVIOUS
    <2>3. /\ s \in Nat /\ Text(pr, s + 4) = sp
          /\ Text(pr, s + 5) = IF k \in pr.init THEN txt ELSE Mark("number", k)
      BY <2>2, NameText
    <2>4. ar = Arg2(k) /\ h \in {s + 3, s + 4}
      <3>1. ar = <<>> \/ ar = Arg1(k) \/ (ar = Arg2(k) /\ h \in {s + 3, s + 4})
        BY <2>1, <2>2 DEF Named, Naming
      <3>2. Len(<<>>) = 0 /\ Len(Arg1(k)) = 1
        BY WordsGrow
      <3> QED  BY <3>1, <3>2
    <2>5. h + 1 = s + 5 /\ x = IF k \in pr.init THEN txt ELSE Mark("number", k)
      BY <2>3, <2>4, Whites
    <2>6. CASE k \in pr.init
      <3>1. x.c = "text" /\ pr.init # {}
        BY <2>5, <2>6, AtomFacts
      <3>2. k - 1 \in 0 .. NBench /\ Right(ro, k - 1)
        BY <2>1, SessionAssumption DEF Named
      <3> QED  BY <3>1, <3>2
    <2>7. CASE k \notin pr.init
      <3>1. x = Mark("number", k) /\ x.c = "number"
        BY <2>5, <2>7, AtomFacts
      <3>2. Append(ar, <<x>>) = Arg3(k)
        BY <2>4, <3>1, WordsGrow
      <3>3. Timing(s, KernelLen(pr, k), k, h + 1, "blank", st)
        BY <2>5 DEF Timing
      <3>4. Timed(pr, k, h + 1, "blank", bu, Append(ar, <<x>>), st, ro)
        BY <2>1, <2>2, <2>7, <3>2, <3>3 DEF Timed, Named
      <3>5. HostAt(pr, h + 1, "blank", bu, Append(ar, <<x>>), st, ro)
        BY <3>4, Zenon DEF HostAt
      <3> QED  BY <3>1, <3>5
    <2> QED  BY <2>6, <2>7
  <1>2. CASE Ending(pr, h, "scan", bu, ar, ro)
    <2>1. PICK a : a = Last(pr)
      OBVIOUS
    <2>2. a \in Nat /\ Text(pr, a + 6) = nl /\ Text(pr, a + 7) = Atom("[")
      BY <2>1, EndText
    <2>3. h \in {a + 5, a + 6}
      BY <1>2, <2>1 DEF Ending, Misread
    <2>4. h = a + 6 /\ x = Atom("[")
      BY <2>2, <2>3, Whites
    <2>5. x.c # "number"
      BY <2>4, AtomFacts
    <2>6. bu = <<>> /\ Right(ro, NBench)
      BY <1>2 DEF Ending
    <2>7. Reading(h, bu, EndLine, a + 6)
      BY <2>2, <2>4, <2>6, ReadingStarts, Lines
    <2>8. HostAt(pr, h, "end", bu, <<>>, st, ro)
      BY <2>1, <2>6, <2>7, Zenon DEF HostAt, Closing
    <2> QED  BY <2>5, <2>8
  <1>3. \/ \E k \in 1 .. NBench : Named(pr, k, h, "scan", bu, ar, ro)
        \/ Ending(pr, h, "scan", bu, ar, ro)
    <2>1. \A k \in 1 .. NBench : ~Between(pr, k, h, "scan", bu, ar, ro)
      <3>1. ar # <<>>
        OBVIOUS
      <3> QED  BY <3>1 DEF Between
    <2> QED  BY <2>1 DEF HostAt, Opening, Timed, Timing, Closing
  <1> QED
    BY <1>1, <1>2, <1>3

\* Between the number and the row.
LEMMA TimedAt ==
    ASSUME NEW pr, NEW h, NEW hp, NEW bu, NEW ar, NEW st, NEW ro, HostAt(pr, h, hp, bu, ar, st, ro),
           hp \in {"blank", "control", "in_control", "kernel", "in_kernel", "report"}
    PROVE  \E k \in 1 .. NBench : Timed(pr, k, h, hp, bu, ar, st, ro)
  BY DEF HostAt, Opening, Named, Naming, Between, Ending, Misread, Closing

\* From one place of a measurement to another.
LEMMA TimedGoes ==
    ASSUME NEW pr, NEW k \in 1 .. NBench, NEW h, NEW hp, NEW bu, NEW ar, NEW st, NEW ro,
           Timed(pr, k, h, hp, bu, ar, st, ro), NEW h1, NEW hp1, NEW st1,
           Timing(Start(pr, k), KernelLen(pr, k), k, h1, hp1, st1)
    PROVE  HostAt(pr, h1, hp1, bu, ar, st1, ro)
  <1>1. Timed(pr, k, h1, hp1, bu, ar, st1, ro)
    BY DEF Timed
  <1> QED
    BY <1>1, Zenon DEF HostAt

\* The blank behind the number.
LEMMA BlankStep ==
    ASSUME NEW pr, NEW h, NEW bu, NEW ar, NEW st, NEW ro, HostAt(pr, h, "blank", bu, ar, st, ro),
           NEW x, x = Text(pr, h + 1)
    PROVE  /\ White(x) => HostAt(pr, h + 1, "blank", bu, ar, st, ro)
           /\ ~White(x) => HostAt(pr, h, "control", bu, ar, st, ro)
  <1>1. PICK k \in 1 .. NBench : Timed(pr, k, h, "blank", bu, ar, st, ro)
    BY TimedAt
  <1>2. PICK s, e : s = Start(pr, k) /\ e = KernelLen(pr, k)
    OBVIOUS
  <1>3. s \in Nat /\ Text(pr, s + 6) = sp /\ Text(pr, s + 7) = Mark(LBrace, k)
    <2>1. k \notin pr.init
      BY <1>1 DEF Timed
    <2> QED  BY <1>2, <2>1, TimeText
  <1>4. h \in {s + 5, s + 6}
    BY <1>1, <1>2 DEF Timed, Timing
  <1>5. White(x) => h + 1 = s + 6
    BY <1>3, <1>4, Whites, Braces
  <1>6. ~White(x) => h = s + 6
    BY <1>3, <1>4, Whites, Braces
  <1>7. White(x) => Timing(s, e, k, h + 1, "blank", st)
    BY <1>5 DEF Timing
  <1>8. ~White(x) => Timing(s, e, k, h, "control", st)
    BY <1>6 DEF Timing
  <1> QED
    BY <1>1, <1>2, <1>7, <1>8, TimedGoes

\* The four marks.
LEMMA ControlStep ==
    ASSUME NEW pr, NEW h, NEW bu, NEW ar, NEW st \in StampFns, NEW ro,
           HostAt(pr, h, "control", bu, ar, st, ro), NEW x, x = Text(pr, h + 1)
    PROVE  /\ x.c = LBrace
           /\ HostAt(pr, h + 1, "in_control", bu, ar, [st EXCEPT !["control0"] = x.of], ro)
  <1>1. PICK k \in 1 .. NBench : Timed(pr, k, h, "control", bu, ar, st, ro)
    BY TimedAt
  <1>2. PICK s, e : s = Start(pr, k) /\ e = KernelLen(pr, k)
    OBVIOUS
  <1>3. s \in Nat /\ Text(pr, s + 7) = Mark(LBrace, k)
    <2>1. k \notin pr.init
      BY <1>1 DEF Timed
    <2> QED  BY <1>2, <2>1, TimeText
  <1>4. h = s + 6
    BY <1>1, <1>2 DEF Timed, Timing
  <1>5. x = Mark(LBrace, k) /\ h + 1 = s + 7
    BY <1>3, <1>4
  <1>6. x.c = LBrace /\ x.of = k
    BY <1>5, AtomFacts
  <1>7. [st EXCEPT !["control0"] = x.of]["control0"] = k
    BY <1>6 DEF StampFns, Stamps
  <1>8. Timing(s, e, k, h + 1, "in_control", [st EXCEPT !["control0"] = x.of])
    BY <1>5, <1>7 DEF Timing
  <1> QED
    BY <1>1, <1>2, <1>6, <1>8, TimedGoes

\* The second, ...
LEMMA InControlStep ==
    ASSUME NEW pr, NEW h, NEW bu, NEW ar, NEW st \in StampFns, NEW ro,
           HostAt(pr, h, "in_control", bu, ar, st, ro), NEW x, x = Text(pr, h + 1)
    PROVE  /\ x.c = RBrace
           /\ HostAt(pr, h + 1, "kernel", bu, ar, [st EXCEPT !["control1"] = x.of], ro)
  <1>1. PICK k \in 1 .. NBench : Timed(pr, k, h, "in_control", bu, ar, st, ro)
    BY TimedAt
  <1>2. PICK s, e : s = Start(pr, k) /\ e = KernelLen(pr, k)
    OBVIOUS
  <1>3. s \in Nat /\ Text(pr, s + 8) = Mark(RBrace, k)
    <2>1. k \notin pr.init
      BY <1>1 DEF Timed
    <2> QED  BY <1>2, <2>1, TimeText
  <1>4. h = s + 7 /\ st["control0"] = k
    BY <1>1, <1>2 DEF Timed, Timing
  <1>5. x = Mark(RBrace, k) /\ h + 1 = s + 8
    BY <1>3, <1>4
  <1>6. x.c = RBrace /\ x.of = k
    BY <1>5, AtomFacts
  <1> DEFINE st1 == [st EXCEPT !["control1"] = x.of]
  <1>7. st1["control0"] = k /\ st1["control1"] = k
    BY <1>4, <1>6 DEF StampFns, Stamps
  <1> HIDE DEF st1
  <1>8. Timing(s, e, k, h + 1, "kernel", st1)
    BY <1>5, <1>7 DEF Timing
  <1> QED
    BY <1>1, <1>2, <1>6, <1>8, TimedGoes DEF st1

\* ... the third, ...
LEMMA KernelStep ==
    ASSUME NEW pr, NEW h, NEW bu, NEW ar, NEW st \in StampFns, NEW ro,
           HostAt(pr, h, "kernel", bu, ar, st, ro), NEW x, x = Text(pr, h + 1)
    PROVE  /\ x.c = "["
           /\ HostAt(pr, h + 1, "in_kernel", bu, ar, [st EXCEPT !["kernel0"] = x.of], ro)
  <1>1. PICK k \in 1 .. NBench : Timed(pr, k, h, "kernel", bu, ar, st, ro)
    BY TimedAt
  <1>2. PICK s, e : s = Start(pr, k) /\ e = KernelLen(pr, k)
    OBVIOUS
  <1>3. s \in Nat /\ Text(pr, s + 9) = Mark("[", k)
    <2>1. k \notin pr.init
      BY <1>1 DEF Timed
    <2> QED  BY <1>2, <2>1, TimeText
  <1>4. h = s + 8 /\ st["control0"] = k /\ st["control1"] = k
    BY <1>1, <1>2 DEF Timed, Timing
  <1>5. x = Mark("[", k) /\ h + 1 = s + 9
    BY <1>3, <1>4
  <1>6. x.c = "[" /\ x.of = k
    BY <1>5, AtomFacts
  <1> DEFINE st1 == [st EXCEPT !["kernel0"] = x.of]
  <1>7. st1["control0"] = k /\ st1["control1"] = k /\ st1["kernel0"] = k
    BY <1>4, <1>6 DEF StampFns, Stamps
  <1> HIDE DEF st1
  <1>8. Timing(s, e, k, h + 1, "in_kernel", st1)
    BY <1>5, <1>7 DEF Timing
  <1> QED
    BY <1>1, <1>2, <1>6, <1>8, TimedGoes DEF st1

\* ... and the fourth, behind what the kernel prints.
LEMMA InKernelStep ==
    ASSUME NEW pr, NEW h, NEW bu, NEW ar, NEW st \in StampFns, NEW ro,
           HostAt(pr, h, "in_kernel", bu, ar, st, ro), NEW x, x = Text(pr, h + 1)
    PROVE  /\ x.c = "]" => HostAt(pr, h + 1, "report", bu, ar, [st EXCEPT !["kernel1"] = x.of], ro)
           /\ x.c # "]" => HostAt(pr, h + 1, "in_kernel", bu, ar, st, ro)
  <1>1. PICK k \in 1 .. NBench : Timed(pr, k, h, "in_kernel", bu, ar, st, ro)
    BY TimedAt
  <1>2. PICK s, e : s = Start(pr, k) /\ e = KernelLen(pr, k)
    OBVIOUS
  <1>3. /\ s \in Nat /\ e \in {0, 1} /\ Text(pr, s + e + 10) = Mark("]", k)
        /\ e = 1 => Text(pr, s + 10) = txt
    <2>1. k \notin pr.init
      BY <1>1 DEF Timed
    <2> QED  BY <1>2, <2>1, TimeText
  <1>4. h \in {s + 9, s + e + 9} /\ st["control0"] = k /\ st["control1"] = k /\ st["kernel0"] = k
    BY <1>1, <1>2 DEF Timed, Timing
  <1>5. CASE h = s + e + 9
    <2>1. x = Mark("]", k) /\ h + 1 = s + e + 10
      BY <1>3, <1>5
    <2>2. x.c = "]" /\ x.of = k
      BY <2>1, AtomFacts
    <2> DEFINE st1 == [st EXCEPT !["kernel1"] = x.of]
    <2>3. \A y \in Stamps : st1[y] = k
      BY <1>4, <2>2 DEF StampFns, Stamps
    <2> HIDE DEF st1
    <2>4. Timing(s, e, k, h + 1, "report", st1)
      BY <2>1, <2>3 DEF Timing
    <2> QED
      BY <1>1, <1>2, <2>2, <2>4, TimedGoes DEF st1
  <1>6. CASE h # s + e + 9
    <2>1. x = txt /\ h + 1 = s + e + 9
      BY <1>3, <1>4, <1>6
    <2>2. x.c = "text"
      BY <2>1, AtomFacts
    <2>3. Timing(s, e, k, h + 1, "in_kernel", st)
      BY <1>4, <2>1 DEF Timing
    <2> QED
      BY <1>1, <1>2, <2>2, <2>3, TimedGoes
  <1> QED
    BY <1>5, <1>6

\* One more right row.
LEMMA RightGrows ==
    ASSUME NEW k \in Nat \ {0}, NEW ro, Right(ro, k - 1), NEW row \in Row, row.args = RowOf(k).args
    PROVE  /\ Append(ro, row) \in Seq(Row) /\ Len(Append(ro, row)) = k
           /\ \A j \in 1 .. k - 1 : Append(ro, row)[j] = RowOf(j)
           /\ Append(ro, row)[k] = row
           /\ row = RowOf(k) => Right(Append(ro, row), k)
  <1> DEFINE r == Append(ro, row)
  <1>1. ro \in Seq(Row) /\ Len(ro) = k - 1 /\ \A j \in 1 .. k - 1 : ro[j] = RowOf(j)
    BY DEF Right
  <1>2. r \in Seq(Row) /\ Len(r) = k - 1 + 1 /\ r[k - 1 + 1] = row
    BY <1>1
  <1>3. k - 1 + 1 = k
    OBVIOUS
  <1>4. \A j \in 1 .. k - 1 : r[j] = ro[j]
    BY <1>1
  <1> HIDE DEF r
  <1>5. \A j \in 1 .. k - 1 : r[j] = RowOf(j)
    BY <1>1, <1>4
  <1>6. Len(r) = k /\ r[k] = row
    BY <1>2, <1>3
  <1>7. ASSUME row = RowOf(k) PROVE Right(r, k)
    <2>1. \A j \in 1 .. k : j = k \/ j \in 1 .. k - 1
      OBVIOUS
    <2>2. \A j \in 1 .. k : r[j] = RowOf(j)
      BY <2>1, <1>5, <1>6, <1>7
    <2> QED  BY <2>2, <1>2, <1>6 DEF Right
  <1> QED
    BY <1>2, <1>5, <1>6, <1>7 DEF r

\* The row of results.
LEMMA ReportStep ==
    ASSUME NEW pr, NEW h, NEW bu, NEW ar \in Words, NEW st \in StampFns, NEW ro,
           HostAt(pr, h, "report", bu, ar, st, ro)
    PROVE  HostAt(pr, h, "scan", bu, <<>>, st, Append(ro, [args |-> ar, stamp |-> st]))
  <1> DEFINE row == [args |-> ar, stamp |-> st]
  <1>1. PICK k \in 1 .. NBench : Timed(pr, k, h, "report", bu, ar, st, ro)
    BY TimedAt
  <1>2. PICK s, e : s = Start(pr, k) /\ e = KernelLen(pr, k)
    OBVIOUS
  <1>3. s \in Nat /\ e \in {0, 1} /\ s + e + 11 = Start(pr, k + 1)
    <2>1. k \notin pr.init
      BY <1>1 DEF Timed
    <2> QED  BY <1>2, <2>1, TimeText
  <1>4. h = s + e + 10 /\ \A y \in Stamps : st[y] = k
    BY <1>1, <1>2 DEF Timed, Timing
  <1>5. row = RowOf(k)
    <2>1. ar = Arg3(k)
      BY <1>1 DEF Timed
    <2>2. st = [y \in Stamps |-> k]
      BY <1>4 DEF StampFns
    <2> QED  BY <2>1, <2>2 DEF RowOf, Arg3
  <1>6. row \in Row /\ row.args = RowOf(k).args
    <2>1. row \in Row
      BY DEF Row
    <2> QED  BY <2>1, <1>5
  <1>7. k \in Nat \ {0} /\ Right(ro, k - 1) /\ bu = <<>>
    BY <1>1, SessionAssumption DEF Timed
  <1> HIDE DEF row
  <1>8. Right(Append(ro, row), k)
    BY <1>5, <1>6, <1>7, RightGrows
  <1>9. h \in Nat /\ h + 1 = Start(pr, k + 1)
    BY <1>3, <1>4
  <1>10. Between(pr, k, h, "scan", bu, <<>>, Append(ro, row))
    BY <1>7, <1>8, <1>9 DEF Between
  <1>11. HostAt(pr, h, "scan", bu, <<>>, st, Append(ro, row))
    BY <1>10, Zenon DEF HostAt
  <1> QED
    BY <1>11 DEF row

\* The host is never at the end of the text.
LEMMA HostBound ==
    ASSUME NEW pr, NEW h, NEW hp, NEW bu, NEW ar, NEW st, NEW ro, HostAt(pr, h, hp, bu, ar, st, ro)
    PROVE  h < Total(pr)
  <1>0. /\ Last(pr) \in Nat /\ 18 <= Last(pr) /\ Total(pr) = Last(pr) + 12
        /\ \A k \in 1 .. NBench : Start(pr, k + 1) \in Nat /\ Start(pr, k + 1) <= Last(pr)
    BY LastFacts DEF Total
  <1>1. ASSUME NEW line, NEW a \in Nat, NEW n \in Nat, Len(line) = n, Reading(h, bu, line, a)
        PROVE  h < a + n
    BY <1>1 DEF Reading
  <1>2. CASE Opening(h, hp, bu, ar, ro)
    <2>1. Len(BootLine) = 4 /\ Len(StarLine) = 2 /\ Len(TitleLine) = 6 /\ Len(BeginLine) = 6
      BY DEF BootLine, StarLine, TitleLine, BeginLine
    <2>2. \/ h = 6 \/ Reading(h, bu, BootLine, 0) \/ Reading(h, bu, StarLine, 4)
          \/ Reading(h, bu, TitleLine, 6) \/ Reading(h, bu, BeginLine, 12)
      BY <1>2 DEF Opening
    <2>3. h = 6 \/ h < 0 + 4 \/ h < 4 + 2 \/ h < 6 + 6 \/ h < 12 + 6
      BY <2>1, <2>2, <1>1
    <2>4. h \in Nat
      BY <2>1, <2>2 DEF Reading
    <2> QED  BY <2>3, <2>4, <1>0
  <1>3. ASSUME NEW k \in 1 .. NBench, Named(pr, k, h, hp, bu, ar, ro)
        PROVE  h < Total(pr)
    <2>1. PICK s : s = Start(pr, k)
      OBVIOUS
    <2>2. k \in Nat \ {0} /\ InitLen(pr, k) \in Nat /\ KernelLen(pr, k) \in Nat /\ s \in Nat
      BY <2>1, SessionAssumption, StartNat DEF InitLen, KernelLen
    <2>3. s + 11 <= Last(pr)
      <3>1. Start(pr, k + 1) = s + 11 + InitLen(pr, k) + KernelLen(pr, k)
        BY <2>1, <2>2, StartNext
      <3> QED  BY <3>1, <2>2, <1>0
    <2>4. h \in {s, s + 1, s + 2, s + 3, s + 4}
      BY <1>3, <2>1 DEF Named, Naming
    <2> QED  BY <2>2, <2>3, <2>4, <1>0
  <1>4. ASSUME NEW k \in 1 .. NBench, Timed(pr, k, h, hp, bu, ar, st, ro)
        PROVE  h < Total(pr)
    <2>1. PICK s, e : s = Start(pr, k) /\ e = KernelLen(pr, k)
      OBVIOUS
    <2>2. s \in Nat /\ e \in {0, 1} /\ s + e + 11 = Start(pr, k + 1)
      <3>1. k \notin pr.init
        BY <1>4 DEF Timed
      <3> QED  BY <2>1, <3>1, TimeText
    <2>3. s + e + 11 <= Last(pr)
      BY <2>2, <1>0
    <2>4. h \in {s + 5, s + 6, s + 7, s + 8, s + 9, s + e + 9, s + e + 10}
      BY <1>4, <2>1 DEF Timed, Timing
    <2> QED  BY <2>2, <2>3, <2>4, <1>0
  <1>5. ASSUME NEW k \in 1 .. NBench, Between(pr, k, h, hp, bu, ar, ro)
        PROVE  h < Total(pr)
    <2>1. h \in Nat /\ h + 1 = Start(pr, k + 1)
      BY <1>5 DEF Between
    <2> QED  BY <2>1, <1>0
  <1>6. CASE Ending(pr, h, hp, bu, ar, ro)
    <2>1. PICK a : a = Last(pr)
      OBVIOUS
    <2>2. h \in {a, a + 1, a + 2, a + 3, a + 4, a + 5, a + 6}
      BY <1>6, <2>1 DEF Ending, Misread
    <2> QED  BY <2>1, <2>2, <1>0
  <1>7. CASE Closing(pr, h, hp, bu, ro)
    <2>1. Len(EndLine) = 6
      BY DEF EndLine
    <2>2. PICK n \in 0 .. 6 - 1 : h = Last(pr) + 6 + n
      BY <1>7, <2>1 DEF Closing, Reading
    <2> QED  BY <2>2, <1>0
  <1> QED
    BY <1>2, <1>3, <1>4, <1>5, <1>6, <1>7 DEF HostAt

\* Its rows are right, and the words read are those of the next row once it
\* has the number.
LEMMA HostRows ==
    ASSUME NEW pr, NEW h, NEW hp, NEW bu, NEW ar, NEW st, NEW ro, HostAt(pr, h, hp, bu, ar, st, ro)
    PROVE  /\ \E n \in 0 .. NBench : Right(ro, n)
           /\ hp \in {"blank", "control", "in_control", "kernel", "in_kernel", "report"} =>
                 \E k \in 1 .. NBench : Right(ro, k - 1) /\ ar = Arg3(k)
  <1>0. NBench \in Nat \ {0}
    BY SessionAssumption
  <1>1. \A k \in 1 .. NBench : k - 1 \in 0 .. NBench /\ k \in 0 .. NBench
    BY <1>0
  <1>2. 0 \in 0 .. NBench /\ NBench \in 0 .. NBench
    BY <1>0
  <1>3. \E n \in 0 .. NBench : Right(ro, n)
    BY <1>1, <1>2, Zenon DEF HostAt, Opening, Named, Timed, Between, Ending, Closing
  <1>4. hp \in {"blank", "control", "in_control", "kernel", "in_kernel", "report"} =>
           \E k \in 1 .. NBench : Right(ro, k - 1) /\ ar = Arg3(k)
    BY TimedAt DEF Timed
  <1> QED
    BY <1>3, <1>4

-----------------------------------------------------------------------------
(* What the harness has printed. *)

\* The text is printed up to position g.
Emitted(pr, gp, k, g) ==
    /\ gp = "star" => g = 4
    /\ gp \in {"rdtsc", "wait", "header"} => g = 6
    /\ gp = "row" => g = Start(pr, k)
    /\ gp = "init" => g = Start(pr, k) + 4
    /\ gp = "count" => g = Start(pr, k) + InitLen(pr, k) + 4
    /\ gp = "control" => g = Start(pr, k) + InitLen(pr, k) + 7
    /\ gp = "kernel" => g = Start(pr, k) + InitLen(pr, k) + 9
    /\ gp = "close" => g = Start(pr, k) + InitLen(pr, k) + KernelLen(pr, k) + 9
    /\ gp \in {"shutdown", "off"} => g = Total(pr)

\* What each statement prints, ...
InitText(pr, k) == IF k \in pr.init THEN <<txt, sp, txt, nl>> ELSE <<>>
KernelText(pr, k) == IF k \in pr.kernel THEN <<txt>> ELSE <<>>

\* Two adjacent pieces are one, and a line is one.
LEMMA PieceConcat ==
    ASSUME NEW pr, NEW s, NEW t, NEW h, NEW m, NEW g, Piece(pr, s, h, m), Piece(pr, t, m, g)
    PROVE  Piece(pr, s \o t, h, g)
  <1>1. /\ s \in Seq(Atoms) /\ t \in Seq(Atoms) /\ h \in Nat /\ m \in Nat /\ g \in Nat
        /\ m = h + Len(s) /\ g = m + Len(t) /\ Len(s) \in Nat /\ Len(t) \in Nat
    BY DEF Piece
  <1>2. /\ \A i \in 1 .. Len(s) : s[i] = Text(pr, h + i)
        /\ \A i \in 1 .. Len(t) : t[i] = Text(pr, m + i)
    BY DEF Piece
  <1> DEFINE u == s \o t
  <1>3. /\ u \in Seq(Atoms) /\ Len(u) = Len(s) + Len(t)
        /\ \A i \in 1 .. Len(s) + Len(t) : u[i] = IF i <= Len(s) THEN s[i] ELSE t[i - Len(s)]
    BY <1>1, ConcatProperties
  <1> HIDE DEF u
  <1>4. ASSUME NEW i \in 1 .. Len(u)
        PROVE  u[i] = Text(pr, h + i)
    <2>1. CASE i <= Len(s)
      <3>1. i \in 1 .. Len(s) /\ i \in 1 .. Len(s) + Len(t)
        BY <2>1, <1>1, <1>3
      <3> QED  BY <2>1, <3>1, <1>2, <1>3
    <2>2. CASE ~(i <= Len(s))
      <3>1. i - Len(s) \in 1 .. Len(t) /\ i \in 1 .. Len(s) + Len(t)
        BY <2>2, <1>1, <1>3
      <3>2. m + (i - Len(s)) = h + i
        BY <3>1, <1>1
      <3> QED  BY <2>2, <3>1, <3>2, <1>2, <1>3
    <2> QED  BY <2>1, <2>2
  <1>5. g = h + Len(u)
    BY <1>1, <1>3
  <1> QED
    BY <1>1, <1>3, <1>4, <1>5 DEF Piece, u

\* A line.
LEMMA LinePiece ==
    ASSUME NEW pr, NEW line, NEW a, LineAt(pr, line, a), OneLine(line)
    PROVE  Piece(pr, line, a, a + Len(line))
  <1>1. line \in Seq(Atoms) /\ a \in Nat /\ Len(line) \in Nat
    BY DEF OneLine, LineAt
  <1> QED
    BY <1>1 DEF Piece, LineAt

\* ... which is the next piece of the text: before the benchmarks, ...
LEMMA OpeningPieces ==
    ASSUME NEW pr
    PROVE  /\ Piece(pr, <<txt, sp, txt, nl>>, 0, 4)
           /\ Piece(pr, StarLine, 4, 6)
           /\ Piece(pr, <<txt, sp, txt, sp, txt, nl>> \o BeginLine, 6, 18)
  <1>1. /\ LineAt(pr, BootLine, 0) /\ LineAt(pr, StarLine, 4) /\ LineAt(pr, TitleLine, 6)
        /\ LineAt(pr, BeginLine, 12)
    BY LinesAt
  <1>2. /\ 0 + Len(BootLine) = 4 /\ 4 + Len(StarLine) = 6 /\ 6 + Len(TitleLine) = 12
        /\ 12 + Len(BeginLine) = 18
    BY DEF BootLine, StarLine, TitleLine, BeginLine
  <1>3. /\ Piece(pr, BootLine, 0, 0 + Len(BootLine)) /\ Piece(pr, StarLine, 4, 4 + Len(StarLine))
        /\ Piece(pr, TitleLine, 6, 6 + Len(TitleLine))
        /\ Piece(pr, BeginLine, 12, 12 + Len(BeginLine))
    BY <1>1, Lines, LinePiece, Zenon
  <1>4. /\ Piece(pr, BootLine, 0, 4) /\ Piece(pr, StarLine, 4, 6)
        /\ Piece(pr, TitleLine, 6, 12) /\ Piece(pr, BeginLine, 12, 18)
    BY <1>2, <1>3, Zenon
  <1>5. Piece(pr, TitleLine \o BeginLine, 6, 18)
    BY <1>4, PieceConcat
  <1> QED
    BY <1>4, <1>5, Zenon DEF BootLine, TitleLine

\* ... for benchmark k, ...
LEMMA BenchPieces ==
    ASSUME NEW pr, NEW k \in 1 .. NBench, NEW s, s = Start(pr, k),
           NEW i, i = InitLen(pr, k), NEW e, e = KernelLen(pr, k)
    PROVE  /\ Piece(pr, <<Mark("category", k), sp, Mark("name", k), sp>>, s, s + 4)
           /\ Piece(pr, InitText(pr, k), s + 4, s + i + 4)
           /\ Piece(pr, <<Mark("number", k), sp, Mark("{", k)>>, s + i + 4, s + i + 7)
           /\ Piece(pr, <<Mark("}", k), Mark("[", k)>>, s + i + 7, s + i + 9)
           /\ Piece(pr, KernelText(pr, k), s + i + 9, s + i + e + 9)
           /\ Piece(pr, <<Mark("]", k), nl>>, s + i + e + 9, Start(pr, k + 1))
  <1>0. s \in Nat /\ i \in {0, 4} /\ e \in {0, 1}
    BY SessionAssumption, StartNat DEF InitLen, KernelLen
  <1>1. /\ Text(pr, s + 1) = Mark("category", k) /\ Text(pr, s + 2) = sp
        /\ Text(pr, s + 3) = Mark("name", k) /\ Text(pr, s + 4) = sp
        /\ i = 4 => /\ Text(pr, s + 5) = txt /\ Text(pr, s + 6) = sp
                    /\ Text(pr, s + 7) = txt /\ Text(pr, s + 8) = nl
        /\ Text(pr, s + i + 5) = Mark("number", k) /\ Text(pr, s + i + 6) = sp
        /\ Text(pr, s + i + 7) = Mark(LBrace, k) /\ Text(pr, s + i + 8) = Mark(RBrace, k)
        /\ Text(pr, s + i + 9) = Mark("[", k)
        /\ e = 1 => Text(pr, s + i + 10) = txt
        /\ Text(pr, s + i + e + 10) = Mark("]", k) /\ Text(pr, s + i + e + 11) = nl
    BY BenchText, Zenon DEF LBrace, RBrace
  <1>2. LBrace \in Chars /\ RBrace \in Chars
    BY Zenon DEF LBrace, RBrace, Chars
  <1>3. {"category", "name", "number", "[", "]"} \subseteq Chars
    BY Zenon DEF Chars
  <1>4. {txt, sp, nl, Mark("category", k), Mark("name", k), Mark("number", k), Mark("[", k),
         Mark("]", k), Mark(LBrace, k), Mark(RBrace, k)} \subseteq Atoms
    BY <1>2, <1>3, AtomFacts
  <1>5. Piece(pr, <<Mark("category", k), sp, Mark("name", k), sp>>, s, s + 4)
    BY <1>0, <1>1, <1>4 DEF Piece
  <1>6. Piece(pr, InitText(pr, k), s + 4, s + i + 4)
    <2>1. CASE k \in pr.init
      <3>1. i = 4 /\ InitText(pr, k) = <<txt, sp, txt, nl>>
        BY <2>1 DEF InitLen, InitText
      <3>2. Piece(pr, <<txt, sp, txt, nl>>, s + 4, s + 8)
        BY <3>1, <1>0, <1>1, <1>4 DEF Piece
      <3>3. s + i + 4 = s + 8
        BY <3>1, <1>0
      <3> QED  BY <3>1, <3>2, <3>3
    <2>2. CASE k \notin pr.init
      <3>1. s + i + 4 = s + 4 /\ s + 4 \in Nat /\ InitText(pr, k) = <<>>
        BY <2>2, <1>0 DEF InitLen, InitText
      <3> QED  BY <3>1, EmptyPiece
    <2> QED  BY <2>1, <2>2
  <1>7. Piece(pr, <<Mark("number", k), sp, Mark(LBrace, k)>>, s + i + 4, s + i + 7)
    <2>1. PICK j \in Nat : j = s + i
      BY <1>0
    <2>2. /\ Text(pr, j + 5) = Mark("number", k) /\ Text(pr, j + 6) = sp
          /\ Text(pr, j + 7) = Mark(LBrace, k)
      BY <1>1, <2>1
    <2>3. Piece(pr, <<Mark("number", k), sp, Mark(LBrace, k)>>, j + 4, j + 7)
      BY <1>4, <2>2 DEF Piece
    <2> QED  BY <2>1, <2>3
  <1>8. Piece(pr, <<Mark(RBrace, k), Mark("[", k)>>, s + i + 7, s + i + 9)
    <2>1. PICK j \in Nat : j = s + i
      BY <1>0
    <2>2. Text(pr, j + 8) = Mark(RBrace, k) /\ Text(pr, j + 9) = Mark("[", k)
      BY <1>1, <2>1
    <2>3. Piece(pr, <<Mark(RBrace, k), Mark("[", k)>>, j + 7, j + 9)
      BY <1>4, <2>2 DEF Piece
    <2> QED  BY <2>1, <2>3
  <1>9. Piece(pr, KernelText(pr, k), s + i + 9, s + i + e + 9)
    <2>1. PICK j \in Nat : j = s + i
      BY <1>0
    <2>2. CASE k \in pr.kernel
      <3>1. e = 1 /\ KernelText(pr, k) = <<txt>>
        BY <2>2 DEF KernelLen, KernelText
      <3>2. Text(pr, j + 10) = txt
        BY <1>1, <2>1, <3>1
      <3>3. Piece(pr, <<txt>>, j + 9, j + 10)
        BY <1>4, <3>2 DEF Piece
      <3>4. s + i + 9 = j + 9 /\ s + i + e + 9 = j + 10
        BY <1>0, <2>1, <3>1
      <3> QED  BY <3>1, <3>3, <3>4
    <2>3. CASE k \notin pr.kernel
      <3>1. s + i + e + 9 = s + i + 9 /\ s + i + 9 \in Nat /\ KernelText(pr, k) = <<>>
        BY <2>3, <1>0 DEF KernelLen, KernelText
      <3> QED  BY <3>1, EmptyPiece
    <2> QED  BY <2>2, <2>3
  <1>10. Piece(pr, <<Mark("]", k), nl>>, s + i + e + 9, Start(pr, k + 1))
    <2>1. PICK j \in Nat : j = s + i + e
      BY <1>0
    <2>2. Text(pr, j + 10) = Mark("]", k) /\ Text(pr, j + 11) = nl
      BY <1>1, <2>1
    <2>3. Piece(pr, <<Mark("]", k), nl>>, j + 9, j + 11)
      BY <1>4, <2>2 DEF Piece
    <2>4. Start(pr, k + 1) = j + 11
      <3>1. k \in Nat \ {0}
        BY SessionAssumption
      <3>2. Start(pr, k + 1) = s + 11 + i + e
        BY <3>1, StartNext
      <3> QED  BY <1>0, <2>1, <3>2
    <2> QED  BY <2>1, <2>3, <2>4
  <1> QED
    BY <1>5, <1>6, <1>7, <1>8, <1>9, <1>10, Zenon DEF LBrace, RBrace

\* ... and after them.
LEMMA EndPiece ==
    ASSUME NEW pr
    PROVE  Piece(pr, EndLine \o EndLine, Last(pr), Total(pr))
  <1>1. LineAt(pr, EndLine, Last(pr)) /\ LineAt(pr, EndLine, Last(pr) + 6) /\ OneLine(EndLine)
    BY LinesAt, Lines
  <1>2. Last(pr) \in Nat /\ Len(EndLine) = 6
    BY LastFacts DEF EndLine
  <1>3. Last(pr) + Len(EndLine) = Last(pr) + 6 /\ Last(pr) + 6 + Len(EndLine) = Total(pr)
    BY <1>2 DEF Total
  <1>4. /\ Piece(pr, EndLine, Last(pr), Last(pr) + Len(EndLine))
        /\ Piece(pr, EndLine, Last(pr) + 6, Last(pr) + 6 + Len(EndLine))
    BY <1>1, LinePiece
  <1>5. Piece(pr, EndLine, Last(pr), Last(pr) + 6) /\ Piece(pr, EndLine, Last(pr) + 6, Total(pr))
    BY <1>3, <1>4, Zenon
  <1> QED
    BY <1>5, PieceConcat

-----------------------------------------------------------------------------
(* The inductive invariant. *)

GuestType ==
    /\ prints \in Printing
    /\ gpc \in {"star", "rdtsc", "wait", "header", "row", "init", "count", "control",
                "kernel", "close", "shutdown", "off"}
    /\ b \in 1 .. NBench + 1
    /\ gpc \in {"star", "rdtsc", "wait", "header"} => b = 1
    /\ gpc \in {"init", "count", "control", "kernel", "close"} => b <= NBench
    /\ gpc = "off" => closed /\ out = <<>>
    /\ out \in Seq(Atoms)
    /\ tty \in Seq(Atoms) /\ Len(tty) <= PipeSize
    /\ lost \in Nat /\ whole \in 0 .. NBench
    /\ closed \in BOOLEAN

WaitType ==
    tsc \in 0 .. LowWord - 1 /\ cycles1 \in 0 .. LowWord - 1 /\ elapsed \in 0 .. PinWait

HostType ==
    /\ hpc \in {"star", "pin", "begin", "scan", "word", "blank", "control", "in_control",
                "kernel", "in_kernel", "report", "end", "exit"}
    /\ args \in Words /\ Len(args) <= 3
    /\ hpc = "word" => Len(args) \in 1 .. 2
    /\ stamp \in StampFns
    /\ pinned \in BOOLEAN /\ ended \in BOOLEAN

\* Up to position m the text has the "]" of benchmark w.
Taken(pr, w, m) == w = 0 \/ Start(pr, w + 1) <= m + 1

\* s begins with the text from behind position h up to position m.
Front(pr, s, h, m) ==
    /\ s \in Seq(Atoms) /\ h \in Nat /\ m \in Nat /\ h <= m /\ m <= h + Len(s)
    /\ \A i \in 1 .. m - h : s[i] = Text(pr, h + i)

\* In step, at these positions of the text: the host has done what it does up
\* to h, the line holds the text from there to m and, when nothing has been
\* lost, the string being sent is the next piece, up to what the harness has
\* printed.  Otherwise what follows m in the line is anything, and the register
\* that is overwritten is behind m.
At(h, m, g) ==
    /\ HostAt(prints, h, hpc, buf, args, stamp, rows)
    /\ Taken(prints, whole, m)
    /\ \/ /\ lost = 0
          /\ Piece(prints, tty, h, m) /\ Piece(prints, out, m, g)
          /\ Emitted(prints, gpc, b, g)
       \/ lost # 0 /\ Front(prints, tty, h, m) /\ m < h + PipeSize

InStep == \E h, m, g : At(h, m, g)

\* The host has read beyond what was lost, with a row for each benchmark before.
Passed ==
    /\ lost # 0 /\ rows \in Seq(Row) /\ whole <= Len(rows)
    /\ \A j \in 1 .. whole : rows[j] = RowOf(j)

\* The rows are right, but for the stamps of the last.
Nearly(ro) ==
    \E n \in 0 .. NBench :
        /\ ro \in Seq(Row) /\ Len(ro) = n
        /\ \A j \in 1 .. n : ro[j] = RowOf(j) \/ (j = n /\ ro[j].args = RowOf(j).args)

\* The input has ended before the harness did.
CutOff ==
    /\ Eof /\ gpc # "off" /\ lost = 0 /\ Nearly(rows) /\ whole <= Len(rows)
    /\ \/ hpc \in {"begin", "scan", "end", "exit"}
       \/ /\ hpc \in {"control", "kernel", "report"}
          /\ \E k \in 1 .. NBench : Right(rows, k - 1) /\ args = Arg3(k)

\* An init() has printed where the host expects a number.
Astray ==
    prints.init # {} /\ hpc \in {"end", "exit"} /\ \E n \in 0 .. NBench : Right(rows, n)

\* The host has seen the end.
Complete == hpc = "exit" /\ ended /\ Right(rows, NBench)

Phase == InStep \/ Passed \/ CutOff \/ Astray \/ Complete

IInv == GuestType /\ WaitType /\ HostType /\ Phase

\* It holds when the harness and the host start.
LEMMA InitInv == Init => IInv
  <1> SUFFICES ASSUME Init PROVE IInv
    OBVIOUS
  <1>0. NBench \in Nat \ {0} /\ PipeSize \in Nat \ {0}
        /\ LowWord \in Nat /\ PinWait \in Nat /\ PollMax \in Nat \ {0} /\ PollMax <= LowWord
    BY SessionAssumption
  <1>1. Piece(prints, out, 0, 4)
    BY OpeningPieces DEF Init
  <1>2. out \in Seq(Atoms)
    BY <1>1 DEF Piece
  <1>3. GuestType
    <2>1. prints \in Printing /\ gpc = "star" /\ b = 1 /\ tty = <<>>
      BY DEF Init
    <2>2. closed \in BOOLEAN
      BY DEF Init
    <2>3. tty \in Seq(Atoms) /\ Len(tty) <= PipeSize /\ b \in 1 .. NBench + 1
      BY <1>0, <2>1
    <2>4. lost \in Nat /\ whole \in 0 .. NBench
      BY <1>0 DEF Init
    <2> QED  BY <1>2, <2>1, <2>2, <2>3, <2>4 DEF GuestType
  <1>4. WaitType
    BY <1>0 DEF Init, WaitType
  <1>5. HostType
    <2>1. <<>> \in Words /\ Len(<<>>) = 0
      BY DEF Words
    <2>2. stamp \in StampFns
      BY <1>0 DEF Init, StampFns
    <2>3. pinned \in BOOLEAN /\ ended \in BOOLEAN
      BY DEF Init
    <2>4. hpc = "star" /\ args = <<>>
      BY DEF Init
    <2> QED  BY <2>1, <2>2, <2>3, <2>4 DEF HostType
  <1>6. Piece(prints, tty, 0, 0)
    BY EmptyPiece DEF Init
  <1>7. HostAt(prints, 0, hpc, buf, args, stamp, rows)
    <2>1. Right(rows, 0)
      <3>1. rows = <<>> /\ 1 .. 0 = {}
        BY DEF Init
      <3>2. <<>> \in Seq(Row) /\ Len(<<>>) = 0
        OBVIOUS
      <3> QED  BY <3>1, <3>2 DEF Right
    <2>2. Reading(0, <<>>, BootLine, 0)
      BY ReadingStarts, Lines
    <2>3. Opening(0, hpc, buf, args, rows)
      BY <2>1, <2>2 DEF Init, Opening
    <2> QED  BY <2>3, Zenon DEF HostAt
  <1>8. Emitted(prints, gpc, b, 4)
    BY DEF Init, Emitted
  <1>9. InStep
    <2>1. lost = 0 /\ Taken(prints, whole, 0)
      BY DEF Init, Taken
    <2>2. At(0, 0, 4)
      BY <1>1, <1>6, <1>7, <1>8, <2>1 DEF At
    <2> QED  BY <2>2, Zenon DEF InStep
  <1> QED
    BY <1>3, <1>4, <1>5, <1>9 DEF IInv, Phase

\* The harness prints the next piece of the text: the two stay in step, and
\* nothing else changes for the host.
LEMMA PrintsPhase ==
    ASSUME Phase, NEW from, NEW text, NEW to, Prints(from, text, to),
           \A g \in Nat : Emitted(prints, gpc, b, g) =>
               \E g1 : Piece(prints, text, g, g1) /\ Emitted(prints, to, b', g1)
    PROVE  Phase'
  <1>1. /\ ~closed /\ out = <<>> /\ gpc' = to /\ out' = text
        /\ UNCHANGED <<prints, tty, lost, whole, closed, hpc, buf, args, stamp, rows, pinned, ended>>
    BY DEF Prints, hostVars, lineVars
  <1>2. CASE InStep
    <2>1. PICK h, m, g : At(h, m, g)
      BY <1>2 DEF InStep
    <2>2. HostAt(prints', h, hpc', buf', args', stamp', rows') /\ Taken(prints', whole', m)
      BY <1>1, <2>1 DEF At
    <2>3. CASE lost = 0
      <3>1. Piece(prints, tty, h, m) /\ Piece(prints, out, m, g) /\ Emitted(prints, gpc, b, g)
        BY <2>1, <2>3 DEF At
      <3>2. m = g /\ g \in Nat
        BY <1>1, <3>1, PieceEmpty DEF Piece
      <3>3. PICK g1 : Piece(prints, text, g, g1) /\ Emitted(prints, to, b', g1)
        BY <3>1, <3>2
      <3>4. Piece(prints', tty', h, m) /\ Piece(prints', out', m, g1)
        BY <1>1, <3>1, <3>2, <3>3
      <3>5. Emitted(prints', gpc', b', g1) /\ lost' = 0
        BY <1>1, <2>3, <3>3
      <3>6. At(h, m, g1)'
        BY <2>2, <3>4, <3>5 DEF At
      <3> QED  BY <3>6, Zenon DEF InStep, Phase
    <2>4. CASE lost # 0
      <3>1. lost' # 0 /\ Front(prints', tty', h, m) /\ m < h + PipeSize
        BY <1>1, <2>1, <2>4 DEF At
      <3>2. At(h, m, g)'
        BY <2>2, <3>1 DEF At
      <3> QED  BY <3>2, Zenon DEF InStep, Phase
    <2> QED  BY <2>3, <2>4
  <1>3. CASE CutOff
    BY <1>1, <1>3 DEF CutOff, Eof
  <1>4. CASE Astray
    <2>1. Astray'
      BY <1>1, <1>4 DEF Astray
    <2> QED  BY <2>1 DEF Phase
  <1>5. CASE Complete
    <2>1. Complete'
      BY <1>1, <1>5 DEF Complete
    <2> QED  BY <2>1 DEF Phase
  <1>6. CASE Passed
    <2>1. Passed'
      BY <1>1, <1>6 DEF Passed
    <2> QED  BY <2>1 DEF Phase
  <1> QED
    BY <1>2, <1>3, <1>4, <1>5, <1>6 DEF Phase

\* A statement of the harness keeps the types.
LEMMA PrintsTypes ==
    ASSUME GuestType, HostType, NEW from, NEW text \in Seq(Atoms), NEW to, Prints(from, text, to),
           to \in {"rdtsc", "wait", "header", "row", "init", "count", "control", "kernel", "close",
                   "shutdown"},
           b' \in 1 .. NBench + 1,
           to \in {"rdtsc", "wait", "header"} => b' = 1,
           to \in {"init", "count", "control", "kernel", "close"} => b' <= NBench
    PROVE  GuestType' /\ HostType'
  <1>1. /\ gpc' = to /\ out' = text
        /\ UNCHANGED <<prints, tty, lost, whole, closed, hpc, buf, args, stamp, rows, pinned, ended>>
    BY DEF Prints, hostVars, lineVars
  <1>2. GuestType'
    BY <1>1 DEF GuestType
  <1>3. HostType'
    BY <1>1 DEF HostType
  <1> QED
    BY <1>2, <1>3

\* What ends a benchmark, and what does not.
LEMMA ClosesFacts ==
    /\ ~Closes(sp) /\ ~Closes(nl) /\ ~Closes(txt)
    /\ \A c : ~Closes(Atom(c))
    /\ \A c, k : Closes(Mark(c, k)) <=> c = "]" /\ k # 0
    /\ \A x : Closes(x) => x.of # 0
    /\ \A c, k : Mark(c, k).of = k
  BY DEF Closes, sp, nl, txt, Atom, Mark

\* Every position of the text before the last lines belongs to a benchmark or
\* to the prologue.
LEMMA AroundExists ==
    ASSUME NEW pr, NEW n \in Nat \ {0}, n <= Last(pr)
    PROVE  \E j \in 0 .. NBench : Around(pr, n, j)
  <1>0. NBench \in Nat
    BY SessionAssumption
  <1> DEFINE P == {k \in Nat : n <= Start(pr, k) => \E j \in Nat : j < k /\ Around(pr, n, j)}
  <1>1. 0 \in P
    BY StartFirst
  <1>2. ASSUME NEW k \in Nat, k \in P
        PROVE  k + 1 \in P
    <2>1. Start(pr, k) \in Nat
      BY StartNat
    <2>2. ASSUME n <= Start(pr, k + 1)
          PROVE  \E j \in Nat : j < k + 1 /\ Around(pr, n, j)
      <3>1. CASE n <= Start(pr, k)
        <4>1. PICK j \in Nat : j < k /\ Around(pr, n, j)
          BY <1>2, <3>1
        <4>2. j < k + 1
          BY <4>1
        <4> QED  BY <4>1, <4>2
      <3>2. CASE ~(n <= Start(pr, k))
        <4>1. Start(pr, k) < n
          BY <2>1, <3>2
        <4>2. Around(pr, n, k)
          BY <2>2, <4>1 DEF Around
        <4> QED  BY <4>2
      <3> QED  BY <3>1, <3>2
    <2> QED  BY <2>2
  <1>3. Nat \subseteq P
    <2> HIDE DEF P
    <2> QED  BY <1>1, <1>2, SetInduction
  <1>4. NBench + 1 \in P
    BY <1>0, <1>3
  <1>5. PICK j \in Nat : j < NBench + 1 /\ Around(pr, n, j)
    BY <1>4 DEF Last
  <1>6. j \in 0 .. NBench
    BY <1>0, <1>5
  <1> QED
    BY <1>5, <1>6

\* The "]" of a benchmark is the atom before the last of its line.
LEMMA ClosesAt ==
    ASSUME NEW pr, NEW n \in Nat \ {0}, n <= Total(pr), Closes(Text(pr, n))
    PROVE  Text(pr, n).of \in 1 .. NBench /\ n + 1 = Start(pr, Text(pr, n).of + 1)
  <1>0. NBench \in Nat \ {0} /\ Last(pr) \in Nat
    BY SessionAssumption, LastFacts
  <1>1. n <= Last(pr)
    <2> SUFFICES ASSUME n > Last(pr) PROVE FALSE
      BY <1>0
    <2>1. PICK o : o = n - Last(pr)
      OBVIOUS
    <2>2. o \in 1 .. 12 /\ n = Last(pr) + o
      BY <1>0, <2>1 DEF Total
    <2>3. Text(pr, n) = Epilogue[o]
      BY <2>2, TextEpilogue
    <2>4. Epilogue[o] \in {Atom("["), Atom("BENCHMARKS"), sp, Atom("END"), Atom("]"), nl}
      BY <2>2 DEF Epilogue
    <2> QED  BY <2>3, <2>4, ClosesFacts
  <1>2. PICK k \in 0 .. NBench : Around(pr, n, k)
    BY <1>1, AroundExists
  <1>3. k # 0
    <2> SUFFICES ASSUME k = 0 PROVE FALSE
      OBVIOUS
    <2>1. n \in 1 .. 18
      BY <1>2, StartFirst DEF Around
    <2>2. Text(pr, n) = Prologue[n]
      BY <2>1, TextPrologue
    <2>3. Prologue[n] \in {txt, sp, nl, Atom("*"), Atom("["), Atom("BENCHMARKS"), Atom("BEGIN"),
                           Atom("]")}
      BY <2>1 DEF Prologue
    <2> QED  BY <2>2, <2>3, ClosesFacts
  <1>4. k \in 1 .. NBench /\ k \in Nat \ {0}
    BY <1>0, <1>3
  <1>5. PICK s, i, e : s = Start(pr, k) /\ i = InitLen(pr, k) /\ e = KernelLen(pr, k)
    OBVIOUS
  <1>6. s \in Nat /\ i \in {0, 4} /\ e \in {0, 1} /\ Start(pr, k + 1) = s + 11 + i + e
    BY <1>4, <1>5, StartNat, StartNext DEF InitLen, KernelLen
  <1>7. /\ Text(pr, s + 1) = Mark("category", k) /\ Text(pr, s + 2) = sp
        /\ Text(pr, s + 3) = Mark("name", k) /\ Text(pr, s + 4) = sp
        /\ i = 4 => /\ Text(pr, s + 5) = txt /\ Text(pr, s + 6) = sp
                    /\ Text(pr, s + 7) = txt /\ Text(pr, s + 8) = nl
        /\ Text(pr, s + i + 5) = Mark("number", k) /\ Text(pr, s + i + 6) = sp
        /\ Text(pr, s + i + 7) = Mark(LBrace, k) /\ Text(pr, s + i + 8) = Mark(RBrace, k)
        /\ Text(pr, s + i + 9) = Mark("[", k)
        /\ e = 1 => Text(pr, s + i + 10) = txt
        /\ Text(pr, s + i + e + 10) = Mark("]", k) /\ Text(pr, s + i + e + 11) = nl
    BY <1>4, <1>5, BenchText, Zenon DEF LBrace, RBrace
  <1>8. /\ ~Closes(Mark("category", k)) /\ ~Closes(Mark("name", k)) /\ ~Closes(Mark("number", k))
        /\ ~Closes(Mark("[", k)) /\ ~Closes(sp) /\ ~Closes(nl) /\ ~Closes(txt)
        /\ Mark("]", k).of = k
    BY ClosesFacts
  <1>9. ~Closes(Mark(LBrace, k)) /\ ~Closes(Mark(RBrace, k))
    <2>1. LBrace # "]" /\ RBrace # "]"
      BY Zenon DEF LBrace, RBrace
    <2> QED  BY <2>1, ClosesFacts
  <1>10. n > s /\ n <= s + 11 + i + e
    BY <1>2, <1>5, <1>6 DEF Around
  <1>11. n = s + i + e + 10
    <2>1. CASE n <= s + i + 4
      <3>1. \/ n \in {s + 1, s + 2, s + 3, s + 4}
            \/ i = 4 /\ n \in {s + 5, s + 6, s + 7, s + 8}
        BY <1>6, <1>10, <2>1
      <3> QED  BY <1>7, <1>8, <3>1
    <2>2. CASE n > s + i + 4
      <3>1. \/ n \in {s + i + 5, s + i + 6, s + i + 7, s + i + 8, s + i + 9}
            \/ e = 1 /\ n = s + i + 10
            \/ n = s + i + e + 10 \/ n = s + i + e + 11
        BY <1>6, <1>10, <2>2
      <3> QED  BY <1>7, <1>8, <1>9, <3>1
    <2> QED  BY <1>6, <2>1, <2>2
  <1>12. Text(pr, n) = Mark("]", k)
    BY <1>7, <1>11
  <1>13. Text(pr, n).of = k
    BY <1>8, <1>12
  <1>14. n + 1 = Start(pr, k + 1)
    BY <1>6, <1>11
  <1> QED
    BY <1>4, <1>13, <1>14

\* The other way round.
LEMMA CloseOf ==
    ASSUME NEW pr, NEW k \in 1 .. NBench, NEW n \in Nat, n + 1 = Start(pr, k + 1)
    PROVE  Closes(Text(pr, n))
  <1>1. k \in Nat \ {0}
    BY SessionAssumption
  <1>2. PICK s, i, e : s = Start(pr, k) /\ i = InitLen(pr, k) /\ e = KernelLen(pr, k)
    OBVIOUS
  <1>3. s \in Nat /\ i \in {0, 4} /\ e \in {0, 1} /\ Start(pr, k + 1) = s + 11 + i + e
    BY <1>1, <1>2, StartNat, StartNext DEF InitLen, KernelLen
  <1>4. Text(pr, s + i + e + 10) = Mark("]", k)
    BY <1>2, BenchText, Zenon
  <1>5. n = s + i + e + 10
    BY <1>3
  <1>6. Closes(Mark("]", k))
    BY <1>1, ClosesFacts
  <1> QED
    BY <1>4, <1>5, <1>6

\* The harness has printed no more than the text.
LEMMA EmittedBound ==
    ASSUME GuestType, NEW g, Emitted(prints, gpc, b, g)
    PROVE  g \in Nat /\ g <= Total(prints)
  <1>0. NBench \in Nat \ {0} /\ b \in Nat \ {0}
    BY SessionAssumption DEF GuestType
  <1>1. Last(prints) \in Nat /\ 18 <= Last(prints) /\ Total(prints) = Last(prints) + 12
    BY LastFacts DEF Total
  <1>2. CASE gpc \in {"star", "rdtsc", "wait", "header", "shutdown", "off"}
    BY <1>1, <1>2 DEF Emitted
  <1>3. CASE gpc = "row"
    <2>1. Start(prints, b) \in Nat /\ Start(prints, b) <= Last(prints)
      <3>1. b <= NBench + 1 /\ NBench + 1 \in Nat
        BY <1>0 DEF GuestType
      <3> QED  BY <1>0, <3>1, StartNat, StartMonotone DEF Last
    <2> QED  BY <1>1, <1>3, <2>1 DEF Emitted
  <1>4. CASE gpc \in {"init", "count", "control", "kernel", "close"}
    <2>1. b \in 1 .. NBench
      BY <1>0, <1>4 DEF GuestType
    <2>2. PICK s, i, e : s = Start(prints, b) /\ i = InitLen(prints, b) /\ e = KernelLen(prints, b)
      OBVIOUS
    <2>3. /\ s \in Nat /\ i \in {0, 4} /\ e \in {0, 1}
          /\ Start(prints, b + 1) = s + 11 + i + e /\ Start(prints, b + 1) <= Last(prints)
      BY <1>0, <2>1, <2>2, StartNat, StartNext, LastFacts DEF InitLen, KernelLen
    <2>4. g \in {s + 4, s + i + 4, s + i + 7, s + i + 9, s + i + e + 9}
      BY <1>4, <2>2 DEF Emitted
    <2> QED  BY <1>1, <2>3, <2>4
  <1> QED
    BY <1>2, <1>3, <1>4 DEF GuestType

\* One more atom in the line: if it is a "]", one more benchmark is whole.
LEMMA TakenMore ==
    ASSUME NEW pr, NEW w \in 0 .. NBench, NEW m \in Nat, m + 1 <= Total(pr), Taken(pr, w, m),
           NEW x, x = Text(pr, m + 1)
    PROVE  Taken(pr, IF Closes(x) THEN x.of ELSE w, m + 1)
  <1>1. CASE Closes(x)
    <2>1. m + 1 + 1 = Start(pr, x.of + 1)
      BY <1>1, ClosesAt
    <2> QED  BY <1>1, <2>1 DEF Taken
  <1>2. CASE ~Closes(x)
    <2>1. CASE w = 0
      BY <1>2, <2>1 DEF Taken
    <2>2. CASE w # 0
      <3>1. Start(pr, w + 1) <= m + 1 /\ Start(pr, w + 1) \in Nat
        BY <2>2, SessionAssumption, StartNat DEF Taken
      <3>2. Start(pr, w + 1) <= m + 1 + 1
        BY <3>1
      <3> QED  BY <1>2, <3>2 DEF Taken
    <2> QED  BY <2>1, <2>2
  <1> QED
    BY <1>1, <1>2

\* One atom less: if it was a "]", one benchmark less.
LEMMA TakenLess ==
    ASSUME NEW pr, NEW w \in 0 .. NBench, NEW m \in Nat \ {0}, m <= Total(pr), Taken(pr, w, m),
           NEW x, x = Text(pr, m)
    PROVE  Taken(pr, IF Closes(x) THEN x.of - 1 ELSE w, m - 1)
  <1>0. NBench \in Nat
    BY SessionAssumption
  <1>1. CASE Closes(x)
    <2>1. PICK k : k = x.of
      OBVIOUS
    <2>2. k \in 1 .. NBench /\ m + 1 = Start(pr, k + 1)
      BY <1>1, <2>1, ClosesAt
    <2>3. Start(pr, k - 1 + 1) <= m - 1 + 1
      <3>1. k \in Nat \ {0} /\ k - 1 + 1 = k /\ Start(pr, k) \in Nat
        BY <1>0, <2>2, StartNat
      <3>2. InitLen(pr, k) \in Nat /\ KernelLen(pr, k) \in Nat
        BY DEF InitLen, KernelLen
      <3>3. Start(pr, k + 1) = Start(pr, k) + 11 + InitLen(pr, k) + KernelLen(pr, k)
        BY <3>1, StartNext
      <3> QED  BY <2>2, <3>1, <3>2, <3>3
    <2> QED  BY <1>1, <2>1, <2>3 DEF Taken
  <1>2. CASE ~Closes(x)
    <2>1. CASE w = 0
      BY <1>2, <2>1 DEF Taken
    <2>2. CASE w # 0
      <3>1. Start(pr, w + 1) <= m + 1 /\ Start(pr, w + 1) \in Nat /\ w \in 1 .. NBench
        BY <1>0, <2>2, StartNat DEF Taken
      <3>2. Start(pr, w + 1) # m + 1
        BY <1>2, <3>1, CloseOf
      <3>3. Start(pr, w + 1) <= m - 1 + 1
        BY <3>1, <3>2
      <3> QED  BY <1>2, <3>3 DEF Taken
    <2> QED  BY <2>1, <2>2
  <1> QED
    BY <1>1, <1>2

\* A whole piece is a front; what is written behind a front leaves it alone.
LEMMA FrontKept ==
    ASSUME NEW pr, NEW s, NEW h, NEW m, Front(pr, s, h, m), NEW x \in Atoms
    PROVE  /\ Front(pr, Append(s, x), h, m)
           /\ \A n \in 1 .. Len(s) : m < h + n => Front(pr, [s EXCEPT ![n] = x], h, m)
  <1>1. /\ s \in Seq(Atoms) /\ h \in Nat /\ m \in Nat /\ h <= m /\ m <= h + Len(s)
        /\ \A i \in 1 .. m - h : s[i] = Text(pr, h + i)
    BY DEF Front
  <1>2. Front(pr, Append(s, x), h, m)
    <2>1. /\ Append(s, x) \in Seq(Atoms) /\ Len(Append(s, x)) = Len(s) + 1
          /\ \A i \in 1 .. Len(s) : Append(s, x)[i] = s[i]
      BY <1>1
    <2>2. \A i \in 1 .. m - h : Append(s, x)[i] = Text(pr, h + i)
      BY <1>1, <2>1
    <2>3. m <= h + Len(Append(s, x))
      BY <1>1, <2>1
    <2> QED  BY <1>1, <2>1, <2>2, <2>3 DEF Front
  <1>3. ASSUME NEW n \in 1 .. Len(s), m < h + n
        PROVE  Front(pr, [s EXCEPT ![n] = x], h, m)
    <2> DEFINE t == [s EXCEPT ![n] = x]
    <2>1. /\ t \in Seq(Atoms) /\ Len(t) = Len(s)
          /\ \A i \in 1 .. Len(s) : i # n => t[i] = s[i]
      BY <1>1, <1>3
    <2> HIDE DEF t
    <2>2. ASSUME NEW i \in 1 .. m - h
          PROVE  t[i] = Text(pr, h + i)
      <3>1. i \in 1 .. Len(s) /\ i # n
        BY <1>1, <1>3
      <3> QED  BY <1>1, <2>1, <3>1
    <2>3. Front(pr, t, h, m)
      BY <1>1, <2>1, <2>2 DEF Front
    <2> QED  BY <2>3 DEF t
  <1> QED
    BY <1>2, <1>3

\* When the last atom of a piece is overwritten, the rest is a front.
LEMMA PieceSpoilt ==
    ASSUME NEW pr, NEW s, NEW h, NEW m, Piece(pr, s, h, m), NEW n \in Nat \ {0}, Len(s) = n,
           NEW x \in Atoms
    PROVE  /\ m \in Nat \ {0} /\ s[n] = Text(pr, m)
           /\ Front(pr, [s EXCEPT ![n] = x], h, m - 1) /\ m - 1 < h + n
  <1>1. /\ s \in Seq(Atoms) /\ h \in Nat /\ m \in Nat /\ m = h + n
        /\ \A i \in 1 .. n : s[i] = Text(pr, h + i)
    BY DEF Piece
  <1>2. Front(pr, s, h, m - 1)
    <2>1. /\ m - 1 \in Nat /\ h <= m - 1 /\ m - 1 <= h + n
          /\ \A i \in 1 .. m - 1 - h : i \in 1 .. n
      BY <1>1
    <2> QED  BY <1>1, <2>1 DEF Front
  <1>3. n \in 1 .. Len(s) /\ m - 1 < h + n
    BY <1>1
  <1>4. Front(pr, [s EXCEPT ![n] = x], h, m - 1)
    BY <1>2, <1>3, FrontKept
  <1>5. m # 0 /\ s[n] = Text(pr, m)
    BY <1>1
  <1> QED
    BY <1>1, <1>3, <1>4, <1>5

\* The port takes one atom.
LEMMA PutCharStep ==
    ASSUME IInv, PutChar
    PROVE  IInv'
  <1>0. GuestType /\ WaitType /\ HostType /\ Phase
    BY DEF IInv
  <1>1. NBench \in Nat \ {0} /\ PipeSize \in Nat \ {0}
    BY SessionAssumption
  <1>2. /\ ~closed /\ out # <<>> /\ out' = Tail(out)
        /\ UNCHANGED <<prints, gpc, b, closed, hpc, buf, args, stamp, rows, pinned, ended>>
        /\ UNCHANGED waitVars
    BY DEF PutChar, hostVars
  <1>3. /\ out \in Seq(Atoms) /\ tty \in Seq(Atoms) /\ Len(tty) <= PipeSize
        /\ lost \in Nat /\ whole \in 0 .. NBench
    BY <1>0 DEF GuestType
  <1> DEFINE x == Head(out)
  <1>4. Tail(out) \in Seq(Atoms) /\ x \in Atoms
    BY <1>2, <1>3
  <1>5. \A y \in Atoms : y.of \in 0 .. NBench /\ (Closes(y) => y.of - 1 \in 0 .. NBench)
    <2> TAKE y \in Atoms
    <2>1. y.of \in 0 .. NBench
      BY DEF Atoms
    <2>2. Closes(y) => y.of # 0
      BY ClosesFacts
    <2> QED  BY <1>1, <2>1, <2>2
  <1>6. HostType' /\ WaitType'
    BY <1>0, <1>2 DEF HostType, WaitType, waitVars
  <1> DEFINE Vanishes == hpc = "exit" /\ UNCHANGED <<tty, lost, whole>>
             Enters == /\ hpc # "exit" /\ Len(tty) < PipeSize /\ tty' = Append(tty, x)
                       /\ whole' = IF lost = 0 /\ Closes(x) THEN x.of ELSE whole
                       /\ lost' = lost
             Spoils == /\ hpc # "exit" /\ Len(tty) = PipeSize
                       /\ tty' = [tty EXCEPT ![PipeSize] = x] /\ lost' = lost + 1
                       /\ whole' = IF lost = 0 /\ Closes(tty[PipeSize])
                                   THEN tty[PipeSize].of - 1 ELSE whole
  <1>7. Vanishes \/ Enters \/ Spoils
    BY DEF PutChar
  <1> HIDE DEF x
  <1>8. GuestType'
    <2>1. /\ tty' \in Seq(Atoms) /\ Len(tty') <= PipeSize
          /\ lost' \in Nat /\ whole' \in 0 .. NBench
      <3>1. CASE Vanishes
        BY <1>3, <3>1
      <3>2. CASE Enters
        BY <1>1, <1>3, <1>4, <1>5, <3>2
      <3>3. CASE Spoils
        <4>1. PipeSize \in 1 .. Len(tty) /\ tty[PipeSize] \in Atoms
          BY <1>1, <1>3, <3>3
        <4>2. tty' \in Seq(Atoms) /\ Len(tty') = Len(tty)
          BY <1>3, <1>4, <3>3, <4>1
        <4>3. whole' \in 0 .. NBench
          BY <1>3, <1>5, <3>3, <4>1
        <4> QED  BY <1>3, <3>3, <4>2, <4>3
      <3> QED  BY <1>7, <3>1, <3>2, <3>3
    <2> QED  BY <1>0, <1>2, <1>4, <2>1 DEF GuestType
  <1>9. CASE InStep
    <2>1. PICK h, m, g : At(h, m, g)
      BY <1>9 DEF InStep
    <2>2. HostAt(prints, h, hpc, buf, args, stamp, rows) /\ Taken(prints, whole, m)
      BY <2>1 DEF At
    <2>3. hpc # "exit"
      BY <2>2 DEF HostAt, Opening, Named, Naming, Timed, Timing, Between, Ending, Misread, Closing
    <2>4. HostAt(prints', h, hpc', buf', args', stamp', rows') /\ prints' = prints
      BY <1>2, <2>2
    <2>5. CASE lost = 0
      <3>1. Piece(prints, tty, h, m) /\ Piece(prints, out, m, g) /\ Emitted(prints, gpc, b, g)
        BY <2>1, <2>5 DEF At
      <3>2. x = Text(prints, m + 1) /\ Piece(prints, Tail(out), m + 1, g)
        BY <1>2, <3>1, PieceTail DEF x
      <3>3. m \in Nat /\ m + 1 <= Total(prints) /\ m <= Total(prints)
        <4>1. g <= Total(prints) /\ Total(prints) \in Nat
          BY <1>0, <3>1, EmittedBound, LastFacts DEF Total
        <4>2. m \in Nat /\ g \in Nat /\ m + 1 <= g
          BY <3>1, <3>2 DEF Piece
        <4> QED  BY <4>1, <4>2
      <3>4. CASE Enters
        <4>1. Piece(prints, Append(tty, x), h, m + 1)
          BY <1>4, <3>1, <3>2, PieceAppend
        <4>2. Taken(prints, IF Closes(x) THEN x.of ELSE whole, m + 1)
          BY <1>3, <2>2, <3>2, <3>3, TakenMore
        <4>3. Taken(prints', whole', m + 1)
          BY <2>4, <2>5, <3>4, <4>2
        <4>4. Piece(prints', tty', h, m + 1) /\ Piece(prints', out', m + 1, g) /\ lost' = 0
          BY <1>2, <2>5, <3>2, <3>4, <4>1
        <4>5. Emitted(prints', gpc', b', g)
          BY <1>2, <3>1
        <4>6. At(h, m + 1, g)'
          BY <2>4, <4>3, <4>4, <4>5 DEF At
        <4> QED  BY <4>6, <1>6, <1>8, Zenon DEF IInv, Phase, InStep
      <3>5. CASE Spoils
        <4>1. /\ m \in Nat \ {0} /\ tty[PipeSize] = Text(prints, m)
              /\ Front(prints, [tty EXCEPT ![PipeSize] = x], h, m - 1) /\ m - 1 < h + PipeSize
          BY <1>1, <1>4, <3>1, <3>5, PieceSpoilt
        <4>2. Taken(prints, IF Closes(tty[PipeSize]) THEN tty[PipeSize].of - 1 ELSE whole, m - 1)
          BY <1>3, <2>2, <3>3, <4>1, TakenLess
        <4>3. Taken(prints', whole', m - 1)
          BY <2>4, <2>5, <3>5, <4>2
        <4>4. Front(prints', tty', h, m - 1) /\ lost' # 0
          BY <1>2, <1>3, <3>5, <4>1
        <4>5. At(h, m - 1, g)'
          BY <2>4, <4>1, <4>3, <4>4 DEF At
        <4> QED  BY <4>5, <1>6, <1>8, Zenon DEF IInv, Phase, InStep
      <3> QED  BY <1>7, <2>3, <3>4, <3>5
    <2>6. CASE lost # 0
      <3>1. Front(prints, tty, h, m) /\ m < h + PipeSize
        BY <2>1, <2>6 DEF At
      <3>2. Front(prints', tty', h, m)
        <4>1. CASE Enters
          BY <1>2, <1>4, <3>1, <4>1, FrontKept
        <4>2. CASE Spoils
          <5>1. PipeSize \in 1 .. Len(tty)
            BY <1>1, <4>2
          <5> QED  BY <1>2, <1>4, <3>1, <4>2, <5>1, FrontKept
        <4> QED  BY <1>7, <2>3, <4>1, <4>2
      <3>3. lost' # 0 /\ whole' = whole
        BY <1>3, <1>7, <2>6
      <3>4. At(h, m, g)'
        BY <2>2, <2>4, <3>1, <3>2, <3>3 DEF At
      <3> QED  BY <3>4, <1>6, <1>8, Zenon DEF IInv, Phase, InStep
    <2> QED  BY <2>5, <2>6
  <1>10. CASE Passed
    <2>1. lost' # 0 /\ whole' = whole
      BY <1>3, <1>7, <1>10 DEF Passed
    <2>2. Passed'
      BY <1>2, <1>10, <2>1 DEF Passed
    <2> QED  BY <1>6, <1>8, <2>2 DEF IInv, Phase
  <1>11. CASE CutOff
    BY <1>2, <1>11 DEF CutOff, Eof
  <1>12. CASE Astray \/ Complete
    <2>1. (Astray \/ Complete)'
      BY <1>2, <1>12 DEF Astray, Complete
    <2> QED  BY <1>6, <1>8, <2>1 DEF IInv, Phase
  <1> QED
    BY <1>0, <1>9, <1>10, <1>11, <1>12 DEF Phase

\* A step of the harness.
LEMMA GuestStep ==
    ASSUME IInv, Guest
    PROVE  IInv'
  <1>0. GuestType /\ WaitType /\ HostType /\ Phase
    BY DEF IInv
  <1>1. /\ NBench \in Nat \ {0} /\ PipeSize \in Nat \ {0} /\ LowWord \in Nat /\ PinWait \in Nat
        /\ PollMax \in Nat \ {0}
    BY SessionAssumption
  <1>2. b \in 1 .. NBench + 1
    BY <1>0 DEF GuestType
  <1>3. ASSUME NEW text, NEW to, Prints(gpc, text, to), UNCHANGED <<b, waitVars>>,
               text \in Seq(Atoms),
               to \in {"rdtsc", "wait", "header", "row", "init", "count", "control", "kernel",
                       "close", "shutdown"},
               to \in {"rdtsc", "wait", "header"} => b = 1,
               to \in {"init", "count", "control", "kernel", "close"} => b <= NBench,
               \A g \in Nat : Emitted(prints, gpc, b, g) =>
                   \E g1 : Piece(prints, text, g, g1) /\ Emitted(prints, to, b, g1)
        PROVE  IInv'
    <2>1. b' = b /\ waitVars' = waitVars
      BY <1>3
    <2>2. GuestType' /\ HostType'
      BY <1>0, <1>2, <1>3, <2>1, PrintsTypes
    <2>3. \A g \in Nat : Emitted(prints, gpc, b, g) =>
             \E g1 : Piece(prints, text, g, g1) /\ Emitted(prints, to, b', g1)
      BY <1>3, <2>1
    <2>4. Phase'
      BY <1>0, <1>3, <2>3, PrintsPhase
    <2>5. WaitType'
      BY <1>0, <2>1 DEF WaitType, waitVars
    <2> QED  BY <2>2, <2>4, <2>5 DEF IInv
  <1>4. CASE PutChar
    BY <1>4, PutCharStep
  <1>5. CASE PrintStar
    <2>1. gpc = "star" /\ Prints(gpc, StarLine, "rdtsc") /\ UNCHANGED <<b, waitVars>>
      BY <1>5 DEF PrintStar, Prints
    <2>2. b = 1
      BY <1>0, <2>1 DEF GuestType
    <2>3. \A g \in Nat : Emitted(prints, gpc, b, g) => g = 4
      BY <2>1 DEF Emitted
    <2>4. Piece(prints, StarLine, 4, 6) /\ Emitted(prints, "rdtsc", b, 6)
      BY OpeningPieces DEF Emitted
    <2>5. StarLine \in Seq(Atoms)
      BY <2>4 DEF Piece
    <2> QED  BY <1>3, <2>1, <2>2, <2>3, <2>4, <2>5
  <1>6. CASE FirstRead
    <2>1. Prints("rdtsc", <<>>, "wait") /\ gpc = "rdtsc" /\ b' = b
          /\ cycles1' = tsc /\ tsc' = tsc /\ elapsed' = elapsed
      BY <1>6 DEF FirstRead, Prints
    <2>2. b = 1
      BY <1>0, <2>1 DEF GuestType
    <2>3. \A g \in Nat : Emitted(prints, gpc, b, g) =>
             Piece(prints, <<>>, g, g) /\ Emitted(prints, "wait", b', g)
      BY <2>1, EmptyPiece DEF Emitted
    <2>4. Phase'
      BY <1>0, <2>1, <2>3, PrintsPhase
    <2>5. <<>> \in Seq(Atoms)
      OBVIOUS
    <2>6. GuestType' /\ HostType'
      BY <1>0, <1>2, <2>1, <2>2, <2>5, PrintsTypes
    <2>7. WaitType'
      BY <1>0, <2>1 DEF WaitType
    <2> QED  BY <2>4, <2>6, <2>7 DEF IInv
  <1>7. CASE Poll
    <2>1. PICK d \in 1 .. PollMax : tsc' = (tsc + d) % LowWord /\ elapsed' = MoreCycles(d)
      BY <1>7 DEF Poll
    <2>2. PICK to \in {"header", "wait"} : Prints("wait", <<>>, to)
      BY <1>7 DEF Poll
    <2>3. b' = b /\ cycles1' = cycles1 /\ gpc = "wait"
      BY <1>7, <2>2 DEF Poll, Prints
    <2>4. b = 1
      BY <1>0, <2>3 DEF GuestType
    <2>5. \A g \in Nat : Emitted(prints, gpc, b, g) =>
             Piece(prints, <<>>, g, g) /\ Emitted(prints, to, b', g)
      BY <2>2, <2>3, EmptyPiece DEF Emitted
    <2>6. Phase'
      BY <1>0, <2>2, <2>5, PrintsPhase
    <2>7. <<>> \in Seq(Atoms)
      OBVIOUS
    <2>8. GuestType' /\ HostType'
      BY <1>0, <1>2, <2>2, <2>3, <2>4, <2>7, PrintsTypes
    <2>9. WaitType'
      <3>1. tsc \in 0 .. LowWord - 1 /\ cycles1 \in 0 .. LowWord - 1 /\ elapsed \in 0 .. PinWait
        BY <1>0 DEF WaitType
      <3>2. (tsc + d) % LowWord \in 0 .. LowWord - 1
        BY <1>1, <2>1, <3>1
      <3>3. MoreCycles(d) \in 0 .. PinWait
        BY <1>1, <2>1, <3>1 DEF MoreCycles
      <3> QED  BY <2>1, <2>3, <3>1, <3>2, <3>3 DEF WaitType
    <2> QED  BY <2>6, <2>8, <2>9 DEF IInv
  <1>8. CASE PrintHeader
    <2> DEFINE text == <<txt, sp, txt, sp, txt, nl>> \o BeginLine
    <2>1. gpc = "header" /\ Prints(gpc, text, "row") /\ UNCHANGED <<b, waitVars>>
      BY <1>8 DEF PrintHeader, Prints
    <2>2. b = 1
      BY <1>0, <2>1 DEF GuestType
    <2>3. Piece(prints, text, 6, 18)
      BY OpeningPieces
    <2> HIDE DEF text
    <2>4. Emitted(prints, "row", b, 18)
      BY <2>2, StartFirst DEF Emitted
    <2>5. \A g \in Nat : Emitted(prints, gpc, b, g) => g = 6
      BY <2>1 DEF Emitted
    <2>6. text \in Seq(Atoms)
      BY <2>3 DEF Piece
    <2> QED  BY <1>3, <2>1, <2>3, <2>4, <2>5, <2>6
  <1>9. CASE PrintRow \/ RunInit \/ PrintCount \/ RunControl \/ RunKernel
    <2>1. b \in 1 .. NBench
      <3>1. (gpc = "row" /\ b <= NBench) \/ gpc \in {"init", "kernel", "count", "control"}
        <4>1. CASE PrintRow \/ RunInit \/ RunKernel
          BY <4>1 DEF PrintRow, RunInit, RunKernel, Prints
        <4>2. CASE PrintCount
          BY <4>2, Zenon DEF PrintCount, Prints
        <4>3. CASE RunControl
          BY <4>3, Zenon DEF RunControl, Prints
        <4> QED  BY <1>9, <4>1, <4>2, <4>3
      <3> QED  BY <1>0, <1>1, <1>2, <3>1 DEF GuestType
    <2>2. PICK s, i, e : s = Start(prints, b) /\ i = InitLen(prints, b) /\ e = KernelLen(prints, b)
      OBVIOUS
    <2>3. /\ Piece(prints, <<Mark("category", b), sp, Mark("name", b), sp>>, s, s + 4)
          /\ Piece(prints, InitText(prints, b), s + 4, s + i + 4)
          /\ Piece(prints, <<Mark("number", b), sp, Mark("{", b)>>, s + i + 4, s + i + 7)
          /\ Piece(prints, <<Mark("}", b), Mark("[", b)>>, s + i + 7, s + i + 9)
          /\ Piece(prints, KernelText(prints, b), s + i + 9, s + i + e + 9)
      BY <2>1, <2>2, BenchPieces, Zenon
    <2>4. PICK text, to :
             /\ Prints(gpc, text, to) /\ UNCHANGED <<b, waitVars>>
             /\ to \in {"init", "count", "control", "kernel", "close"}
             /\ \A g \in Nat : Emitted(prints, gpc, b, g) =>
                   \E g1 : Piece(prints, text, g, g1) /\ Emitted(prints, to, b, g1)
             /\ \E g, g1 : Piece(prints, text, g, g1)
      <3>1. CASE PrintRow
        <4> DEFINE text == <<Mark("category", b), sp, Mark("name", b), sp>>
        <4>1. gpc = "row" /\ Prints(gpc, text, "init") /\ UNCHANGED <<b, waitVars>>
          BY <3>1 DEF PrintRow, Prints
        <4>2. Piece(prints, text, s, s + 4)
          BY <2>3
        <4> HIDE DEF text
        <4>3. Emitted(prints, "init", b, s + 4)
          BY <2>2 DEF Emitted
        <4>4. \A g \in Nat : Emitted(prints, gpc, b, g) => g = s
          BY <2>2, <4>1 DEF Emitted
        <4> QED  BY <4>1, <4>2, <4>3, <4>4
      <3>2. CASE RunInit
        <4>1. gpc = "init" /\ Prints(gpc, InitText(prints, b), "count") /\ UNCHANGED <<b, waitVars>>
          BY <3>2 DEF RunInit, Prints, InitText
        <4>2. Emitted(prints, "count", b, s + i + 4)
          BY <2>2 DEF Emitted
        <4>3. \A g \in Nat : Emitted(prints, gpc, b, g) => g = s + 4
          BY <2>2, <4>1 DEF Emitted
        <4> QED  BY <2>3, <4>1, <4>2, <4>3
      <3>3. CASE PrintCount
        <4> DEFINE text == <<Mark("number", b), sp, Mark("{", b)>>
        <4>1. gpc = "count" /\ Prints(gpc, text, "control") /\ UNCHANGED <<b, waitVars>>
          BY <3>3, Zenon DEF PrintCount, Prints
        <4>2. Piece(prints, text, s + i + 4, s + i + 7)
          BY <2>3, Zenon
        <4> HIDE DEF text
        <4>3. Emitted(prints, "control", b, s + i + 7)
          BY <2>2 DEF Emitted
        <4>4. \A g \in Nat : Emitted(prints, gpc, b, g) => g = s + i + 4
          BY <2>2, <4>1 DEF Emitted
        <4> QED  BY <4>1, <4>2, <4>3, <4>4
      <3>4. CASE RunControl
        <4> DEFINE text == <<Mark("}", b), Mark("[", b)>>
        <4>1. gpc = "control" /\ Prints(gpc, text, "kernel") /\ UNCHANGED <<b, waitVars>>
          BY <3>4, Zenon DEF RunControl, Prints
        <4>2. Piece(prints, text, s + i + 7, s + i + 9)
          BY <2>3, Zenon
        <4> HIDE DEF text
        <4>3. Emitted(prints, "kernel", b, s + i + 9)
          BY <2>2 DEF Emitted
        <4>4. \A g \in Nat : Emitted(prints, gpc, b, g) => g = s + i + 7
          BY <2>2, <4>1 DEF Emitted
        <4> QED  BY <4>1, <4>2, <4>3, <4>4
      <3>5. CASE RunKernel
        <4>1. gpc = "kernel" /\ Prints(gpc, KernelText(prints, b), "close")
              /\ UNCHANGED <<b, waitVars>>
          BY <3>5 DEF RunKernel, Prints, KernelText
        <4>2. Emitted(prints, "close", b, s + i + e + 9)
          BY <2>2 DEF Emitted
        <4>3. \A g \in Nat : Emitted(prints, gpc, b, g) => g = s + i + 9
          BY <2>2, <4>1 DEF Emitted
        <4> QED  BY <2>3, <4>1, <4>2, <4>3
      <3> QED  BY <1>9, <3>1, <3>2, <3>3, <3>4, <3>5
    <2>5. text \in Seq(Atoms)
      BY <2>4 DEF Piece
    <2>6. b <= NBench
      BY <1>1, <2>1
    <2> QED  BY <1>3, <2>4, <2>5, <2>6
  <1>10. CASE PrintClose
    <2> DEFINE text == <<Mark("]", b), nl>>
    <2>1. gpc = "close" /\ Prints(gpc, text, "row") /\ b' = b + 1 /\ UNCHANGED waitVars
      BY <1>10 DEF PrintClose, Prints
    <2>2. b \in 1 .. NBench
      BY <1>0, <1>1, <1>2, <2>1 DEF GuestType
    <2>3. PICK s, i, e : s = Start(prints, b) /\ i = InitLen(prints, b) /\ e = KernelLen(prints, b)
      OBVIOUS
    <2>4. Piece(prints, text, s + i + e + 9, Start(prints, b + 1))
      BY <2>2, <2>3, BenchPieces
    <2> HIDE DEF text
    <2>5. Emitted(prints, "row", b', Start(prints, b + 1))
      BY <2>1 DEF Emitted
    <2>6. \A g \in Nat : Emitted(prints, gpc, b, g) => g = s + i + e + 9
      BY <2>1, <2>3 DEF Emitted
    <2>7. Phase'
      BY <1>0, <2>1, <2>4, <2>5, <2>6, PrintsPhase
    <2>8. text \in Seq(Atoms) /\ b' \in 1 .. NBench + 1
      BY <1>1, <2>1, <2>2, <2>4 DEF Piece
    <2>9. GuestType' /\ HostType'
      BY <1>0, <2>1, <2>8, PrintsTypes
    <2>10. WaitType'
      BY <1>0, <2>1 DEF WaitType, waitVars
    <2> QED  BY <2>7, <2>9, <2>10 DEF IInv
  <1>11. CASE PrintEnd
    <2> DEFINE text == EndLine \o EndLine
    <2>1. gpc = "row" /\ b > NBench /\ Prints(gpc, text, "shutdown") /\ UNCHANGED <<b, waitVars>>
      BY <1>11 DEF PrintEnd, Prints
    <2>2. b = NBench + 1
      BY <1>1, <1>2, <2>1
    <2>3. Piece(prints, text, Last(prints), Total(prints))
      BY EndPiece
    <2> HIDE DEF text
    <2>4. Emitted(prints, "shutdown", b, Total(prints))
      BY DEF Emitted
    <2>5. \A g \in Nat : Emitted(prints, gpc, b, g) => g = Last(prints)
      BY <2>1, <2>2 DEF Emitted, Last
    <2>6. text \in Seq(Atoms)
      BY <2>3 DEF Piece
    <2> QED  BY <1>3, <2>1, <2>3, <2>4, <2>5, <2>6
  <1>12. CASE Shutdown
    <2>1. /\ gpc = "shutdown" /\ out = <<>> /\ closed = FALSE /\ gpc' = "off" /\ closed' = TRUE
          /\ UNCHANGED <<prints, b, out, tty, lost, whole, hpc, buf, args, stamp, rows, pinned, ended>>
          /\ UNCHANGED waitVars
      BY <1>0, <1>12 DEF Shutdown, hostVars, lineVars, GuestType
    <2>2. GuestType'
      BY <1>0, <2>1 DEF GuestType
    <2>3. HostType'
      BY <1>0, <2>1 DEF HostType
    <2>4. WaitType'
      BY <1>0, <2>1 DEF WaitType, waitVars
    <2>5. CASE InStep
      <3>1. PICK h, m, g : At(h, m, g)
        BY <2>5 DEF InStep
      <3>2. Emitted(prints, gpc, b, g) => Emitted(prints', gpc', b', g)
        BY <2>1 DEF Emitted
      <3>3. At(h, m, g)'
        BY <2>1, <3>1, <3>2 DEF At
      <3> QED  BY <2>2, <2>3, <2>4, <3>3, Zenon DEF IInv, Phase, InStep
    <2>6. CASE CutOff
      BY <2>1, <2>6 DEF CutOff, Eof
    <2>7. CASE Passed \/ Astray \/ Complete
      <3>1. (Passed \/ Astray \/ Complete)'
        BY <2>1, <2>7 DEF Passed, Astray, Complete
      <3> QED  BY <2>2, <2>3, <2>4, <3>1 DEF IInv, Phase
    <2> QED  BY <1>0, <2>5, <2>6, <2>7 DEF Phase
  <1> QED
    BY <1>4, <1>5, <1>6, <1>7, <1>8, <1>9, <1>10, <1>11, <1>12 DEF Guest

\* A step of the host leaves the harness alone and may take an atom.
HostOnly ==
    /\ UNCHANGED <<prints, gpc, b, out, tsc, cycles1, elapsed, lost, whole, closed>>
    /\ tty' = tty \/ (tty # <<>> /\ tty' = Tail(tty))

\* A step of the host leaves the guest's variables typed.
LEMMA HostOnlyTypes ==
    ASSUME GuestType, WaitType, HostOnly
    PROVE  GuestType' /\ WaitType'
  <1>1. UNCHANGED <<prints, gpc, b, out, tsc, cycles1, elapsed, lost, whole, closed>>
    BY DEF HostOnly
  <1>2. tty \in Seq(Atoms) /\ Len(tty) <= PipeSize /\ PipeSize \in Nat
    BY SessionAssumption DEF GuestType
  <1>3. tty' \in Seq(Atoms) /\ Len(tty') <= PipeSize
    BY <1>2 DEF HostOnly
  <1>4. GuestType'
    BY <1>1, <1>3 DEF GuestType
  <1>5. WaitType'
    BY <1>1 DEF WaitType
  <1> QED
    BY <1>4, <1>5

\* The atom the host takes.
LEMMA PeekAtom ==
    ASSUME GuestType, tty # <<>>
    PROVE  peek \in Atoms /\ peek.of \in 0 .. NBench
  <1>1. peek \in Atoms
    BY DEF GuestType, peek
  <1> QED
    BY <1>1 DEF Atoms

\* The braces by name.
LEMMA ControlMarks ==
    /\ ControlStart <=> TimeStart("control", LBrace, "control0", "in_control", "kernel")
    /\ ControlEnd <=> TimeEnd("in_control", RBrace, "control1", "kernel")
  BY Zenon DEF ControlStart, ControlEnd, LBrace, RBrace

\* The last word with one more atom.
Longer(ar, x) == [ar EXCEPT ![Len(ar)] = Append(@, x)]

\* Words stay words.
LEMMA WordValues ==
    ASSUME NEW ar \in Words, NEW x \in Atoms
    PROVE  /\ Append(ar, <<x>>) \in Words /\ Len(Append(ar, <<x>>)) = Len(ar) + 1
           /\ Len(ar) \in Nat /\ <<>> \in Words /\ Len(<<>>) = 0
           /\ Len(ar) # 0 => Longer(ar, x) \in Words /\ Len(Longer(ar, x)) = Len(ar)
  <1>1. <<x>> \in Seq(Atoms) /\ ar \in Seq(Seq(Atoms)) /\ Len(ar) \in Nat
    BY DEF Words
  <1>2. Append(ar, <<x>>) \in Words /\ Len(Append(ar, <<x>>)) = Len(ar) + 1
    BY <1>1 DEF Words
  <1>3. ASSUME Len(ar) # 0
        PROVE  Longer(ar, x) \in Words /\ Len(Longer(ar, x)) = Len(ar)
    <2>1. Len(ar) \in 1 .. Len(ar)
      BY <1>1, <1>3
    <2>2. ar[Len(ar)] \in Seq(Atoms)
      BY <1>1, <2>1
    <2>3. Append(ar[Len(ar)], x) \in Seq(Atoms)
      BY <2>2
    <2> QED  BY <1>1, <2>1, <2>3 DEF Words, Longer
  <1>4. <<>> \in Words /\ Len(<<>>) = 0
    BY DEF Words
  <1> QED
    BY <1>1, <1>2, <1>3, <1>4

\* Reading a line.
LEMMA ReadStartTypes ==
    ASSUME NEW from, NEW str, NEW to, NEW atEof, ReadStart(from, str, to, atEof)
    PROVE  /\ HostOnly /\ hpc' \in {from, to, atEof}
           /\ args' = args /\ stamp' = stamp /\ rows' = rows
  <1>1. /\ UNCHANGED <<prints, gpc, b, out, tsc, cycles1, elapsed, lost, whole, closed, args, stamp, rows>>
        /\ hpc = from
    BY DEF ReadStart, guestVars, waitVars, lineVars
  <1>2. hpc' \in {from, to, atEof} /\ (tty' = tty \/ (tty # <<>> /\ tty' = Tail(tty)))
    BY DEF ReadStart, Ready, getchar
  <1> QED
    BY <1>1, <1>2 DEF HostOnly

\* Taking a stamp.
LEMMA TimeStartTypes ==
    ASSUME NEW from, NEW mark, NEW s, NEW inside, NEW skip, TimeStart(from, mark, s, inside, skip),
           GuestType, stamp \in StampFns
    PROVE  /\ HostOnly /\ hpc' \in {inside, skip} /\ stamp' \in StampFns
           /\ args' = args /\ rows' = rows /\ pinned' = pinned /\ ended' = ended
  <1>1. UNCHANGED <<prints, gpc, b, out, tsc, cycles1, elapsed, lost, whole, closed, args, rows, pinned, ended>>
    BY DEF TimeStart, guestVars, waitVars, lineVars
  <1>2. hpc' \in {inside, skip} /\ (tty' = tty \/ (tty # <<>> /\ tty' = Tail(tty)))
    BY DEF TimeStart, Ready, getchar
  <1>3. stamp' = stamp \/ (tty # <<>> /\ stamp' = [stamp EXCEPT ![s] = peek.of])
    BY DEF TimeStart, Ready
  <1>4. stamp' \in StampFns
    BY <1>3, PeekAtom DEF StampFns
  <1> QED
    BY <1>1, <1>2, <1>4 DEF HostOnly

\* And the other.
LEMMA TimeEndTypes ==
    ASSUME NEW from, NEW mark, NEW s, NEW to, TimeEnd(from, mark, s, to),
           GuestType, stamp \in StampFns
    PROVE  /\ HostOnly /\ hpc' \in {from, to} /\ stamp' \in StampFns
           /\ args' = args /\ rows' = rows /\ pinned' = pinned /\ ended' = ended
  <1>1. UNCHANGED <<prints, gpc, b, out, tsc, cycles1, elapsed, lost, whole, closed, args, rows, pinned, ended>>
    BY DEF TimeEnd, guestVars, waitVars, lineVars
  <1>2. hpc' \in {from, to} /\ (tty' = tty \/ (tty # <<>> /\ tty' = Tail(tty)))
    BY DEF TimeEnd, Ready, getchar
  <1>3. stamp' = stamp \/ (tty # <<>> /\ stamp' = [stamp EXCEPT ![s] = peek.of])
    BY DEF TimeEnd, Ready
  <1>4. stamp' \in StampFns
    BY <1>3, PeekAtom DEF StampFns
  <1> QED
    BY <1>1, <1>2, <1>4 DEF HostOnly

\* fscanf().
Scan == ScanSkip \/ ScanWord \/ ScanMore \/ ScanNumber \/ ScanBlank \/ ScanFails
Marks == ControlStart \/ ControlEnd \/ KernelStart \/ KernelEnd

\* It keeps the types.
LEMMA ScanTypes ==
    ASSUME GuestType, HostType, Scan
    PROVE  HostOnly /\ HostType'
  <1>0. args \in Words /\ Len(args) <= 3 /\ stamp \in StampFns /\ Len(args) \in Nat
        /\ (hpc = "word" => Len(args) \in 1 .. 2)
    BY DEF HostType, Words
  <1>1. UNCHANGED <<prints, gpc, b, out, tsc, cycles1, elapsed, lost, whole, closed, stamp, rows, pinned, ended>>
    BY DEF Scan, ScanSkip, ScanWord, ScanMore, ScanNumber, ScanBlank, ScanFails, guestVars, waitVars,
           hostVars, lineVars
  <1>2. tty' = tty \/ (tty # <<>> /\ tty' = Tail(tty))
    BY DEF Scan, ScanSkip, ScanWord, ScanMore, ScanNumber, ScanBlank, ScanFails, Ready, getchar, lineVars
  <1>3. /\ hpc' \in {"scan", "word", "blank", "control", "end"}
        /\ args' \in Words /\ Len(args') <= 3
        /\ hpc' = "word" => Len(args') \in 1 .. 2
    <2>1. CASE ScanSkip \/ ScanBlank
      BY <1>0, <2>1 DEF ScanSkip, ScanBlank, hostVars
    <2>2. CASE ScanWord \/ ScanNumber
      <3>1. /\ tty # <<>> /\ args' = Append(args, <<peek>>)
            /\ (hpc' = "word" /\ Len(args) < 2) \/ (hpc' = "blank" /\ Len(args) = 2)
        BY <2>2 DEF ScanWord, ScanNumber, Ready
      <3>2. args' \in Words /\ Len(args') = Len(args) + 1
        BY <1>0, <3>1, PeekAtom, WordValues
      <3> QED  BY <1>0, <3>1, <3>2
    <2>3. CASE ScanMore
      <3>1. \/ args' = args /\ hpc' = "scan"
            \/ /\ tty # <<>> /\ args' = [args EXCEPT ![Len(args)] = Append(@, peek)]
               /\ hpc' = hpc /\ hpc = "word"
        BY <2>3 DEF ScanMore, Ready
      <3>2. CASE args' = args /\ hpc' = "scan"
        BY <1>0, <3>2
      <3>3. CASE /\ tty # <<>> /\ args' = [args EXCEPT ![Len(args)] = Append(@, peek)]
                 /\ hpc' = hpc /\ hpc = "word"
        <4>1. args' \in Words /\ Len(args') = Len(args)
          <5>0. tty # <<>> /\ hpc = "word"
            BY <3>3
          <5>1. Len(args) # 0 /\ peek \in Atoms
            <6>1. Len(args) # 0
              BY <1>0, <5>0
            <6>2. peek \in Atoms
              BY <5>0, PeekAtom, Zenon
            <6> QED  BY <6>1, <6>2
          <5>2. args' = Longer(args, peek)
            BY <3>3, Zenon DEF Longer
          <5> QED  BY <1>0, <5>1, <5>2, WordValues
        <4> QED  BY <1>0, <3>3, <4>1
      <3> QED  BY <3>1, <3>2, <3>3
    <2>4. CASE ScanFails
      <3>1. args' = <<>> /\ hpc' = "end"
        BY <2>4 DEF ScanFails
      <3>2. <<>> \in Words /\ Len(<<>>) = 0
        BY DEF Words
      <3> QED  BY <3>1, <3>2
    <2> QED  BY <2>1, <2>2, <2>3, <2>4 DEF Scan
  <1>4. HostType'
    BY <1>0, <1>1, <1>3 DEF HostType
  <1> QED
    BY <1>1, <1>2, <1>4 DEF HostOnly

\* So does every step of the host.
LEMMA HostTypes ==
    ASSUME GuestType, HostType, Host
    PROVE  HostOnly /\ HostType'
  <1>0. args \in Words /\ Len(args) <= 3 /\ stamp \in StampFns
    BY DEF HostType
  <1>1. pinned \in BOOLEAN /\ ended \in BOOLEAN
    BY DEF HostType
  <1>2. CASE ReadStar
    <2>1. HostOnly /\ hpc' \in {"star", "pin", "begin"} /\ args' = args /\ stamp' = stamp
      BY <1>2, ReadStartTypes DEF ReadStar
    <2>2. pinned' = pinned /\ ended' = ended
      BY <1>2 DEF ReadStar
    <2> QED  BY <1>0, <1>1, <2>1, <2>2 DEF HostType
  <1>3. CASE Pin
    <2>1. /\ UNCHANGED <<prints, gpc, b, out, tsc, cycles1, elapsed, lost, whole, closed, tty>>
          /\ hpc' = "begin" /\ args' = args /\ stamp' = stamp
      BY <1>3 DEF Pin, guestVars, waitVars, lineVars
    <2>2. pinned' = TRUE /\ ended' = ended
      BY <1>3 DEF Pin
    <2> QED  BY <1>0, <1>1, <2>1, <2>2 DEF HostType, HostOnly
  <1>4. CASE ReadBegin
    <2>1. HostOnly /\ hpc' \in {"begin", "scan", "end"} /\ args' = args /\ stamp' = stamp
      BY <1>4, ReadStartTypes DEF ReadBegin
    <2>2. pinned' = pinned /\ ended' = ended
      BY <1>4 DEF ReadBegin
    <2> QED  BY <1>0, <1>1, <2>1, <2>2 DEF HostType
  <1>5. CASE Scan
    BY <1>5, ScanTypes
  <1>6. CASE Marks
    <2>1. /\ HostOnly /\ hpc' \in {"in_control", "kernel", "in_kernel", "report"}
          /\ stamp' \in StampFns /\ args' = args
          /\ pinned' = pinned /\ ended' = ended
      <3>1. CASE ControlStart
        <4>1. TimeStart("control", LBrace, "control0", "in_control", "kernel")
          BY <3>1, ControlMarks
        <4> QED  BY <1>0, <4>1, TimeStartTypes
      <3>2. CASE ControlEnd
        <4>1. TimeEnd("in_control", RBrace, "control1", "kernel")
          BY <3>2, ControlMarks
        <4> QED  BY <1>0, <4>1, TimeEndTypes
      <3>3. CASE KernelStart
        BY <1>0, <3>3, TimeStartTypes DEF KernelStart
      <3>4. CASE KernelEnd
        BY <1>0, <3>4, TimeEndTypes DEF KernelEnd
      <3> QED  BY <1>6, <3>1, <3>2, <3>3, <3>4 DEF Marks
    <2> QED  BY <1>0, <1>1, <2>1 DEF HostType
  <1>7. CASE Report
    <2>1. /\ UNCHANGED <<prints, gpc, b, out, tsc, cycles1, elapsed, lost, whole, closed, tty>>
          /\ hpc' = "scan" /\ args' = <<>> /\ stamp' = stamp
      BY <1>7 DEF Report, guestVars, waitVars, lineVars
    <2>2. pinned' = pinned /\ ended' = ended
      BY <1>7 DEF Report
    <2>3. <<>> \in Words /\ Len(<<>>) = 0
      BY DEF Words
    <2> QED  BY <1>0, <1>1, <2>1, <2>2, <2>3 DEF HostType, HostOnly
  <1>8. CASE ReadEnd
    <2>1. HostOnly /\ hpc' \in {"end", "exit"} /\ args' = args /\ stamp' = stamp
      BY <1>8, ReadStartTypes DEF ReadEnd
    <2>2. pinned' = pinned
      BY <1>8 DEF ReadEnd
    <2>3. ended' \in BOOLEAN
      BY <1>8, Zenon DEF ReadEnd
    <2> QED  BY <1>0, <1>1, <2>1, <2>2, <2>3 DEF HostType
  <1> QED
    BY <1>2, <1>3, <1>4, <1>5, <1>6, <1>7, <1>8 DEF Host, Scan, Marks

-----------------------------------------------------------------------------
(* A step of the host, by phase. *)

\* At the end only ReadEnd is left.
LEMMA AtEnd ==
    ASSUME Host, hpc \in {"end", "exit"}
    PROVE  ReadEnd
  <1>1. ~ControlStart /\ ~ControlEnd
    BY ControlMarks DEF TimeStart, TimeEnd
  <1> QED
    BY <1>1 DEF Host, ReadStar, ReadStart, Pin, ReadBegin, ScanSkip, ScanWord, ScanMore, ScanNumber,
                ScanBlank, ScanFails, KernelStart, KernelEnd, TimeStart, TimeEnd, Report

\* Only Report adds a row.
LEMMA OnlyReport ==
    ASSUME Host
    PROVE  Report \/ (hpc # "report" /\ rows' = rows)
  <1>1. CASE ControlStart
    <2>1. TimeStart("control", LBrace, "control0", "in_control", "kernel")
      BY <1>1, ControlMarks
    <2> QED  BY <2>1 DEF TimeStart
  <1>2. CASE ControlEnd
    <2>1. TimeEnd("in_control", RBrace, "control1", "kernel")
      BY <1>2, ControlMarks
    <2> QED  BY <2>1 DEF TimeEnd
  <1>3. CASE KernelStart \/ KernelEnd
    BY <1>3 DEF KernelStart, KernelEnd, TimeStart, TimeEnd
  <1>4. CASE ReadStar \/ ReadBegin \/ ReadEnd
    BY <1>4 DEF ReadStar, ReadBegin, ReadEnd, ReadStart
  <1>5. CASE Pin
    BY <1>5 DEF Pin
  <1>6. CASE Scan
    BY <1>6 DEF Scan, ScanSkip, ScanWord, ScanMore, ScanNumber, ScanBlank, ScanFails, hostVars
  <1> QED
    BY <1>1, <1>2, <1>3, <1>4, <1>5, <1>6 DEF Host, Scan

\* Astray, the host reads to the end of its input or to the last line.
LEMMA AstrayStep ==
    ASSUME HostOnly, Astray, Host
    PROVE  Phase'
  <1>1. ReadStart("end", EndLine, "exit", "exit")
    BY AtEnd DEF Astray, ReadEnd
  <1>2. hpc' \in {"end", "exit"} /\ rows' = rows
    BY <1>1, ReadStartTypes
  <1>3. Astray'
    BY <1>2 DEF Astray, HostOnly
  <1> QED
    BY <1>3 DEF Phase

\* Behind the end it does nothing.
LEMMA CompleteStep ==
    ASSUME Complete, Host
    PROVE  FALSE
  BY AtEnd DEF Complete, ReadEnd, ReadStart

\* Right rows are nearly right, and so is one more with the right words.
LEMMA NearlyRight ==
    ASSUME NEW ro
    PROVE  /\ \A n \in 0 .. NBench : Right(ro, n) => Nearly(ro)
           /\ \A k \in 1 .. NBench, row \in Row :
                 Right(ro, k - 1) /\ row.args = Arg3(k) => Nearly(Append(ro, row))
  <1>0. NBench \in Nat
    BY SessionAssumption
  <1>1. ASSUME NEW n \in 0 .. NBench, Right(ro, n)
        PROVE  Nearly(ro)
    BY <1>1 DEF Right, Nearly
  <1>2. ASSUME NEW k \in 1 .. NBench, NEW row \in Row, Right(ro, k - 1), row.args = Arg3(k)
        PROVE  Nearly(Append(ro, row))
    <2>1. RowOf(k).args = Arg3(k)
      BY DEF RowOf, Arg3
    <2>2. k \in Nat \ {0} /\ k \in 0 .. NBench
      BY <1>0
    <2> DEFINE r == Append(ro, row)
    <2>3. /\ r \in Seq(Row) /\ Len(r) = k
          /\ \A j \in 1 .. k - 1 : r[j] = RowOf(j)
          /\ r[k] = row
      BY <1>2, <2>1, <2>2, RightGrows
    <2> HIDE DEF r
    <2>4. \A j \in 1 .. k : r[j] = RowOf(j) \/ (j = k /\ r[j].args = RowOf(j).args)
      BY <1>2, <2>1, <2>2, <2>3
    <2>5. Nearly(r)
      BY <2>2, <2>3, <2>4, Zenon DEF Nearly
    <2> QED  BY <2>5 DEF r
  <1> QED
    BY <1>1, <1>2

\* Cut off, the host reports what it has begun and stops.
LEMMA CutOffStep ==
    ASSUME GuestType, HostType, HostOnly, CutOff, Host
    PROVE  Phase'
  <1>1. tty = <<>> /\ Eof /\ ~Ready
    BY DEF CutOff, Eof, Ready
  <1>2. Eof' /\ gpc' # "off" /\ lost' = 0 /\ whole' = whole
    BY <1>1 DEF CutOff, Eof, HostOnly
  <1>3. Nearly(rows) /\ whole <= Len(rows)
    BY DEF CutOff
  <1>4. ASSUME rows' = rows, hpc' \in {"scan", "end", "exit"}
        PROVE  Phase'
    <2>1. CutOff'
      BY <1>2, <1>3, <1>4 DEF CutOff
    <2> QED  BY <2>1 DEF Phase
  <1>5. ASSUME rows' = rows, args' = args, hpc \in {"control", "kernel", "report"},
               hpc' \in {"kernel", "report"}
        PROVE  Phase'
    <2>1. CutOff'
      BY <1>2, <1>3, <1>5 DEF CutOff
    <2> QED  BY <2>1 DEF Phase
  <1>6. CASE ReadStar \/ Pin
    BY <1>6 DEF CutOff, ReadStar, ReadStart, Pin
  <1>7. CASE ReadBegin
    BY <1>1, <1>4, <1>7 DEF ReadBegin, ReadStart
  <1>8. CASE Scan
    <2>1. rows' = rows /\ hpc' \in {"scan", "end", "exit"}
      BY <1>1, <1>8 DEF CutOff, Scan, ScanSkip, ScanWord, ScanMore, ScanNumber, ScanBlank, ScanFails
    <2> QED  BY <1>4, <2>1
  <1>9. CASE Marks
    <2>1. ~ControlEnd /\ ~KernelEnd
      BY <1>1, ControlMarks DEF KernelEnd, TimeEnd
    <2>2. CASE ControlStart
      <3>1. rows' = rows /\ args' = args /\ hpc = "control" /\ hpc' = "kernel"
        BY <1>1, <2>2, ControlMarks DEF TimeStart
      <3> QED  BY <1>5, <3>1
    <2>3. CASE KernelStart
      BY <1>1, <1>5, <2>3 DEF KernelStart, TimeStart
    <2> QED  BY <1>9, <2>1, <2>2, <2>3 DEF Marks
  <1>10. CASE Report
    <2>1. /\ hpc = "report" /\ hpc' = "scan"
          /\ rows' = Append(rows, [args |-> args, stamp |-> stamp])
      BY <1>10 DEF Report
    <2>2. PICK k \in 1 .. NBench : Right(rows, k - 1) /\ args = Arg3(k)
      BY <2>1 DEF CutOff
    <2>3. [args |-> args, stamp |-> stamp] \in Row
      BY DEF HostType, Row
    <2>4. Nearly(rows')
      BY <2>1, <2>2, <2>3, NearlyRight
    <2>5. whole' <= Len(rows')
      <3>1. rows \in Seq(Row) /\ whole \in Nat
        BY <2>2 DEF Right, GuestType
      <3>2. Len(rows') = Len(rows) + 1
        BY <2>1, <2>3, <3>1
      <3> QED  BY <1>2, <1>3, <3>1, <3>2
    <2>6. CutOff'
      BY <1>2, <2>1, <2>4, <2>5 DEF CutOff
    <2> QED  BY <2>6 DEF Phase
  <1>11. CASE ReadEnd
    <2>1. rows' = rows /\ hpc' = "exit"
      BY <1>1, <1>11 DEF ReadEnd, ReadStart
    <2> QED  BY <1>4, <2>1
  <1> QED
    BY <1>6, <1>7, <1>8, <1>9, <1>10, <1>11 DEF Host, Scan, Marks

\* When the host has read the "]" of benchmark w, it has a row for each up to w,
\* or is about to print the one for w.
LEMMA HostBehind ==
    ASSUME NEW pr, NEW h, NEW hp, NEW bu, NEW ar, NEW st, NEW ro, HostAt(pr, h, hp, bu, ar, st, ro),
           hp # "report", NEW w \in 0 .. NBench, Taken(pr, w, h)
    PROVE  \E n \in 0 .. NBench : Right(ro, n) /\ w <= n
  <1>0. NBench \in Nat \ {0} /\ w \in Nat
    BY SessionAssumption
  <1>1. CASE w = 0
    BY <1>0, <1>1, HostRows
  <1>2. CASE w # 0
    <2>1. Start(pr, w + 1) <= h + 1 /\ Start(pr, w + 1) \in Nat
      BY <1>0, <1>2, StartNat DEF Taken
    <2>2. ASSUME NEW k \in Nat, k < w
          PROVE  Start(pr, k + 2) <= Start(pr, w + 1) /\ Start(pr, k + 2) \in Nat
      BY <1>0, <2>2, StartNat, StartMonotone
    <2>3. ASSUME Right(ro, NBench)
          PROVE  \E n \in 0 .. NBench : Right(ro, n) /\ w <= n
      BY <1>0, <2>3
    <2>4. CASE Opening(h, hp, bu, ar, ro)
      <3>1. Len(BootLine) = 4 /\ Len(StarLine) = 2 /\ Len(TitleLine) = 6 /\ Len(BeginLine) = 6
        BY DEF BootLine, StarLine, TitleLine, BeginLine
      <3>2. \/ h = 6 \/ Reading(h, bu, BootLine, 0) \/ Reading(h, bu, StarLine, 4)
            \/ Reading(h, bu, TitleLine, 6) \/ Reading(h, bu, BeginLine, 12)
        BY <2>4 DEF Opening
      <3>3. h \in Nat /\ h < 18
        BY <3>1, <3>2 DEF Reading
      <3>4. 29 <= Start(pr, w + 1)
        <4>1. Start(pr, 2) <= Start(pr, w + 1)
          BY <1>0, <1>2, StartMonotone
        <4>2. InitLen(pr, 1) \in Nat /\ KernelLen(pr, 1) \in Nat
          BY DEF InitLen, KernelLen
        <4>3. Start(pr, 1 + 1) = 18 + 11 + InitLen(pr, 1) + KernelLen(pr, 1)
          BY StartNext, StartFirst
        <4> QED  BY <2>1, <4>1, <4>2, <4>3
      <3> QED  BY <2>1, <3>3, <3>4
    <2>5. ASSUME NEW k \in 1 .. NBench, Named(pr, k, h, hp, bu, ar, ro)
          PROVE  \E n \in 0 .. NBench : Right(ro, n) /\ w <= n
      <3>1. PICK s : s = Start(pr, k)
        OBVIOUS
      <3>2. k \in Nat \ {0} /\ InitLen(pr, k) \in Nat /\ KernelLen(pr, k) \in Nat /\ s \in Nat
        BY <1>0, <3>1, StartNat DEF InitLen, KernelLen
      <3>3. Start(pr, k + 1) = s + 11 + InitLen(pr, k) + KernelLen(pr, k)
        BY <3>1, <3>2, StartNext
      <3>4. h \in {s, s + 1, s + 2, s + 3, s + 4}
        BY <2>5, <3>1 DEF Named, Naming
      <3>5. w <= k - 1
        <4> SUFFICES ASSUME k - 1 < w PROVE FALSE
          BY <1>0, <3>2
        <4>1. k - 1 \in Nat /\ k - 1 + 2 = k + 1
          BY <3>2
        <4>2. Start(pr, k + 1) <= Start(pr, w + 1)
          BY <2>2, <4>1
        <4> QED  BY <2>1, <3>2, <3>3, <3>4, <4>2
      <3>6. Right(ro, k - 1) /\ k - 1 \in 0 .. NBench
        BY <1>0, <2>5 DEF Named
      <3> QED  BY <3>5, <3>6
    <2>6. ASSUME NEW k \in 1 .. NBench, Timed(pr, k, h, hp, bu, ar, st, ro)
          PROVE  \E n \in 0 .. NBench : Right(ro, n) /\ w <= n
      <3>1. PICK s, e : s = Start(pr, k) /\ e = KernelLen(pr, k)
        OBVIOUS
      <3>2. s \in Nat /\ e \in {0, 1} /\ s + e + 11 = Start(pr, k + 1)
        <4>1. k \notin pr.init
          BY <2>6 DEF Timed
        <4> QED  BY <3>1, <4>1, TimeText
      <3>3. h \in {s + 5, s + 6, s + 7, s + 8, s + 9, s + e + 9}
        BY <2>6, <3>1 DEF Timed, Timing
      <3>4. k \in Nat \ {0}
        BY <1>0
      <3>5. w <= k - 1
        <4> SUFFICES ASSUME k - 1 < w PROVE FALSE
          BY <1>0, <3>4
        <4>1. k - 1 \in Nat /\ k - 1 + 2 = k + 1
          BY <3>4
        <4>2. Start(pr, k + 1) <= Start(pr, w + 1)
          BY <2>2, <4>1
        <4> QED  BY <2>1, <3>2, <3>3, <4>2
      <3>6. Right(ro, k - 1) /\ k - 1 \in 0 .. NBench
        BY <1>0, <2>6 DEF Timed
      <3> QED  BY <3>5, <3>6
    <2>7. ASSUME NEW k \in 1 .. NBench, Between(pr, k, h, hp, bu, ar, ro)
          PROVE  \E n \in 0 .. NBench : Right(ro, n) /\ w <= n
      <3>1. h \in Nat /\ h + 1 = Start(pr, k + 1) /\ Right(ro, k)
        BY <2>7 DEF Between
      <3>2. k \in Nat \ {0} /\ k + 1 \in Nat \ {0}
        BY <1>0
      <3>3. w <= k
        <4> SUFFICES ASSUME k < w PROVE FALSE
          BY <1>0, <3>2
        <4>1. Start(pr, k + 2) <= Start(pr, w + 1)
          BY <2>2, <3>2
        <4>2. InitLen(pr, k + 1) \in Nat /\ KernelLen(pr, k + 1) \in Nat
          BY DEF InitLen, KernelLen
        <4>3. k + 1 + 1 = k + 2
          BY <3>2
        <4>4. Start(pr, k + 2) = Start(pr, k + 1) + 11 + InitLen(pr, k + 1) + KernelLen(pr, k + 1)
          BY <3>2, <4>3, StartNext
        <4> QED  BY <2>1, <3>1, <4>1, <4>2, <4>4
      <3>4. k \in 0 .. NBench
        BY <1>0
      <3> QED  BY <3>1, <3>3, <3>4
    <2>8. CASE Ending(pr, h, hp, bu, ar, ro) \/ Closing(pr, h, hp, bu, ro)
      BY <2>3, <2>8 DEF Ending, Closing
    <2> QED  BY <2>4, <2>5, <2>6, <2>7, <2>8 DEF HostAt
  <1> QED
    BY <1>1, <1>2

\* There is more of the text to come.
More(h, m) == lost # 0 => h < m

\* Taking the first atom of a front.
LEMMA FrontTail ==
    ASSUME NEW pr, NEW s, NEW h, NEW m, Front(pr, s, h, m), h < m
    PROVE  /\ s # <<>> /\ Head(s) = Text(pr, h + 1) /\ Head(s) \in Atoms
           /\ Front(pr, Tail(s), h + 1, m)
  <1>1. /\ s \in Seq(Atoms) /\ h \in Nat /\ m \in Nat /\ h <= m /\ m <= h + Len(s)
        /\ \A i \in 1 .. m - h : s[i] = Text(pr, h + i)
    BY DEF Front
  <1>2. Len(s) \in Nat /\ Len(s) > 0 /\ 1 \in 1 .. m - h
    BY <1>1
  <1>3. s # <<>> /\ Head(s) = s[1] /\ Head(s) \in Atoms /\ s[1] = Text(pr, h + 1)
    BY <1>1, <1>2
  <1>4. Tail(s) \in Seq(Atoms) /\ Len(Tail(s)) = Len(s) - 1
        /\ \A i \in 1 .. Len(s) - 1 : Tail(s)[i] = s[i + 1]
    BY <1>1, <1>2
  <1>5. ASSUME NEW i \in 1 .. m - (h + 1)
        PROVE  Tail(s)[i] = Text(pr, h + 1 + i)
    <2>1. i \in 1 .. Len(s) - 1 /\ i + 1 \in 1 .. m - h /\ h + (i + 1) = h + 1 + i
      BY <1>1, <1>2
    <2> QED  BY <2>1, <1>1, <1>4
  <1>6. h + 1 \in Nat /\ h + 1 <= m /\ m <= h + 1 + Len(Tail(s))
    BY <1>1, <1>2, <1>4
  <1>7. Front(pr, Tail(s), h + 1, m)
    BY <1>1, <1>4, <1>5, <1>6 DEF Front
  <1> QED
    BY <1>3, <1>7

\* The host takes the next atom, ...
LEMMA Takes ==
    ASSUME NEW h, NEW m, NEW g, At(h, m, g), More(h, m), HostOnly, Ready, getchar,
           HostAt(prints, h + 1, hpc', buf', args', stamp', rows')
    PROVE  Phase'
  <1>1. UNCHANGED <<prints, gpc, b, out, lost, whole>> /\ tty # <<>> /\ tty' = Tail(tty)
    BY DEF HostOnly, Ready, getchar
  <1>2. HostAt(prints', h + 1, hpc', buf', args', stamp', rows') /\ Taken(prints', whole', m)
    BY <1>1 DEF At
  <1>3. CASE lost = 0
    <2>1. Piece(prints, tty, h, m) /\ Piece(prints, out, m, g) /\ Emitted(prints, gpc, b, g)
      BY <1>3 DEF At
    <2>2. Piece(prints, Tail(tty), h + 1, m)
      BY <1>1, <2>1, PieceTail
    <2>3. Piece(prints', tty', h + 1, m) /\ Piece(prints', out', m, g)
          /\ Emitted(prints', gpc', b', g) /\ lost' = 0
      BY <1>1, <1>3, <2>1, <2>2
    <2>4. At(h + 1, m, g)'
      BY <1>2, <2>3 DEF At
    <2> QED  BY <2>4, Zenon DEF Phase, InStep
  <1>4. CASE lost # 0
    <2>1. Front(prints, tty, h, m) /\ m < h + PipeSize /\ h < m
      BY <1>4 DEF At, More
    <2>2. Front(prints, Tail(tty), h + 1, m)
      BY <2>1, FrontTail
    <2>3. m < h + 1 + PipeSize
      BY <2>1, SessionAssumption DEF Front
    <2>4. At(h + 1, m, g)'
      BY <1>1, <1>2, <1>4, <2>2, <2>3 DEF At
    <2> QED  BY <2>4, Zenon DEF Phase, InStep
  <1> QED
    BY <1>3, <1>4

\* ... or leaves it, ...
LEMMA Stays ==
    ASSUME NEW h, NEW m, NEW g, At(h, m, g), HostOnly, tty' = tty,
           HostAt(prints, h, hpc', buf', args', stamp', rows')
    PROVE  Phase'
  <1>1. UNCHANGED <<prints, gpc, b, out, lost, whole>>
    BY DEF HostOnly
  <1>2. HostAt(prints', h, hpc', buf', args', stamp', rows') /\ Taken(prints', whole', m)
    BY <1>1 DEF At
  <1>3. At(h, m, g)'
    BY <1>1, <1>2 DEF At
  <1> QED
    BY <1>3, Zenon DEF Phase, InStep

\* ... or meets the end of the input, which is then before the end of the text:
\* the host would have stopped there.
LEMMA Cut ==
    ASSUME NEW h, NEW m, NEW g, At(h, m, g), More(h, m), GuestType, HostOnly, Eof, rows' = rows,
           hpc # "report",
           \/ hpc' \in {"begin", "scan", "end", "exit"}
           \/ /\ hpc \in {"blank", "control", "kernel"} /\ hpc' \in {"control", "kernel", "report"}
              /\ args' = args
    PROVE  Phase'
  <1>1. /\ UNCHANGED <<prints, gpc, b, out, lost, whole, closed>> /\ tty = <<>> /\ tty' = <<>>
        /\ closed
    BY DEF HostOnly, Eof
  <1>2. lost = 0
    BY <1>1, FrontTail DEF At, More
  <1>3. Piece(prints, tty, h, m) /\ Piece(prints, out, m, g) /\ Emitted(prints, gpc, b, g)
    BY <1>2 DEF At
  <1>4. h = m
    BY <1>1, <1>3, PieceEmpty
  <1>5. HostAt(prints, h, hpc, buf, args, stamp, rows) /\ Taken(prints, whole, h)
    BY <1>4 DEF At
  <1>6. gpc # "off"
    <2> SUFFICES ASSUME gpc = "off" PROVE FALSE
      OBVIOUS
    <2>1. out = <<>>
      BY DEF GuestType
    <2>2. m = g /\ g = Total(prints)
      BY <1>3, <2>1, PieceEmpty DEF Emitted
    <2>3. h < Total(prints)
      BY <1>5, HostBound
    <2>4. Total(prints) \in Nat
      BY <1>3, <2>2 DEF Piece
    <2> QED  BY <1>4, <2>2, <2>3, <2>4
  <1>7. PICK n \in 0 .. NBench : Right(rows, n) /\ whole <= n
    <2>1. whole \in 0 .. NBench
      BY DEF GuestType
    <2> QED  BY <1>5, <2>1, HostBehind
  <1>8. Nearly(rows') /\ whole' <= Len(rows')
    BY <1>1, <1>7, NearlyRight DEF Right
  <1>9. Eof' /\ gpc' # "off" /\ lost' = 0
    BY <1>1, <1>2, <1>6 DEF Eof
  <1>10. hpc' \in {"control", "kernel", "report"} =>
            \E k \in 1 .. NBench : Right(rows', k - 1) /\ args' = Arg3(k)
    <2>1. hpc \in {"blank", "control", "kernel"} =>
            \E k \in 1 .. NBench : Right(rows, k - 1) /\ args = Arg3(k)
      BY <1>5, HostRows
    <2> QED  BY <2>1
  <1>11. CutOff'
    BY <1>8, <1>9, <1>10 DEF CutOff
  <1> QED
    BY <1>11 DEF Phase

\* The next atom of the line is the next of the text.
LEMMA NextAtom ==
    ASSUME NEW h, NEW m, NEW g, At(h, m, g), More(h, m), Ready
    PROVE  peek = Text(prints, h + 1) /\ peek \in Atoms
  <1>1. CASE lost = 0
    BY <1>1, PieceTail DEF At, Ready, peek
  <1>2. CASE lost # 0
    BY <1>2, FrontTail DEF At, More, peek
  <1> QED
    BY <1>1, <1>2

\* Reading on behind the last atom before the loss: the rows up to there are
\* printed.
LEMMA Passes ==
    ASSUME NEW h, NEW m, NEW g, At(h, m, g), ~More(h, m), GuestType, HostOnly, hpc # "report",
           rows' = rows
    PROVE  Phase'
  <1>1. lost # 0 /\ Front(prints, tty, h, m) /\ ~(h < m)
    BY DEF At, More
  <1>2. h = m
    BY <1>1 DEF Front
  <1>3. HostAt(prints, h, hpc, buf, args, stamp, rows) /\ Taken(prints, whole, h)
    BY <1>2 DEF At
  <1>4. whole \in 0 .. NBench /\ lost' = lost /\ whole' = whole
    BY DEF GuestType, HostOnly
  <1>5. PICK n \in 0 .. NBench : Right(rows, n) /\ whole <= n
    BY <1>3, <1>4, HostBehind
  <1>6. /\ rows \in Seq(Row) /\ whole <= Len(rows)
        /\ \A j \in 1 .. whole : rows[j] = RowOf(j)
    <2>1. whole \in Nat /\ n \in Nat
      BY <1>4, SessionAssumption
    <2> QED  BY <1>5, <2>1 DEF Right
  <1>7. Passed'
    BY <1>1, <1>4, <1>6 DEF Passed
  <1> QED
    BY <1>7 DEF Phase

\* From then on the rows only become more.
LEMMA PassedStep ==
    ASSUME GuestType, HostType, HostOnly, Passed, Host
    PROVE  Phase'
  <1>1. lost' = lost /\ whole' = whole /\ whole \in Nat
    BY SessionAssumption DEF HostOnly, GuestType
  <1>2. CASE rows' = rows
    <2>1. Passed'
      BY <1>1, <1>2 DEF Passed
    <2> QED  BY <2>1 DEF Phase
  <1>3. CASE Report
    <2> DEFINE row == [args |-> args, stamp |-> stamp]
    <2>1. rows' = Append(rows, row)
      BY <1>3 DEF Report
    <2>2. row \in Row
      BY DEF HostType, Row
    <2> HIDE DEF row
    <2>3. rows \in Seq(Row) /\ whole <= Len(rows) /\ \A j \in 1 .. whole : rows[j] = RowOf(j)
      BY DEF Passed
    <2>4. /\ rows' \in Seq(Row) /\ Len(rows') = Len(rows) + 1
          /\ \A j \in 1 .. Len(rows) : rows'[j] = rows[j]
      BY <2>1, <2>2, <2>3
    <2>5. whole' <= Len(rows') /\ \A j \in 1 .. whole : j \in 1 .. Len(rows)
      BY <1>1, <2>3, <2>4
    <2>6. \A j \in 1 .. whole' : rows'[j] = RowOf(j)
      BY <1>1, <2>3, <2>4, <2>5
    <2>7. Passed'
      BY <1>1, <2>4, <2>5, <2>6 DEF Passed
    <2> QED  BY <2>7 DEF Phase
  <1> QED
    BY <1>2, <1>3, OnlyReport

\* Reading lines, ...
LEMMA InStepRead ==
    ASSUME NEW h, NEW m, NEW g, At(h, m, g), More(h, m), GuestType, HostOnly, ReadStar \/ ReadBegin
    PROVE  Phase'
  <1>1. HostAt(prints, h, hpc, buf, args, stamp, rows)
    BY DEF At
  <1>2. CASE ReadStar
    <2>1. hpc = "star" /\ args' = args /\ stamp' = stamp /\ rows' = rows
      BY <1>2 DEF ReadStar, ReadStart
    <2>2. CASE Ready
      <3>1. /\ getchar /\ buf' = (IF peek = nl THEN <<>> ELSE Append(buf, peek))
            /\ hpc' = (IF Append(buf, peek) = StarLine THEN "pin" ELSE "star")
        BY <1>2, <2>2 DEF ReadStar, ReadStart, Eof, Ready
      <3>2. HostAt(prints, h + 1, IF Append(buf, peek) = StarLine THEN "pin" ELSE "star",
                   IF peek = nl THEN <<>> ELSE Append(buf, peek), args, stamp, rows)
        BY <1>1, <2>1, <2>2, NextAtom, StarStep
      <3>3. HostAt(prints, h + 1, hpc', buf', args', stamp', rows')
        BY <2>1, <3>1, <3>2
      <3> QED  BY <2>2, <3>1, <3>3, Takes
    <2>3. CASE ~Ready
      <3>1. Eof /\ hpc' = "begin"
        BY <1>2, <2>3 DEF ReadStar, ReadStart
      <3> QED  BY <2>1, <3>1, Cut
    <2> QED  BY <2>2, <2>3
  <1>3. CASE ReadBegin
    <2>1. hpc = "begin" /\ args' = args /\ stamp' = stamp /\ rows' = rows
      BY <1>3 DEF ReadBegin, ReadStart
    <2>2. CASE Ready
      <3>1. /\ getchar /\ buf' = (IF peek = nl THEN <<>> ELSE Append(buf, peek))
            /\ hpc' = (IF Append(buf, peek) = BeginLine THEN "scan" ELSE "begin")
        BY <1>3, <2>2 DEF ReadBegin, ReadStart, Eof, Ready
      <3>2. HostAt(prints, h + 1, IF Append(buf, peek) = BeginLine THEN "scan" ELSE "begin",
                   IF peek = nl THEN <<>> ELSE Append(buf, peek), args, stamp, rows)
        BY <1>1, <2>1, <2>2, NextAtom, BeginStep
      <3>3. HostAt(prints, h + 1, hpc', buf', args', stamp', rows')
        BY <2>1, <3>1, <3>2
      <3> QED  BY <2>2, <3>1, <3>3, Takes
    <2>3. CASE ~Ready
      <3>1. Eof /\ hpc' = "end"
        BY <1>3, <2>3 DEF ReadBegin, ReadStart
      <3> QED  BY <2>1, <3>1, Cut
    <2> QED  BY <2>2, <2>3
  <1> QED
    BY <1>2, <1>3

\* ... the last lines, ...
LEMMA InStepEnd ==
    ASSUME NEW h, NEW m, NEW g, At(h, m, g), More(h, m), GuestType, HostOnly, ReadEnd
    PROVE  Phase'
  <1>1. HostAt(prints, h, hpc, buf, args, stamp, rows)
    BY DEF At
  <1>2. hpc = "end" /\ args' = args /\ stamp' = stamp /\ rows' = rows
    BY DEF ReadEnd, ReadStart
  <1>3. CASE Ready
    <2>1. /\ getchar /\ buf' = (IF peek = nl THEN <<>> ELSE Append(buf, peek))
          /\ hpc' = (IF Append(buf, peek) = EndLine THEN "exit" ELSE "end")
      BY <1>3 DEF ReadEnd, ReadStart, Eof, Ready
    <2>2. /\ Right(rows, NBench)
          /\ Append(buf, peek) # EndLine =>
                HostAt(prints, h + 1, "end", IF peek = nl THEN <<>> ELSE Append(buf, peek),
                       args, stamp, rows)
      BY <1>1, <1>2, <1>3, NextAtom, EndStep
    <2>3. CASE Append(buf, peek) = EndLine
      <3>1. hpc' = "exit" /\ ~Eof /\ Right(rows', NBench)
        BY <1>2, <1>3, <2>1, <2>2, <2>3 DEF Ready, Eof
      <3>2. ended' = (ended \/ (~Eof /\ hpc' = "exit"))
        BY DEF ReadEnd
      <3>3. ended'
        BY <3>1, <3>2
      <3>4. Complete'
        BY <3>1, <3>3 DEF Complete
      <3> QED  BY <3>4 DEF Phase
    <2>4. CASE Append(buf, peek) # EndLine
      <3>1. HostAt(prints, h + 1, hpc', buf', args', stamp', rows')
        BY <1>2, <2>1, <2>2, <2>4
      <3> QED  BY <1>3, <2>1, <3>1, Takes
    <2> QED  BY <2>3, <2>4
  <1>4. CASE ~Ready
    <2>1. Eof /\ hpc' = "exit"
      BY <1>4 DEF ReadEnd, ReadStart
    <2> QED  BY <1>2, <2>1, Cut
  <1> QED
    BY <1>3, <1>4

\* ... the words of a row, ...
LEMMA InStepScan ==
    ASSUME NEW h, NEW m, NEW g, At(h, m, g), More(h, m), GuestType, HostType, HostOnly, Scan
    PROVE  Phase'
  <1>1. HostAt(prints, h, hpc, buf, args, stamp, rows) /\ args \in Words
    BY DEF At, HostType
  <1>2. Ready => peek = Text(prints, h + 1) /\ peek \in Atoms
    BY NextAtom
  <1>3. CASE ScanSkip
    <2>1. /\ hpc = "scan" /\ Ready /\ White(peek) /\ getchar
          /\ UNCHANGED <<hpc, buf, args, stamp, rows>>
      BY <1>3 DEF ScanSkip, hostVars
    <2>2. HostAt(prints, h + 1, "scan", buf, args, stamp, rows)
      BY <1>1, <1>2, <2>1, SkipStep
    <2>3. HostAt(prints, h + 1, hpc', buf', args', stamp', rows')
      BY <2>1, <2>2
    <2> QED  BY <2>1, <2>3, Takes
  <1>4. CASE ScanWord
    <2>1. /\ hpc = "scan" /\ Len(args) < 2 /\ Ready /\ ~White(peek) /\ getchar
          /\ args' = Append(args, <<peek>>) /\ hpc' = "word"
          /\ UNCHANGED <<buf, stamp, rows>>
      BY <1>4 DEF ScanWord
    <2>2. HostAt(prints, h + 1, "word", buf, Append(args, <<peek>>), stamp, rows)
      BY <1>1, <1>2, <2>1, WordStep
    <2>3. HostAt(prints, h + 1, hpc', buf', args', stamp', rows')
      BY <2>1, <2>2
    <2> QED  BY <2>1, <2>3, Takes
  <1>5. CASE ScanMore
    <2>1. hpc = "word" /\ UNCHANGED <<buf, stamp, rows>>
      BY <1>5 DEF ScanMore
    <2>2. CASE Ready /\ ~White(peek)
      <3>1. /\ getchar /\ hpc' = hpc
            /\ args' = [args EXCEPT ![Len(args)] = Append(@, peek)]
        BY <1>5, <2>2 DEF ScanMore, Ready, Eof
      <3>2. HostAt(prints, h + 1, "word", buf, [args EXCEPT ![Len(args)] = Append(@, peek)],
                   stamp, rows)
        BY <1>1, <1>2, <2>1, <2>2, MoreStep
      <3>3. HostAt(prints, h + 1, hpc', buf', args', stamp', rows')
        BY <2>1, <3>1, <3>2
      <3> QED  BY <2>2, <3>1, <3>3, Takes
    <2>3. CASE Ready /\ White(peek)
      <3>1. tty' = tty /\ args' = args /\ hpc' = "scan"
        BY <1>5, <2>3 DEF ScanMore
      <3>2. HostAt(prints, h, "scan", buf, args, stamp, rows)
        BY <1>1, <1>2, <2>1, <2>3, MoreStep
      <3>3. HostAt(prints, h, hpc', buf', args', stamp', rows')
        BY <2>1, <3>1, <3>2
      <3> QED  BY <3>1, <3>3, Stays
    <2>4. CASE ~Ready
      <3>1. Eof /\ hpc' = "scan" /\ rows' = rows
        BY <1>5, <2>1, <2>4 DEF ScanMore
      <3> QED  BY <2>1, <3>1, Cut
    <2> QED  BY <2>2, <2>3, <2>4
  <1>6. CASE ScanNumber
    <2>1. /\ hpc = "scan" /\ Len(args) = 2 /\ Ready /\ peek.c = "number" /\ getchar
          /\ args' = Append(args, <<peek>>) /\ hpc' = "blank"
          /\ UNCHANGED <<buf, stamp, rows>>
      BY <1>6 DEF ScanNumber
    <2>2. ~White(peek)
      BY <2>1 DEF White
    <2>3. HostAt(prints, h + 1, "blank", buf, Append(args, <<peek>>), stamp, rows)
      BY <1>1, <1>2, <2>1, <2>2, ThirdStep
    <2>4. HostAt(prints, h + 1, hpc', buf', args', stamp', rows')
      BY <2>1, <2>3
    <2> QED  BY <2>1, <2>4, Takes
  <1>7. CASE ScanBlank
    <2>1. hpc = "blank" /\ UNCHANGED <<buf, args, stamp, rows>>
      BY <1>7 DEF ScanBlank
    <2>2. CASE Ready /\ White(peek)
      <3>1. getchar /\ hpc' = hpc
        BY <1>7, <2>2 DEF ScanBlank, Ready, Eof
      <3>2. HostAt(prints, h + 1, "blank", buf, args, stamp, rows)
        BY <1>1, <1>2, <2>1, <2>2, BlankStep
      <3>3. HostAt(prints, h + 1, hpc', buf', args', stamp', rows')
        BY <2>1, <3>1, <3>2
      <3> QED  BY <2>2, <3>1, <3>3, Takes
    <2>3. CASE Ready /\ ~White(peek)
      <3>1. tty' = tty /\ hpc' = "control"
        BY <1>7, <2>3 DEF ScanBlank
      <3>2. HostAt(prints, h, "control", buf, args, stamp, rows)
        BY <1>1, <1>2, <2>1, <2>3, BlankStep
      <3>3. HostAt(prints, h, hpc', buf', args', stamp', rows')
        BY <2>1, <3>1, <3>2
      <3> QED  BY <3>1, <3>3, Stays
    <2>4. CASE ~Ready
      <3>1. Eof /\ hpc' = "control" /\ rows' = rows /\ args' = args
        BY <1>7, <2>1, <2>4 DEF ScanBlank
      <3> QED  BY <2>1, <3>1, Cut
    <2> QED  BY <2>2, <2>3, <2>4
  <1>8. CASE ScanFails
    <2>1. /\ hpc = "scan" /\ hpc' = "end" /\ args' = <<>> /\ tty' = tty
          /\ UNCHANGED <<buf, stamp, rows>>
      BY <1>8 DEF ScanFails, lineVars
    <2>2. CASE Eof
      BY <2>1, <2>2, Cut
    <2>3. CASE Len(args) = 2 /\ Ready /\ ~White(peek) /\ peek.c # "number"
      <3>1. \/ HostAt(prints, h, "end", buf, <<>>, stamp, rows)
            \/ prints.init # {} /\ \E n \in 0 .. NBench : Right(rows, n)
        BY <1>1, <1>2, <2>1, <2>3, ThirdStep
      <3>2. CASE HostAt(prints, h, "end", buf, <<>>, stamp, rows)
        <4>1. HostAt(prints, h, hpc', buf', args', stamp', rows')
          BY <2>1, <3>2
        <4> QED  BY <2>1, <4>1, Stays
      <3>3. CASE prints.init # {} /\ \E n \in 0 .. NBench : Right(rows, n)
        <4>1. Astray'
          BY <2>1, <3>3 DEF Astray, HostOnly
        <4> QED  BY <4>1 DEF Phase
      <3> QED  BY <3>1, <3>2, <3>3
    <2> QED  BY <1>8, <2>2, <2>3 DEF ScanFails
  <1> QED
    BY <1>3, <1>4, <1>5, <1>6, <1>7, <1>8 DEF Scan

\* ... its marks, ...
LEMMA InStepMarks ==
    ASSUME NEW h, NEW m, NEW g, At(h, m, g), More(h, m), GuestType, HostType, HostOnly, Marks
    PROVE  Phase'
  <1>1. HostAt(prints, h, hpc, buf, args, stamp, rows) /\ stamp \in StampFns
    BY DEF At, HostType
  <1>2. Ready => peek = Text(prints, h + 1) /\ peek \in Atoms
    BY NextAtom
  <1>3. CASE ControlStart
    <2>0. TimeStart("control", LBrace, "control0", "in_control", "kernel")
      BY <1>3, ControlMarks
    <2>1. hpc = "control" /\ UNCHANGED <<buf, args, rows>>
      BY <2>0 DEF TimeStart
    <2>2. CASE Ready
      <3>1. /\ peek.c = LBrace
            /\ HostAt(prints, h + 1, "in_control", buf, args,
                      [stamp EXCEPT !["control0"] = peek.of], rows)
        BY <1>1, <1>2, <2>1, <2>2, ControlStep
      <3>2. getchar /\ hpc' = "in_control" /\ stamp' = [stamp EXCEPT !["control0"] = peek.of]
        BY <2>0, <2>2, <3>1 DEF TimeStart, Ready, Eof
      <3>3. HostAt(prints, h + 1, hpc', buf', args', stamp', rows')
        BY <2>1, <3>1, <3>2
      <3> QED  BY <2>2, <3>2, <3>3, Takes
    <2>3. CASE ~Ready
      <3>1. Eof /\ hpc' = "kernel"
        BY <2>0, <2>3 DEF TimeStart
      <3> QED  BY <2>1, <3>1, Cut
    <2> QED  BY <2>2, <2>3
  <1>4. CASE ControlEnd
    <2>0. TimeEnd("in_control", RBrace, "control1", "kernel")
      BY <1>4, ControlMarks
    <2>1. hpc = "in_control" /\ Ready /\ getchar /\ UNCHANGED <<buf, args, rows>>
      BY <2>0 DEF TimeEnd
    <2>2. /\ peek.c = RBrace
          /\ HostAt(prints, h + 1, "kernel", buf, args, [stamp EXCEPT !["control1"] = peek.of], rows)
      BY <1>1, <1>2, <2>1, InControlStep
    <2>3. hpc' = "kernel" /\ stamp' = [stamp EXCEPT !["control1"] = peek.of]
      BY <2>0, <2>2 DEF TimeEnd
    <2>4. HostAt(prints, h + 1, hpc', buf', args', stamp', rows')
      BY <2>1, <2>2, <2>3
    <2> QED  BY <2>1, <2>4, Takes
  <1>5. CASE KernelStart
    <2>1. hpc = "kernel" /\ UNCHANGED <<buf, args, rows>>
      BY <1>5 DEF KernelStart, TimeStart
    <2>2. CASE Ready
      <3>1. /\ peek.c = "["
            /\ HostAt(prints, h + 1, "in_kernel", buf, args,
                      [stamp EXCEPT !["kernel0"] = peek.of], rows)
        BY <1>1, <1>2, <2>1, <2>2, KernelStep
      <3>2. getchar /\ hpc' = "in_kernel" /\ stamp' = [stamp EXCEPT !["kernel0"] = peek.of]
        BY <1>5, <2>2, <3>1 DEF KernelStart, TimeStart, Ready, Eof
      <3>3. HostAt(prints, h + 1, hpc', buf', args', stamp', rows')
        BY <2>1, <3>1, <3>2
      <3> QED  BY <2>2, <3>2, <3>3, Takes
    <2>3. CASE ~Ready
      <3>1. Eof /\ hpc' = "report"
        BY <1>5, <2>3 DEF KernelStart, TimeStart
      <3> QED  BY <2>1, <3>1, Cut
    <2> QED  BY <2>2, <2>3
  <1>6. CASE KernelEnd
    <2>1. hpc = "in_kernel" /\ Ready /\ getchar /\ UNCHANGED <<buf, args, rows>>
      BY <1>6 DEF KernelEnd, TimeEnd
    <2>2. /\ peek.c = "]" => HostAt(prints, h + 1, "report", buf, args,
                                    [stamp EXCEPT !["kernel1"] = peek.of], rows)
          /\ peek.c # "]" => HostAt(prints, h + 1, "in_kernel", buf, args, stamp, rows)
      BY <1>1, <1>2, <2>1, InKernelStep
    <2>3. \/ /\ peek.c = "]" /\ hpc' = "report"
             /\ stamp' = [stamp EXCEPT !["kernel1"] = peek.of]
          \/ peek.c # "]" /\ hpc' = "in_kernel" /\ stamp' = stamp
      BY <1>6 DEF KernelEnd, TimeEnd
    <2>4. HostAt(prints, h + 1, hpc', buf', args', stamp', rows')
      BY <2>1, <2>2, <2>3
    <2> QED  BY <2>1, <2>4, Takes
  <1> QED
    BY <1>3, <1>4, <1>5, <1>6 DEF Marks

\* ... and what it does in between.
LEMMA InStepRest ==
    ASSUME NEW h, NEW m, NEW g, At(h, m, g), GuestType, HostType, HostOnly, Pin \/ Report
    PROVE  Phase'
  <1>1. HostAt(prints, h, hpc, buf, args, stamp, rows) /\ stamp \in StampFns /\ args \in Words
    BY DEF At, HostType
  <1>2. CASE Pin
    <2>1. hpc = "pin" /\ hpc' = "begin" /\ UNCHANGED <<tty, buf, args, stamp, rows>>
      BY <1>2 DEF Pin, lineVars
    <2>2. args = <<>> /\ Right(rows, 0) /\ h = 6 /\ buf = <<>>
      BY <1>1, <2>1
         DEF HostAt, Opening, Named, Naming, Timed, Timing, Between, Ending, Misread, Closing
    <2>3. Reading(6, <<>>, TitleLine, 6)
      BY ReadingStarts, Lines
    <2>4. Opening(h, "begin", buf, args, rows)
      BY <2>2, <2>3 DEF Opening
    <2>5. HostAt(prints, h, "begin", buf, args, stamp, rows)
      BY <2>4, Zenon DEF HostAt
    <2>6. HostAt(prints, h, hpc', buf', args', stamp', rows')
      BY <2>1, <2>5
    <2> QED  BY <2>1, <2>6, Stays
  <1>3. CASE Report
    <2>1. /\ hpc = "report" /\ hpc' = "scan" /\ args' = <<>> /\ tty' = tty
          /\ rows' = Append(rows, [args |-> args, stamp |-> stamp])
          /\ UNCHANGED <<buf, stamp>>
      BY <1>3 DEF Report, lineVars
    <2>2. HostAt(prints, h, "scan", buf, <<>>, stamp, Append(rows, [args |-> args, stamp |-> stamp]))
      BY <1>1, <2>1, ReportStep
    <2>3. HostAt(prints, h, hpc', buf', args', stamp', rows')
      BY <2>1, <2>2
    <2> QED  BY <2>1, <2>3, Stays
  <1> QED
    BY <1>2, <1>3

\* A step of the host.
LEMMA HostStep ==
    ASSUME IInv, Host
    PROVE  IInv'
  <1>0. GuestType /\ WaitType /\ HostType /\ Phase
    BY DEF IInv
  <1>1. HostOnly /\ HostType'
    BY <1>0, HostTypes
  <1>2. GuestType' /\ WaitType'
    BY <1>0, <1>1, HostOnlyTypes
  <1>3. ASSUME InStep
        PROVE  Phase'
    <2>1. PICK h, m, g : At(h, m, g)
      BY <1>3, Zenon DEF InStep
    <2>2. CASE Pin \/ Report
      BY <1>0, <1>1, <2>1, <2>2, InStepRest
    <2>3. CASE More(h, m)
      <3>1. CASE ReadStar \/ ReadBegin
        BY <1>0, <1>1, <2>1, <2>3, <3>1, InStepRead
      <3>2. CASE ReadEnd
        BY <1>0, <1>1, <2>1, <2>3, <3>2, InStepEnd
      <3>3. CASE Scan
        BY <1>0, <1>1, <2>1, <2>3, <3>3, InStepScan
      <3>4. CASE Marks
        BY <1>0, <1>1, <2>1, <2>3, <3>4, InStepMarks
      <3> QED  BY <2>2, <3>1, <3>2, <3>3, <3>4 DEF Host, Scan, Marks
    <2>4. CASE ~More(h, m) /\ ~Report
      <3>1. hpc # "report" /\ rows' = rows
        BY <2>4, OnlyReport
      <3> QED  BY <1>0, <1>1, <2>1, <2>4, <3>1, Passes
    <2> QED  BY <2>2, <2>3, <2>4
  <1>4. Phase'
    BY <1>0, <1>1, <1>3, PassedStep, CutOffStep, AstrayStep, CompleteStep DEF Phase
  <1> QED
    BY <1>1, <1>2, <1>4 DEF IInv

\* Every step.
LEMMA StepInv == IInv /\ [Next]_vars => IInv'
  <1> SUFFICES ASSUME IInv, [Next]_vars PROVE IInv'
    OBVIOUS
  <1>1. CASE Guest
    BY <1>1, GuestStep
  <1>2. CASE Host
    BY <1>2, HostStep
  <1>3. CASE Die
    <2>1. UNCHANGED <<guestVars, lineVars, hostVars>> /\ ~closed /\ closed' = TRUE
      BY <1>3 DEF Die
    <2>2. /\ UNCHANGED <<prints, gpc, b, out, tsc, cycles1, elapsed>>
          /\ UNCHANGED <<tty, lost, whole, hpc, buf, args, stamp, rows, pinned, ended>>
      BY <2>1 DEF guestVars, waitVars, lineVars, hostVars
    <2>3. GuestType'
      BY <2>1, <2>2 DEF IInv, GuestType
    <2>4. WaitType' /\ HostType'
      BY <2>2 DEF IInv, WaitType, HostType
    <2>5. ~CutOff
      BY <2>1 DEF CutOff, Eof
    <2>6. InStep => InStep'
      BY <2>2 DEF InStep, At
    <2>7. (Passed => Passed') /\ (Astray => Astray') /\ (Complete => Complete')
      BY <2>2 DEF Passed, Astray, Complete
    <2> QED  BY <2>3, <2>4, <2>5, <2>6, <2>7 DEF IInv, Phase
  <1>4. CASE UNCHANGED vars
    <2>1. /\ UNCHANGED <<prints, gpc, b, out, tsc, cycles1, elapsed>>
          /\ UNCHANGED <<tty, lost, whole, closed, hpc, buf, args, stamp, rows, pinned, ended>>
      BY <1>4 DEF vars, guestVars, waitVars, lineVars, hostVars
    <2>2. GuestType' /\ WaitType' /\ HostType'
      BY <2>1 DEF IInv, GuestType, WaitType, HostType
    <2>3. InStep => InStep'
      BY <2>1 DEF InStep, At
    <2>4. (CutOff => CutOff') /\ (Astray => Astray') /\ (Complete => Complete')
      BY <2>1 DEF CutOff, Eof, Astray, Complete
    <2>5. Passed => Passed'
      BY <2>1 DEF Passed
    <2> QED  BY <2>2, <2>3, <2>4, <2>5 DEF IInv, Phase
  <1> QED
    BY <1>1, <1>2, <1>3, <1>4 DEF Next, Over

\* The invariant holds throughout.
LEMMA SessionInductive == Spec => []IInv
  <1>1. Init => IInv
    BY InitInv
  <1>2. IInv /\ [Next]_vars => IInv'
    BY StepInv
  <1> QED
    BY <1>1, <1>2, PTL DEF Spec

-----------------------------------------------------------------------------
(* The results. *)

\* In every phase the rows of the benchmarks sent before the first loss are
\* right; with nothing lost all are, but for the stamps of the last, and those
\* only at the end of the input.
LEMMA PhaseRows ==
    ASSUME Phase
    PROVE  /\ lost = 0 => Nearly(rows)
           /\ lost = 0 /\ ~Eof => \E n \in 0 .. NBench : Right(rows, n)
           /\ lost # 0 => \A k \in 1 .. Len(rows) : rows[k] = RowOf(k) \/ ~(k \in 1 .. whole)
  <1>0. NBench \in 0 .. NBench
    BY SessionAssumption
  <1>1. ASSUME NEW n \in 0 .. NBench, Right(rows, n)
        PROVE  Nearly(rows) /\ \A k \in 1 .. Len(rows) : rows[k] = RowOf(k)
    BY <1>1, NearlyRight DEF Right
  <1>2. CASE InStep
    <2>1. PICK h, m, g : HostAt(prints, h, hpc, buf, args, stamp, rows)
      BY <1>2, Zenon DEF InStep, At
    <2>2. \E n \in 0 .. NBench : Right(rows, n)
      BY <2>1, HostRows
    <2> QED  BY <1>1, <2>2
  <1>3. CASE Passed
    BY <1>3 DEF Passed
  <1>4. CASE CutOff
    BY <1>4 DEF CutOff
  <1>5. CASE Astray
    BY <1>1, <1>5 DEF Astray
  <1>6. CASE Complete
    BY <1>0, <1>1, <1>6 DEF Complete
  <1> QED
    BY <1>2, <1>3, <1>4, <1>5, <1>6 DEF Phase

\* Every variable of the harness, the line and the host keeps its type: the
\* harness never goes beyond the last benchmark, fscanf() never stores more than
\* three words, and the host prints no more rows than there are benchmarks as
\* long as the line loses nothing.
THEOREM SessionTypeOK == Spec => []TypeOK
  <1>1. IInv => TypeOK
    <2> SUFFICES ASSUME IInv PROVE TypeOK
      OBVIOUS
    <2>1. GuestType /\ WaitType /\ HostType /\ Phase
      BY DEF IInv
    <2>2. lost # 0 \/ Len(rows) <= NBench
      <3> SUFFICES ASSUME lost = 0 PROVE Len(rows) <= NBench
        OBVIOUS
      <3>1. PICK n \in 0 .. NBench : Len(rows) = n
        BY <2>1, PhaseRows DEF Nearly
      <3> QED  BY <3>1, SessionAssumption
    <2>3. /\ prints \in Printing /\ b \in 1 .. NBench + 1 /\ Len(tty) <= PipeSize
          /\ lost \in Nat /\ whole \in 0 .. NBench
          /\ gpc \in {"star", "rdtsc", "wait", "header", "row", "init", "count", "control",
                      "kernel", "close", "shutdown", "off"}
      BY <2>1 DEF GuestType
    <2>4. /\ hpc \in {"star", "pin", "begin", "scan", "word", "blank", "control", "in_control",
                      "kernel", "in_kernel", "report", "end", "exit"}
          /\ Len(args) <= 3 /\ stamp \in [Stamps -> 0 .. NBench]
      BY <2>1 DEF HostType, StampFns
    <2>5. closed \in BOOLEAN /\ pinned \in BOOLEAN /\ ended \in BOOLEAN
      BY <2>1 DEF GuestType, HostType
    <2>6. tsc \in 0 .. LowWord - 1 /\ cycles1 \in 0 .. LowWord - 1 /\ elapsed \in 0 .. PinWait
      BY <2>1 DEF WaitType
    <2> QED  BY <2>2, <2>3, <2>4, <2>5, <2>6 DEF TypeOK
  <1> QED
    BY <1>1, SessionInductive, PTL

\* The host never attributes a measurement to the wrong benchmark: whatever
\* init() and the kernels print, however the harness, the line and the host
\* interleave, whatever the port overwrites and wherever the virtual machine
\* dies, the k-th row has the words of benchmark k and the stamps taken at the
\* four marks of k, for every benchmark sent completely before the first loss.
\* With nothing lost this is every row but the last, which has stale stamps when
\* the input ended before its marks.
THEOREM SessionRowsFaithful == Spec => []RowsFaithful
  <1>1. IInv => RowsFaithful
    <2> SUFFICES ASSUME IInv, NEW k \in 1 .. Len(rows)
                 PROVE  \/ rows[k] = RowOf(k)
                        \/ lost # 0 /\ k > whole
                        \/ lost = 0 /\ k = Len(rows) /\ Eof /\ rows[k].args = RowOf(k).args
      BY DEF RowsFaithful
    <2>1. /\ lost = 0 => Nearly(rows)
          /\ lost = 0 /\ ~Eof => \E n \in 0 .. NBench : Right(rows, n)
          /\ lost # 0 => \A j \in 1 .. Len(rows) : rows[j] = RowOf(j) \/ ~(j \in 1 .. whole)
      BY PhaseRows DEF IInv
    <2>2. CASE lost = 0 /\ Eof
      BY <2>1, <2>2 DEF Nearly
    <2>3. CASE lost = 0 /\ ~Eof
      BY <2>1, <2>3 DEF Right
    <2>4. CASE lost # 0
      <3>1. whole \in Nat
        BY SessionAssumption DEF IInv, GuestType
      <3>2. ~(k \in 1 .. whole) => k > whole
        BY <3>1
      <3> QED  BY <2>1, <2>4, <3>2
    <2> QED  BY <2>2, <2>3, <2>4
  <1> QED
    BY <1>1, SessionInductive, PTL

\* What the line delivers is reported: when no init() prints, the host does not
\* exit without a row for each benchmark sent completely before the first loss.
\* With nothing lost and a virtual machine that runs to its shutdown it has a
\* row for every benchmark and has seen the last line: the first of the two is
\* consumed by fscanf(), the second is the one it finds.
THEOREM SessionNothingLost == Spec => []NothingLost
  <1>1. IInv => NothingLost
    <2> SUFFICES ASSUME Phase, GuestType, hpc = "exit", prints.init = {}
                 PROVE  /\ Len(rows) >= whole
                        /\ gpc = "off" /\ lost = 0 => Len(rows) = NBench /\ ended
      BY DEF IInv, NothingLost
    <2>0. NBench \in Nat /\ whole \in 0 .. NBench
      BY SessionAssumption DEF GuestType
    <2>1. ~InStep
      BY DEF InStep, At, HostAt, Opening, Named, Naming, Timed, Timing, Between, Ending, Misread,
             Closing
    <2>2. ~Astray
      BY DEF Astray
    <2>3. CASE Passed
      <3>1. Len(rows) \in Nat /\ whole <= Len(rows) /\ lost # 0
        BY <2>3 DEF Passed
      <3> QED  BY <2>0, <3>1
    <2>4. CASE CutOff
      <3>1. Len(rows) \in Nat /\ whole <= Len(rows) /\ gpc # "off"
        BY <2>4, SessionAssumption DEF CutOff, Nearly
      <3> QED  BY <2>0, <3>1
    <2>5. CASE Complete
      <3>1. Len(rows) = NBench /\ ended
        BY <2>5 DEF Complete, Right
      <3> QED  BY <2>0, <3>1
    <2> QED  BY <2>1, <2>2, <2>3, <2>4, <2>5 DEF Phase
  <1> QED
    BY <1>1, SessionInductive, PTL

=============================================================================
