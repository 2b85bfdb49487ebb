--------------------------- MODULE MpTableProofs ---------------------------
(***************************************************************************)
(* TLAPS proofs about MpTable, for any memory image firmware may leave, any *)
(* table in it and any size of cpus[].                                      *)
(***************************************************************************)
EXTENDS MpTable, LeastNumber, FiniteSetTheorems

-----------------------------------------------------------------------------
(* Tables. *)

Record == [type : Types \cup {Unknown}, id : Nat]

\* OffsetOf and ProcsUpTo of a table t.
OffsetEq(f, t) ==
    f = [k \in 0 .. Len(t) |-> IF k = 0 THEN 44 ELSE f[k - 1] + SizeOf(t[k].type)]
Offsets(t) == CHOOSE f : OffsetEq(f, t)
ProcSet(t, k) == {j \in 1 .. k : t[j].type = "MPPROC"}
Procs(t, k) == Cardinality(ProcSet(t, k))

\* An entry has 8 or 20 bytes.
LEMMA Sizes == \A x : SizeOf(x) \in {8, 20}
  BY DEF SizeOf

\* The recursion that defines the offsets has a solution.
LEMMA OffsetsSolve ==
    ASSUME NEW t \in Seq(Record)
    PROVE  OffsetEq(Offsets(t), t)
  <1>0. Len(t) \in Nat
    OBVIOUS
  <1> DEFINE G == [z \in Nat \X Nat |-> z[2] + SizeOf(t[z[1] + 1].type)]
  <1>1. G \in [Nat \X Nat -> Nat]
    <2>1. \A z \in Nat \X Nat : z[2] + SizeOf(t[z[1] + 1].type) \in Nat
      <3> SUFFICES ASSUME NEW z \in Nat \X Nat
                   PROVE  z[2] + SizeOf(t[z[1] + 1].type) \in Nat
        OBVIOUS
      <3>1. z[2] \in Nat
        OBVIOUS
      <3>2. SizeOf(t[z[1] + 1].type) \in {8, 20}
        BY Sizes
      <3> QED  BY <3>1, <3>2
    <2> QED  BY <2>1
  <1>2. \A n \in Nat, y \in Nat : G[<<n, y>>] = y + SizeOf(t[n + 1].type)
    OBVIOUS
  <1> HIDE DEF G
  <1>3. PICK h : Recurses(h, Nat, 44, G)
    <2>1. 44 \in Nat
      OBVIOUS
    <2> QED  BY <1>1, <2>1, Recursion
  <1>4. h \in [Nat -> Nat] /\ h[0] = 44 /\ \A n \in Nat : h[n + 1] = h[n] + SizeOf(t[n + 1].type)
    BY <1>2, <1>3 DEF Recurses
  <1> DEFINE f == [k \in 0 .. Len(t) |-> h[k]]
  <1>5. ASSUME NEW k \in 0 .. Len(t)
        PROVE  f[k] = IF k = 0 THEN 44 ELSE f[k - 1] + SizeOf(t[k].type)
    <2>1. CASE k = 0
      BY <2>1, <1>0, <1>4
    <2>2. CASE k # 0
      <3>1. k - 1 \in Nat /\ k - 1 \in 0 .. Len(t) /\ k - 1 + 1 = k
        BY <2>2, <1>0
      <3>2. h[k - 1 + 1] = h[k - 1] + SizeOf(t[k - 1 + 1].type)
        BY <3>1, <1>4
      <3>3. f[k] = h[k] /\ f[k - 1] = h[k - 1]
        BY <3>1
      <3> HIDE DEF f
      <3>4. h[k] = h[k - 1] + SizeOf(t[k].type)
        BY <3>1, <3>2
      <3> QED  BY <2>2, <3>3, <3>4
    <2> QED  BY <2>1, <2>2
  <1>6. f = [k \in 0 .. Len(t) |-> f[k]]
    OBVIOUS
  <1> HIDE DEF f
  <1>7. OffsetEq(f, t)
    BY <1>5, <1>6 DEF OffsetEq
  <1> QED
    BY <1>7, Zenon DEF Offsets

\* Where the entries begin.
LEMMA OffsetFacts ==
    ASSUME NEW t \in Seq(Record)
    PROVE  /\ Offsets(t)[0] = 44
           /\ \A k \in 0 .. Len(t) - 1 : Offsets(t)[k + 1] = Offsets(t)[k] + SizeOf(t[k + 1].type)
           /\ \A k \in 0 .. Len(t) : Offsets(t)[k] \in Nat /\ Offsets(t)[k] <= 44 + 20 * k
           /\ \A j, k \in 0 .. Len(t) : j < k => Offsets(t)[j] < Offsets(t)[k]
  <1> DEFINE f == Offsets(t)
             n == Len(t)
  <1>0. n \in Nat
    OBVIOUS
  <1>1. OffsetEq(f, t)
    BY OffsetsSolve
  <1> HIDE DEF f
  <1>2. \A k \in 0 .. n : f[k] = IF k = 0 THEN 44 ELSE f[k - 1] + SizeOf(t[k].type)
    BY <1>1 DEF OffsetEq
  <1> HIDE DEF n
  <1>3. f[0] = 44
    BY <1>0, <1>2
  <1>4. ASSUME NEW k \in 0 .. n - 1
        PROVE  f[k + 1] = f[k] + SizeOf(t[k + 1].type)
    <2>1. k + 1 \in 0 .. n /\ k + 1 # 0 /\ k + 1 - 1 = k
      BY <1>0
    <2> QED  BY <2>1, <1>2
  <1> DEFINE T == {k \in Nat : k <= n => /\ f[k] \in Nat /\ f[k] <= 44 + 20 * k
                                         /\ \A j \in 0 .. n : j < k => f[j] \in Nat /\ f[j] < f[k]}
  <1>5. 0 \in T
    BY <1>0, <1>3
  <1>6. ASSUME NEW k \in Nat, k \in T
        PROVE  k + 1 \in T
    <2>1. CASE k + 1 <= n
      <3>1. k \in 0 .. n - 1 /\ k <= n
        BY <1>0, <2>1
      <3>2. PICK z \in {8, 20} : f[k + 1] = f[k] + z
        BY <3>1, <1>4, Sizes
      <3>3. /\ f[k] \in Nat /\ f[k] <= 44 + 20 * k
            /\ \A j \in 0 .. n : j < k => f[j] \in Nat /\ f[j] < f[k]
        BY <1>6, <3>1
      <3>4. f[k + 1] \in Nat /\ f[k + 1] <= 44 + 20 * (k + 1) /\ f[k] < f[k + 1]
        BY <3>2, <3>3
      <3>5. ASSUME NEW j \in 0 .. n, j < k + 1
            PROVE  f[j] \in Nat /\ f[j] < f[k + 1]
        <4>1. CASE j = k
          BY <4>1, <3>3, <3>4
        <4>2. CASE j # k
          <5>1. f[j] \in Nat /\ f[j] < f[k]
            BY <4>2, <3>3, <3>5, <1>0
          <5> QED  BY <5>1, <3>2, <3>3
        <4> QED  BY <4>1, <4>2
      <3> QED  BY <3>4, <3>5
    <2>2. CASE ~(k + 1 <= n)
      BY <2>2
    <2> QED  BY <2>1, <2>2
  <1> HIDE DEF T
  <1>7. Nat \subseteq T
    BY <1>5, <1>6, SetInduction
  <1> QED
    BY <1>0, <1>3, <1>4, <1>7 DEF T, f, n


\* How many processors are among the first entries.
LEMMA ProcsFacts ==
    ASSUME NEW t \in Seq(Record)
    PROVE  /\ Procs(t, 0) = 0
           /\ \A k \in Nat : Procs(t, k) \in Nat
           /\ \A k \in Nat : Procs(t, k + 1) =
                 IF t[k + 1].type = "MPPROC" THEN Procs(t, k) + 1 ELSE Procs(t, k)
           /\ \A j, k \in Nat : j <= k => Procs(t, j) <= Procs(t, k)
  <1>1. ASSUME NEW k \in Nat
        PROVE  IsFiniteSet(ProcSet(t, k)) /\ Procs(t, k) \in Nat
    <2>1. IsFiniteSet(1 .. k)
      BY FS_Interval
    <2>2. ProcSet(t, k) \subseteq 1 .. k
      BY DEF ProcSet
    <2> QED  BY <2>1, <2>2, FS_Subset, FS_CardinalityType DEF Procs
  <1>2. ProcSet(t, 0) = {}
    <2>1. 1 .. 0 = {}
      OBVIOUS
    <2> QED  BY <2>1 DEF ProcSet
  <1>3. Procs(t, 0) = 0
    BY <1>2, FS_EmptySet DEF Procs
  <1>4. ASSUME NEW k \in Nat
        PROVE  Procs(t, k + 1) =
                 IF t[k + 1].type = "MPPROC" THEN Procs(t, k) + 1 ELSE Procs(t, k)
    <2>1. 1 .. k + 1 = (1 .. k) \cup {k + 1} /\ k + 1 \notin 1 .. k
      OBVIOUS
    <2>2. CASE t[k + 1].type = "MPPROC"
      <3>1. ProcSet(t, k + 1) = ProcSet(t, k) \cup {k + 1}
        BY <2>1, <2>2, Zenon DEF ProcSet
      <3>2. k + 1 \notin ProcSet(t, k)
        BY <2>1 DEF ProcSet
      <3> QED  BY <2>2, <3>1, <3>2, <1>1, FS_AddElement DEF Procs
    <2>3. CASE t[k + 1].type # "MPPROC"
      <3>1. ProcSet(t, k + 1) = ProcSet(t, k)
        BY <2>1, <2>3, Zenon DEF ProcSet
      <3> QED  BY <2>3, <3>1 DEF Procs
    <2> QED  BY <2>2, <2>3
  <1>5. ASSUME NEW j \in Nat, NEW k \in Nat, j <= k
        PROVE  Procs(t, j) <= Procs(t, k)
    <2>1. 1 .. j \subseteq 1 .. k
      BY <1>5
    <2>2. ProcSet(t, j) \subseteq ProcSet(t, k)
      BY <2>1 DEF ProcSet
    <2> QED  BY <2>2, <1>1, FS_Subset DEF Procs
  <1> QED
    BY <1>1, <1>3, <1>4, <1>5

-----------------------------------------------------------------------------
(* The walk. *)

Fitting(n) == IF n < NCPU THEN n ELSE NCPU

\* The n-th processor among the first k entries is entered as processor n - 1.
Entered(t, k, c) ==
    \A j \in 1 .. k :
        t[j].type = "MPPROC" /\ Procs(t, j) <= NCPU => c[Procs(t, j) - 1] = t[j].id

\* The loop has passed the first k entries of t: it is at offset q, n
\* processors are entered, and they are c.
Walked(t, k, q, n, c) ==
    q = Offsets(t)[k] /\ n = Fitting(Procs(t, k)) /\ Entered(t, k, c)

\* At the beginning.
LEMMA WalkBegins ==
    ASSUME NEW t \in Seq(Record), NEW c
    PROVE  Walked(t, 0, 44, 0, c)
  <1>1. 1 .. 0 = {}
    OBVIOUS
  <1>2. Fitting(0) = 0
    BY MpAssumption DEF Fitting
  <1> QED
    BY <1>1, <1>2, OffsetFacts, ProcsFacts DEF Walked, Entered

\* Short of the end there is exactly one entry at the offset: the next one.
LEMMA WalkAt ==
    ASSUME NEW t \in Seq(Record), NEW k \in 0 .. Len(t), NEW q, NEW n, NEW c,
           Walked(t, k, q, n, c), q < Offsets(t)[Len(t)]
    PROVE  /\ k + 1 \in 1 .. Len(t)
           /\ {t[i] : i \in {j \in 1 .. Len(t) : Offsets(t)[j - 1] = q}} = {t[k + 1]}
  <1> DEFINE f == Offsets(t)
             m == Len(t)
             J == {j \in 1 .. m : f[j - 1] = q}
  <1>0. m \in Nat
    OBVIOUS
  <1>1. /\ \A i \in 0 .. m : f[i] \in Nat
        /\ \A i, j \in 0 .. m : i < j => f[i] < f[j]
        /\ q = f[k] /\ q < f[m]
    BY OffsetFacts DEF Walked
  <1> HIDE DEF f, m
  <1>2. k \in 0 .. m
    BY DEF m
  <1>3. k + 1 \in 1 .. m /\ k + 1 - 1 = k
    BY <1>0, <1>1, <1>2
  <1>4. ASSUME NEW j \in 1 .. m, f[j - 1] = q
        PROVE  j = k + 1
    <2>1. j - 1 \in 0 .. m
      BY <1>0
    <2>2. ~(j - 1 < k)
      BY <2>1, <1>1, <1>2, <1>4
    <2>3. ~(k < j - 1)
      BY <2>1, <1>1, <1>2, <1>4
    <2> QED  BY <2>1, <2>2, <2>3, <1>0, <1>2
  <1>5. J = {k + 1}
    BY <1>1, <1>3, <1>4
  <1> HIDE DEF J
  <1>6. {t[i] : i \in J} = {t[k + 1]}
    BY <1>5
  <1> QED
    BY <1>3, <1>6 DEF J, f, m

\* Past a processor's entry: it is entered if there is room.
LEMMA WalkProc ==
    ASSUME NEW t \in Seq(Record), NEW k \in Nat, k + 1 \in 1 .. Len(t),
           NEW q, NEW n, NEW c \in [0 .. NCPU - 1 -> Nat],
           Walked(t, k, q, n, c), t[k + 1].type = "MPPROC"
    PROVE  /\ n < NCPU => Walked(t, k + 1, q + 20, n + 1, [c EXCEPT ![n] = t[k + 1].id])
           /\ ~(n < NCPU) => Walked(t, k + 1, q + 20, n, c)
  <1> DEFINE a == Procs(t, k)
             v == t[k + 1].id
  <1>0. NCPU \in Nat \ {0}
    BY MpAssumption
  <1>1. Offsets(t)[k + 1] = q + 20
    <2>1. k \in 0 .. Len(t) - 1
      OBVIOUS
    <2>2. SizeOf(t[k + 1].type) = 20
      BY DEF SizeOf
    <2> QED  BY <2>1, <2>2, OffsetFacts DEF Walked
  <1>2. a \in Nat /\ Procs(t, k + 1) = a + 1 /\ n = Fitting(a)
    BY ProcsFacts DEF Walked
  <1>3. ASSUME NEW j \in 1 .. k
        PROVE  Procs(t, j) \in Nat /\ Procs(t, j) <= a
    <2>1. j \in Nat /\ j <= k
      OBVIOUS
    <2> QED  BY <2>1, ProcsFacts
  <1>4. Entered(t, k, c)
    BY DEF Walked
  <1> HIDE DEF a, v
  <1>5. ASSUME n < NCPU
        PROVE  Walked(t, k + 1, q + 20, n + 1, [c EXCEPT ![n] = v])
    <2>1. n = a /\ n \in 0 .. NCPU - 1
      BY <1>0, <1>2, <1>5 DEF Fitting
    <2>2. n + 1 = Fitting(Procs(t, k + 1))
      BY <1>0, <1>2, <2>1 DEF Fitting
    <2> DEFINE d == [c EXCEPT ![n] = v]
    <2>3. d[n] = v /\ \A i \in 0 .. NCPU - 1 : i # n => d[i] = c[i]
      BY <2>1
    <2> HIDE DEF d
    <2>4. ASSUME NEW j \in 1 .. k + 1, t[j].type = "MPPROC", Procs(t, j) <= NCPU
          PROVE  d[Procs(t, j) - 1] = t[j].id
      <3>1. CASE j = k + 1
        <4>1. Procs(t, j) - 1 = n
          BY <3>1, <1>2, <2>1
        <4> QED  BY <3>1, <4>1, <2>3 DEF v
      <3>2. CASE j # k + 1
        <4>1. j \in 1 .. k
          BY <3>2
        <4>2. c[Procs(t, j) - 1] = t[j].id
          BY <4>1, <2>4, <1>4 DEF Entered
        <4>3. Procs(t, j) # 0
          <5>1. j - 1 \in Nat /\ j - 1 + 1 = j
            BY <4>1
          <5>2. Procs(t, j) = Procs(t, j - 1) + 1 /\ Procs(t, j - 1) \in Nat
            BY <5>1, <2>4, ProcsFacts
          <5> QED  BY <5>2
        <4>4. Procs(t, j) - 1 \in 0 .. NCPU - 1 /\ Procs(t, j) - 1 # n
          <5>1. PICK x \in Nat : x = Procs(t, j)
            BY <4>1, <1>3
          <5>2. a \in Nat /\ x <= a /\ x # 0 /\ x <= NCPU /\ n = a
            BY <5>1, <4>1, <4>3, <1>2, <1>3, <2>1, <2>4
          <5>3. x - 1 \in 0 .. NCPU - 1
            BY <5>2, <1>0
          <5>4. x - 1 # n
            BY <5>2
          <5> QED  BY <5>1, <5>3, <5>4
        <4> QED  BY <4>2, <4>4, <2>3
      <3> QED  BY <3>1, <3>2
    <2>5. Entered(t, k + 1, d)
      BY <2>4 DEF Entered
    <2> QED  BY <1>1, <2>2, <2>5 DEF Walked, d
  <1>6. ASSUME ~(n < NCPU)
        PROVE  Walked(t, k + 1, q + 20, n, c)
    <2>1. n = NCPU /\ ~(a < NCPU)
      BY <1>0, <1>2, <1>6 DEF Fitting
    <2>2. n = Fitting(Procs(t, k + 1)) /\ ~(Procs(t, k + 1) <= NCPU)
      BY <1>0, <1>2, <2>1 DEF Fitting
    <2>3. \A j \in 1 .. k + 1 : j \in 1 .. k \/ j = k + 1
      OBVIOUS
    <2>4. Entered(t, k + 1, c)
      BY <2>2, <2>3, <1>4 DEF Entered
    <2> QED  BY <1>1, <2>2, <2>4 DEF Walked
  <1> QED
    BY <1>5, <1>6 DEF v

\* Past any other entry.
LEMMA WalkOther ==
    ASSUME NEW t \in Seq(Record), NEW k \in Nat, k + 1 \in 1 .. Len(t),
           NEW q, NEW n, NEW c, Walked(t, k, q, n, c), t[k + 1].type # "MPPROC"
    PROVE  Walked(t, k + 1, q + 8, n, c)
  <1>1. Offsets(t)[k + 1] = q + 8
    <2>1. k \in 0 .. Len(t) - 1
      OBVIOUS
    <2>2. SizeOf(t[k + 1].type) = 8
      BY DEF SizeOf
    <2> QED  BY <2>1, <2>2, OffsetFacts DEF Walked
  <1>2. Procs(t, k + 1) = Procs(t, k)
    BY ProcsFacts
  <1>3. \A j \in 1 .. k + 1 : j \in 1 .. k \/ j = k + 1
    OBVIOUS
  <1> QED
    BY <1>1, <1>2, <1>3 DEF Walked, Entered

-----------------------------------------------------------------------------
(* The search. *)

\* What mpsearch1() finds in an area is nothing, or a valid slot of the area.
LEMMA Search1 ==
    ASSUME NEW area \in Seq(Slots)
    PROVE  /\ mpsearch1(area) \in {"none", "default", "table"}
           /\ mpsearch1(area) = "table" => Contains(area, "table")
  <1> DEFINE I == {i \in 1 .. Len(area) : Valid(area[i])}
             k == SelectInSeq(area, Valid)
  <1>0. Len(area) \in Nat /\ I \subseteq Nat
    OBVIOUS
  <1>1. CASE I = {}
    <2>1. k = 0
      BY <1>1 DEF SelectInSeq
    <2> HIDE DEF k
    <2>2. mpsearch1(area) = "none"
      BY <2>1 DEF mpsearch1, k
    <2> QED  BY <2>2
  <1>2. CASE I # {}
    <2>1. PICK x \in I : \A y \in I : x <= y
      BY <1>0, <1>2, LeastElement
    <2>2. Min(I) \in I
      BY <2>1 DEF Min
    <2>3. k = Min(I)
      BY <1>2 DEF SelectInSeq
    <2>4. k \in 1 .. Len(area) /\ Valid(area[k])
      BY <2>2, <2>3
    <2> HIDE DEF k, I
    <2>5. mpsearch1(area) = area[k]
      <3>1. k # 0
        BY <2>4, <1>0
      <3> QED  BY <3>1 DEF mpsearch1, k
    <2> QED  BY <2>4, <2>5 DEF Valid, Contains
  <1> QED
    BY <1>1, <1>2

\* What mpsearch() finds is valid, and in one of the places.
LEMMA MpSearchFinds ==
    ASSUME NEW m \in Images
    PROVE  /\ mpsearch(m) \in {"none", "default", "table"}
           /\ mpsearch(m) = "table" => \E area \in Places : Contains(m.slots[area], "table")
  <1>1. m.slots \in [Places -> Seq(Slots)]
    BY MpAssumption DEF IsImage
  <1> DEFINE one == IF m.ebda THEN "ebda" ELSE "base"
  <1>2. one \in Places /\ "rom" \in Places
    BY DEF Places
  <1> HIDE DEF one
  <1>3. m.slots[one] \in Seq(Slots) /\ m.slots["rom"] \in Seq(Slots)
    BY <1>1, <1>2
  <1>4. mpsearch(m) = mpsearch1(m.slots[one]) \/ mpsearch(m) = mpsearch1(m.slots["rom"])
    BY DEF mpsearch, one
  <1>5. CASE mpsearch(m) = mpsearch1(m.slots[one])
    BY <1>2, <1>3, <1>5, Search1
  <1>6. CASE mpsearch(m) = mpsearch1(m.slots["rom"])
    BY <1>2, <1>3, <1>6, Search1
  <1> QED
    BY <1>4, <1>5, <1>6

-----------------------------------------------------------------------------
(* The inductive invariant. *)

\* The types of all variables but p, whose bound depends on the walk.
FieldsOK ==
    /\ image \in Images
    /\ pc \in {"search", "config", "entries", "done"}
    /\ mp \in Slots \cup {"none"} /\ conf \in {"null", "table"}
    /\ lapic \in {"unset", "null", "table"}
    /\ cpus \in [0 .. NCPU - 1 -> Nat]
    /\ ioapicid \in Nat /\ ismp \in {0, 1}
    /\ said \subseteq {"Expect to run on an SMP", "Didn't find a suitable machine"}

\* The loop has passed some entries, and all of them at the end.
WalkInv ==
    IF pc \in {"search", "config"} THEN p = 0 /\ ncpu = 0
    ELSE \E k \in 0 .. Len(Entries) :
            /\ Walked(Entries, k, p, ncpu, cpus)
            /\ pc = "done" => k = Len(Entries)

IInv == FieldsOK /\ WalkInv

\* The table the loop walks has entries, and the offsets are its offsets.
LEMMA TableIs ==
    ASSUME image \in Images
    PROVE  Entries \in Seq(Record) /\ OffsetOf = Offsets(Entries)
  <1>1. IsImage(image)
    BY MpAssumption
  <1>2. image.entries \in Seq(Record) /\ image.page0 \in Seq(Record)
    BY <1>1 DEF IsImage, Record
  <1>3. Entries \in Seq(Record)
    BY <1>2 DEF Entries
  <1>4. OffsetOf = Offsets(Entries)
    BY Zenon DEF OffsetOf, Offsets, OffsetEq
  <1> QED
    BY <1>3, <1>4

\* It holds when mpinit() is called.
LEMMA InitInv == Init => IInv
  <1> SUFFICES ASSUME Init PROVE IInv
    OBVIOUS
  <1>1. cpus \in [0 .. NCPU - 1 -> Nat]
    BY DEF Init
  <1>2. FieldsOK
    BY <1>1 DEF Init, FieldsOK
  <1> QED
    BY <1>2 DEF Init, IInv, WalkInv

\* At an entry, the loop has passed the k entries before it.
LEMMA EntryIs ==
    ASSUME IInv, NEW types, AtEntry(types)
    PROVE  \E k \in Nat : /\ k + 1 \in 1 .. Len(Entries) /\ Entry = Entries[k + 1]
                          /\ Walked(Entries, k, p, ncpu, cpus)
                          /\ Entries[k + 1].type \in types
                          /\ Entries[k + 1] \in Record
  <1>1. pc = "entries" /\ p < End /\ Entry.type \in types
    BY DEF AtEntry
  <1>2. PICK k \in 0 .. Len(Entries) : Walked(Entries, k, p, ncpu, cpus)
    BY <1>1 DEF IInv, WalkInv
  <1>3. Entries \in Seq(Record) /\ OffsetOf = Offsets(Entries)
    BY TableIs DEF IInv, FieldsOK
  <1>4. p < Offsets(Entries)[Len(Entries)]
    BY <1>1, <1>3 DEF End
  <1>5. /\ k + 1 \in 1 .. Len(Entries)
        /\ {Entries[i] : i \in {j \in 1 .. Len(Entries) : Offsets(Entries)[j - 1] = p}}
             = {Entries[k + 1]}
    BY <1>2, <1>3, <1>4, WalkAt
  <1>6. Here = {Entries[k + 1]}
    BY <1>3, <1>5, Zenon DEF Here
  <1>7. Entry = Entries[k + 1]
    BY <1>6 DEF Entry
  <1>8. k \in Nat /\ Entries[k + 1] \in Record
    BY <1>3, <1>5
  <1> QED
    BY <1>1, <1>2, <1>5, <1>7, <1>8

\* Every step preserves it.
LEMMA StepInv == IInv /\ [Next]_vars => IInv'
  <1> SUFFICES ASSUME IInv, [Next]_vars PROVE IInv'
    OBVIOUS
  <1>0. FieldsOK /\ WalkInv
    BY DEF IInv
  <1>1. NCPU \in Nat \ {0}
    BY MpAssumption
  <1>2. Entries \in Seq(Record)
    BY <1>0, TableIs DEF FieldsOK
  <1>3. CASE Search
    <2>1. mp' \in {"none", "default", "table"}
      BY <1>0, <1>3, MpSearchFinds DEF Search, FieldsOK
    <2>2. FieldsOK'
      BY <1>0, <1>3, <2>1 DEF Search, FieldsOK, Slots
    <2>3. WalkInv'
      BY <1>0, <1>3 DEF Search, WalkInv
    <2> QED  BY <2>2, <2>3 DEF IInv
  <1>4. CASE Config
    <2>1. conf' = mpconfig(image, mp) /\ image' = image /\ mp' = mp /\ pc = "config"
          /\ pc' = "entries" /\ cpus' = cpus /\ ncpu' = ncpu /\ p' = 44 /\ lapic' = conf'
          /\ ioapicid' = ioapicid /\ ismp' = ismp
      BY <1>4 DEF Config
    <2>2. conf' \in {"null", "table"}
      BY <2>1 DEF mpconfig
    <2>3. said' = IF conf' = "null" THEN said \cup {"Expect to run on an SMP"} ELSE said
      BY <1>4 DEF Config
    <2>4. FieldsOK'
      BY <1>0, <2>1, <2>2, <2>3 DEF FieldsOK
    <2>7. WalkInv'
      <3>1. Entries' \in Seq(Record)
        <4>1. (image \in Images)'
          BY <2>4 DEF FieldsOK
        <4>2. IsImage(image')
          BY <4>1, MpAssumption
        <4>3. image'.entries \in Seq(Record) /\ image'.page0 \in Seq(Record)
          BY <4>2 DEF IsImage, Record
        <4> QED  BY <4>3 DEF Entries
      <3>2. ncpu' = 0
        BY <1>0, <2>1 DEF WalkInv
      <3>3. Walked(Entries', 0, p', ncpu', cpus')
        BY <2>1, <3>1, <3>2, WalkBegins
      <3>4. 0 \in 0 .. Len(Entries')
        BY <3>1
      <3> QED  BY <2>1, <3>3, <3>4 DEF WalkInv
    <2> QED  BY <2>4, <2>7 DEF IInv
  <1>5. CASE EntryProc
    <2>1. AtEntry({"MPPROC"}) /\ pc = "entries" /\ p' = p + 20
          /\ image' = image /\ pc' = pc /\ mp' = mp /\ conf' = conf /\ lapic' = lapic
          /\ ioapicid' = ioapicid /\ ismp' = ismp /\ said' = said
      BY <1>5 DEF EntryProc, AtEntry
    <2>2. PICK k \in Nat : /\ k + 1 \in 1 .. Len(Entries) /\ Entry = Entries[k + 1]
                           /\ Walked(Entries, k, p, ncpu, cpus)
                           /\ Entries[k + 1].type = "MPPROC"
                           /\ Entries[k + 1] \in Record
      BY <2>1, EntryIs
    <2>3. cpus \in [0 .. NCPU - 1 -> Nat]
      BY <1>0 DEF FieldsOK
    <2>4. Entries' = Entries
      BY <2>1 DEF Entries
    <2>5. Entry.id \in Nat
      BY <2>2 DEF Record
    <2>6. /\ ncpu < NCPU => Walked(Entries, k + 1, p + 20, ncpu + 1,
                                   [cpus EXCEPT ![ncpu] = Entries[k + 1].id])
          /\ ~(ncpu < NCPU) => Walked(Entries, k + 1, p + 20, ncpu, cpus)
      BY <1>2, <2>2, <2>3, WalkProc
    <2>7. \/ ncpu < NCPU /\ cpus' = [cpus EXCEPT ![ncpu] = Entries[k + 1].id] /\ ncpu' = ncpu + 1
          \/ ~(ncpu < NCPU) /\ cpus' = cpus /\ ncpu' = ncpu
      BY <1>5, <2>2 DEF EntryProc
    <2>8. Walked(Entries', k + 1, p', ncpu', cpus')
      BY <2>1, <2>4, <2>6, <2>7
    <2>9. cpus' \in [0 .. NCPU - 1 -> Nat]
      BY <2>2, <2>3, <2>5, <2>7
    <2>10. FieldsOK'
      BY <1>0, <2>1, <2>9 DEF FieldsOK
    <2>12. WalkInv'
      <3>1. k + 1 \in 0 .. Len(Entries')
        BY <2>2, <2>4
      <3> QED  BY <2>1, <2>8, <3>1 DEF WalkInv
    <2> QED  BY <2>10, <2>12 DEF IInv
  <1>6. ASSUME EntryIoapic \/ EntryOther
        PROVE  IInv'
    <2>1. PICK types \in SUBSET Types : "MPPROC" \notin types /\ AtEntry(types)
      BY <1>6 DEF EntryIoapic, EntryOther, Types
    <2>2. pc = "entries" /\ p' = p + 8 /\ image' = image /\ pc' = pc /\ mp' = mp /\ conf' = conf
          /\ lapic' = lapic /\ cpus' = cpus /\ ncpu' = ncpu /\ ismp' = ismp /\ said' = said
      BY <1>6 DEF EntryIoapic, EntryOther, AtEntry
    <2>3. PICK k \in Nat : /\ k + 1 \in 1 .. Len(Entries) /\ Entry = Entries[k + 1]
                           /\ Walked(Entries, k, p, ncpu, cpus)
                           /\ Entries[k + 1].type # "MPPROC"
                           /\ Entries[k + 1] \in Record
      BY <2>1, EntryIs
    <2>4. ioapicid' \in Nat
      <3>1. Entry.id \in Nat
        BY <2>3 DEF Record
      <3> QED  BY <1>0, <1>6, <3>1 DEF EntryIoapic, EntryOther, FieldsOK
    <2>5. Entries' = Entries
      BY <2>2 DEF Entries
    <2>6. Walked(Entries', k + 1, p', ncpu', cpus')
      BY <1>2, <2>2, <2>3, <2>5, WalkOther
    <2>7. FieldsOK'
      BY <1>0, <2>2, <2>4 DEF FieldsOK
    <2>9. WalkInv'
      <3>1. k + 1 \in 0 .. Len(Entries')
        BY <2>3, <2>5
      <3> QED  BY <2>2, <2>6, <3>1 DEF WalkInv
    <2> QED  BY <2>7, <2>9 DEF IInv
  <1>7. CASE EntryUnknown
    <2>1. ismp' = 0 /\ UNCHANGED <<image, pc, mp, conf, lapic, p, cpus, ncpu, ioapicid, said>>
      BY <1>7 DEF EntryUnknown
    <2>2. Entries' = Entries
      BY <2>1 DEF Entries
    <2> QED
      BY <1>0, <2>1, <2>2 DEF IInv, FieldsOK, WalkInv
  <1>8. CASE LoopEnds
    <2>1. pc = "entries" /\ p >= End /\ pc' = "done"
          /\ UNCHANGED <<image, mp, conf, lapic, p, cpus, ncpu, ioapicid, ismp>>
      BY <1>8 DEF LoopEnds
    <2>2. said' = said \/ said' = said \cup {"Didn't find a suitable machine"}
      BY <1>8 DEF LoopEnds
    <2>3. Entries' = Entries
      BY <2>1 DEF Entries
    <2>4. FieldsOK'
      BY <1>0, <2>1, <2>2 DEF FieldsOK
    <2>6. PICK k \in 0 .. Len(Entries) : Walked(Entries, k, p, ncpu, cpus)
      BY <1>0, <2>1 DEF WalkInv
    <2>7. k = Len(Entries)
      <3> DEFINE f == Offsets(Entries)
                 m == Len(Entries)
      <3>1. p = f[k] /\ f[m] \in Nat /\ f[k] \in Nat /\ (k < m => f[k] < f[m])
        BY <1>2, <2>6, OffsetFacts DEF Walked
      <3>2. p >= f[m]
        BY <1>0, <2>1, TableIs DEF End, FieldsOK
      <3>3. k \in 0 .. m /\ m \in Nat
        BY <1>2, <2>6
      <3> HIDE DEF f, m
      <3>4. k = m
        BY <3>1, <3>2, <3>3
      <3> QED  BY <3>4 DEF m
    <2>8. WalkInv'
      BY <2>1, <2>3, <2>6, <2>7 DEF WalkInv
    <2> QED  BY <2>4, <2>8 DEF IInv
  <1>9. CASE UNCHANGED vars
    <2>1. Entries' = Entries
      BY <1>9 DEF vars, Entries
    <2> QED
      BY <1>0, <1>9, <2>1 DEF vars, IInv, FieldsOK, WalkInv
  <1> QED
    BY <1>3, <1>4, <1>5, <1>6, <1>7, <1>8, <1>9 DEF Next, Returned

\* The invariant holds in every state mpinit() reaches.
LEMMA MpInductive == Spec => []IInv
  BY InitInv, StepInv, PTL DEF Spec

-----------------------------------------------------------------------------
(* The theorems. *)

\* Every variable of mpinit() keeps its type: in particular p never passes the
\* end of the table and ncpu never the end of cpus[], however many processors
\* firmware lists.
THEOREM MpTypeOK == Spec => []TypeOK
  <1>1. ASSUME IInv PROVE TypeOK
    <2>1. Entries \in Seq(Record)
      BY <1>1, TableIs DEF IInv, FieldsOK
    <2>2. p \in 0 .. 44 + 20 * Len(Entries) /\ ncpu \in 0 .. NCPU
      <3>0. Len(Entries) \in Nat /\ NCPU \in Nat \ {0}
        BY <2>1, MpAssumption
      <3>1. CASE pc \in {"search", "config"}
        BY <1>1, <3>0, <3>1 DEF IInv, WalkInv
      <3>2. CASE pc \notin {"search", "config"}
        <4>1. PICK k \in 0 .. Len(Entries) : Walked(Entries, k, p, ncpu, cpus)
          BY <1>1, <3>2 DEF IInv, WalkInv
        <4> DEFINE q == Offsets(Entries)[k]
                   a == Procs(Entries, k)
        <4>2. p = q /\ ncpu = Fitting(a) /\ q \in Nat /\ q <= 44 + 20 * k
          BY <2>1, <4>1, OffsetFacts DEF Walked
        <4>3. a \in Nat
          BY <2>1, <3>0, <4>1, ProcsFacts
        <4> HIDE DEF q, a
        <4>4. q \in 0 .. 44 + 20 * Len(Entries)
          BY <3>0, <4>1, <4>2
        <4>5. Fitting(a) \in 0 .. NCPU
          BY <3>0, <4>3 DEF Fitting
        <4> QED  BY <4>2, <4>4, <4>5
      <3> QED  BY <3>1, <3>2
    <2> QED  BY <1>1, <2>2 DEF IInv, FieldsOK, TypeOK
  <1> QED
    BY <1>1, MpInductive, PTL

\* When mpinit() has returned, cpus[] holds the APIC ids of the processors in
\* the order of the table, as many as fit, for a table of any length and with
\* other entries anywhere in between.
THEOREM MpCpusAreProcessors == Spec => []CpusAreProcessors
  <1>1. ASSUME IInv PROVE CpusAreProcessors
    <2>1. SUFFICES ASSUME pc = "done" PROVE CpusAreProcessors
      BY DEF CpusAreProcessors
    <2>2. Walked(Entries, Len(Entries), p, ncpu, cpus)
      BY <1>1, <2>1 DEF IInv, WalkInv
    <2>3. \A k : ProcsUpTo(k) = Procs(Entries, k)
      BY Zenon DEF ProcsUpTo, Procs, ProcSet
    <2> QED
      BY <2>2, <2>3 DEF Walked, Fitting, Entered, CpusAreProcessors
  <1> QED
    BY <1>1, MpInductive, PTL

=============================================================================
