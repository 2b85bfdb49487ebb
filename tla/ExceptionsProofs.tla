-------------------------- MODULE ExceptionsProofs --------------------------
(***************************************************************************)
(* TLAPS proofs about Exceptions, for any processors, programs, exception   *)
(* tables, error codes and stacks: the frame C code sees describes the      *)
(* exception, a handled exception returns without a trace, and the word at  *)
(* gs:4 tells what was raised.                                              *)
(***************************************************************************)
EXTENDS Exceptions, SequenceTheorems, TLAPS

-----------------------------------------------------------------------------
(* The invariant. *)

Points == {"run", "try", "read", "print", "stub", "dispatch", "check", "restore",
           "report", "reporting", "loop"}

Interrupted == [vector : 0 .. 31, error_code : Nat, rip : Nat, rf : {0, 1},
                regs : [Reg -> Int], stack : Seq(Int)]

ProgramType ==
    /\ gates \in {{}, EX \cup EX_E}
    /\ pc \in [Cpu -> Points]
    /\ regs \in [Cpu -> [Reg -> Int]]
    /\ rip \in [Cpu -> Nat] /\ rf \in [Cpu -> {0, 1}]
    /\ stack \in [Cpu -> Seq(Int)]
    /\ raised \in [Cpu -> Interrupted \cup {None}]

\* Where the frame of an exception begins: the processor aligned the stack.
Base(s) == Len(s) + (Len(s) % 2)

\* The words the processor pushes without the error code: ss, rsp, rflags, cs
\* and rip.
Pushes(s, e, r) ==
    /\ \A k \in 1 .. Len(e.stack) : s[k] = e.stack[k]
    /\ s[Base(e.stack) + 2] = Len(e.stack)
    /\ s[Base(e.stack) + 3] = Rflags(e.rf)
    /\ s[Base(e.stack) + 4] = CS
    /\ s[Base(e.stack) + 5] = r

\* Stack s holds the complete frame of exception e, which returns to r.
Frame(s, e, r) ==
    /\ Len(s) = Base(e.stack) + 23
    /\ Pushes(s, e, r)
    /\ s[Base(e.stack) + 6] = e.error_code
    /\ s[Base(e.stack) + 7] = e.vector
    /\ \A k \in 1 .. 16 : Pushed[k] # "dummy" => s[Base(e.stack) + 7 + k] = e.regs[Pushed[k]]

\* The frame in front of the stub: the error code is there if the processor
\* pushed one, and the stub knows whether it did.
RawFrame(s, e) ==
    /\ Pushes(s, e, e.rip)
    /\ IF e.vector \in EX
       THEN Len(s) = Base(e.stack) + 5 /\ e.error_code = 0
       ELSE Len(s) = Base(e.stack) + 6 /\ s[Base(e.stack) + 6] = e.error_code

CpuInv(c) ==
    /\ pc[c] \in {"run", "try", "print"} => raised[c] = None
    /\ pc[c] \in {"try", "print"} => gates = EX \cup EX_E
    /\ pc[c] \in {"stub", "dispatch", "check", "restore"} =>
          raised[c] \in Interrupted /\ raised[c].vector \in EX \cup EX_E
    /\ pc[c] = "stub" => RawFrame(stack[c], raised[c]) /\ regs[c] = raised[c].regs
    /\ pc[c] \in {"dispatch", "check"} => Frame(stack[c], raised[c], raised[c].rip)
    /\ pc[c] = "restore" =>
          /\ raised[c].rip \in DOMAIN Table
          /\ Frame(stack[c], raised[c], Table[raised[c].rip])
          /\ recorder = c => gs4 = ExVal(raised[c].vector, raised[c].error_code, raised[c].rf)
    /\ pc[c] = "try" /\ recorder = c => gs4 = 0

\* What the program finds when it goes on after the guarded instruction.
ReadInv(c) ==
    pc[c] = "read" =>
        /\ raised[c] # None =>
              /\ rip[c] = Table[raised[c].rip]
              /\ regs[c] = raised[c].regs /\ stack[c] = raised[c].stack
              /\ rf[c] = raised[c].rf
        /\ recorder = c =>
              IF raised[c] = None THEN gs4 = 0
              ELSE exception_vector = raised[c].vector /\ exception_rflags_rf = raised[c].rf

IInv == ProgramType /\ \A c \in Cpu : CpuInv(c) /\ ReadInv(c)

-----------------------------------------------------------------------------
(* The layout of struct ex_regs and the order of the pushes. *)

Index(f) == CHOOSE k \in DOMAIN ex_regs : ex_regs[k] = f
PushIndex(r) == CHOOSE k \in DOMAIN Pushed : Pushed[k] = r

\* The domains of the two tuples.
LEMMA Layouts ==
    /\ DOMAIN ex_regs = 1 .. 21 /\ DOMAIN Pushed = 1 .. 16 /\ Len(Pushed) = 16
  BY DEF ex_regs, Pushed

\* The fields behind the registers, from the lowest address.
LEMMA FrameFields ==
    /\ Index("vector") = 17 /\ Index("error_code") = 18
    /\ Index("rip") = 19 /\ Index("cs") = 20 /\ Index("rflags") = 21
  <1>1. \A k \in 1 .. 21 : /\ ex_regs[k] = "vector" <=> k = 17
                           /\ ex_regs[k] = "error_code" <=> k = 18
                           /\ ex_regs[k] = "rip" <=> k = 19
                           /\ ex_regs[k] = "cs" <=> k = 20
                           /\ ex_regs[k] = "rflags" <=> k = 21
    BY DEF ex_regs
  <1> QED
    BY <1>1, Layouts DEF Index

\* Every register is pushed once, and the struct has it where the push puts it.
LEMMA RegisterFields ==
    ASSUME NEW r \in Reg
    PROVE  /\ Index(r) \in 1 .. 16 /\ Pushed[17 - Index(r)] = r
           /\ PushIndex(r) \in 1 .. 16 /\ Pushed[PushIndex(r)] = r
           /\ r # "dummy"
  <1>1. \A k \in 1 .. 21 : ex_regs[k] = r => k \in 1 .. 16 /\ Pushed[17 - k] = r
    BY DEF ex_regs, Pushed, Reg
  <1>2. (\E k \in 1 .. 21 : ex_regs[k] = r) /\ (\E k \in 1 .. 16 : Pushed[k] = r)
    BY DEF ex_regs, Pushed, Reg
  <1>3. Index(r) \in 1 .. 21 /\ ex_regs[Index(r)] = r
    BY <1>2, Layouts DEF Index
  <1>4. PushIndex(r) \in 1 .. 16 /\ Pushed[PushIndex(r)] = r
    BY <1>2, Layouts DEF PushIndex
  <1> QED
    BY <1>1, <1>3, <1>4 DEF Reg

\* None is no exception.
LEMMA NoneIsNone == None \notin Interrupted
  BY DEF None, Interrupted

-----------------------------------------------------------------------------
(* What the processor and the stub push. *)

\* t is a, of length n, and then b, of length m.
Joined(t, a, b, n, m) ==
    /\ t \in Seq(Int) /\ Len(t) = n + m
    /\ \A k \in 1 .. n : t[k] = a[k]
    /\ \A k \in 1 .. m : t[n + k] = b[k]

\* Where the elements of two sequences are in their concatenation.
LEMMA Concatenation ==
    ASSUME NEW a \in Seq(Int), NEW b \in Seq(Int), NEW n \in Nat, NEW m \in Nat,
           Len(a) = n, Len(b) = m
    PROVE  Joined(a \o b, a, b, n, m)
  BY DEF Joined

\* The stack after the processor has pushed its frame, and after the stub.
Delivery(s, v, e, r, b) ==
    s \o (IF Len(s) % 2 = 1 THEN <<0>> ELSE <<>>) \o <<SS, Len(s), Rflags(b), CS, r>>
      \o (IF v \in HasErrorCode THEN <<e>> ELSE <<>>)

Saved(g) == [k \in DOMAIN Pushed |-> IF Pushed[k] = "dummy" THEN 0 ELSE g[Pushed[k]]]

Completion(s, v, g) == s \o (IF v \in EX THEN <<0>> ELSE <<>>) \o <<v>> \o Saved(g)

DeliveredFrame(t, s, v, e, r, b) ==
    /\ Base(s) \in Nat /\ Base(s) >= Len(s) /\ t \in Seq(Int)
    /\ \A k \in 1 .. Len(s) : t[k] = s[k]
    /\ t[Base(s) + 2] = Len(s) /\ t[Base(s) + 3] = Rflags(b)
    /\ t[Base(s) + 4] = CS /\ t[Base(s) + 5] = r
    /\ v \notin HasErrorCode => Len(t) = Base(s) + 5
    /\ v \in HasErrorCode => Len(t) = Base(s) + 6 /\ t[Base(s) + 6] = e

\* The words of a delivery, without the vector's part in them.
LEMMA DeliveredWords ==
    ASSUME NEW s \in Seq(Int), NEW v, NEW e \in Nat, NEW r \in Nat, NEW b \in {0, 1}
    PROVE  DeliveredFrame(Delivery(s, v, e, r, b), s, v, e, r, b)
  <1> DEFINE pad == IF Len(s) % 2 = 1 THEN <<0>> ELSE <<>>
             q == s \o pad
             f == <<SS, Len(s), Rflags(b), CS, r>>
             h == q \o f
             tl == IF v \in HasErrorCode THEN <<e>> ELSE <<>>
             m == IF v \in HasErrorCode THEN 1 ELSE 0
             t == h \o tl
             B == Base(s)
  <1>0. t = Delivery(s, v, e, r, b)
    BY DEF Delivery
  <1>1. Rflags(b) \in Int /\ Len(s) \in Nat /\ Len(s) % 2 \in {0, 1}
    BY DEF Rflags
  <1>2. B \in Nat /\ B >= Len(s) /\ B = Len(s) + (Len(s) % 2)
    BY <1>1 DEF Base
  <1>3. pad \in Seq(Int) /\ Len(pad) = Len(s) % 2
    BY <1>1
  <1>4. f \in Seq(Int) /\ Len(f) = 5 /\ f[2] = Len(s) /\ f[3] = Rflags(b) /\ f[4] = CS /\ f[5] = r
    BY <1>1 DEF SS, CS
  <1>5. tl \in Seq(Int) /\ m \in Nat /\ Len(tl) = m /\ (v \in HasErrorCode => tl[1] = e)
    OBVIOUS
  <1>6. m = IF v \in HasErrorCode THEN 1 ELSE 0
    OBVIOUS
  <1> HIDE DEF pad, f, tl, m, B
  <1>7. q \in Seq(Int) /\ Len(q) = B /\ \A k \in 1 .. Len(s) : q[k] = s[k]
    BY <1>1, <1>2, <1>3
  <1> HIDE DEF q
  <1>8. Joined(h, q, f, B, 5)
    BY <1>2, <1>4, <1>7, Concatenation
  <1> HIDE DEF h
  <1>8a. h \in Seq(Int) /\ Len(h) = B + 5 /\ B + 5 \in Nat
    BY <1>2, <1>8 DEF Joined
  <1>9. Joined(t, h, tl, B + 5, m)
    BY <1>5, <1>8a, Concatenation
  <1> HIDE DEF t
  <1>9a. t \in Seq(Int) /\ Len(t) = B + 5 + m
    BY <1>9 DEF Joined
  <1>10. ASSUME NEW k \in 1 .. Len(s)
         PROVE  t[k] = s[k]
    <2>1. k \in 1 .. B /\ k \in 1 .. B + 5
      BY <1>1, <1>2
    <2>2. t[k] = h[k] /\ h[k] = q[k]
      BY <2>1, <1>8, <1>9 DEF Joined
    <2> QED  BY <2>2, <1>7
  <1>11. ASSUME NEW k \in 1 .. 5
         PROVE  t[B + k] = f[k]
    <2>1. B + k \in 1 .. B + 5
      BY <1>2
    <2>2. t[B + k] = h[B + k]
      BY <2>1, <1>9 DEF Joined
    <2>3. h[B + k] = f[k]
      BY <1>8 DEF Joined
    <2> QED  BY <2>2, <2>3
  <1>12. t[B + 2] = Len(s) /\ t[B + 3] = Rflags(b) /\ t[B + 4] = CS /\ t[B + 5] = r
    BY <1>4, <1>11
  <1>13. /\ v \notin HasErrorCode => Len(t) = B + 5
         /\ v \in HasErrorCode => Len(t) = B + 6 /\ t[B + 6] = e
    <2>1. CASE v \in HasErrorCode
      <3>1. m = 1 /\ tl[1] = e
        BY <2>1, <1>5, <1>6
      <3>2. Len(t) = B + 6 /\ t[B + 6] = tl[1]
        BY <3>1, <1>2, <1>9, <1>9a DEF Joined
      <3> QED  BY <2>1, <3>1, <3>2
    <2>2. CASE v \notin HasErrorCode
      BY <2>2, <1>2, <1>6, <1>9a
    <2> QED  BY <2>1, <2>2
  <1> QED
    BY <1>0, <1>1, <1>2, <1>9a, <1>10, <1>12, <1>13 DEF B, DeliveredFrame

\* What the processor pushes is what the stub of the vector expects.
LEMMA ProcessorPushes ==
    ASSUME NEW s \in Seq(Int), NEW v \in 0 .. 31, NEW e \in Nat, NEW r \in Nat, NEW b \in {0, 1},
           NEW g \in [Reg -> Int], v \in EX \cup EX_E,
           v \notin HasErrorCode => e = 0,
           NEW x, x = [vector |-> v, error_code |-> e, rip |-> r, rf |-> b, regs |-> g, stack |-> s]
    PROVE  /\ x \in Interrupted /\ Delivery(s, v, e, r, b) \in Seq(Int)
           /\ RawFrame(Delivery(s, v, e, r, b), x)
  <1>1. x \in Interrupted
    BY DEF Interrupted
  <1>2. v \in HasErrorCode <=> v \notin EX
    BY DEF EX, EX_E, HasErrorCode
  <1>3. x.stack = s /\ x.rf = b /\ x.rip = r /\ x.vector = v /\ x.error_code = e
    OBVIOUS
  <1> DEFINE t == Delivery(s, v, e, r, b)
  <1> HIDE DEF t
  <1>4. DeliveredFrame(t, s, v, e, r, b)
    BY DeliveredWords DEF t
  <1>5. Pushes(t, x, x.rip)
    BY <1>3, <1>4 DEF Pushes, DeliveredFrame
  <1>6. RawFrame(t, x)
    BY <1>2, <1>3, <1>4, <1>5 DEF RawFrame, DeliveredFrame
  <1> QED
    BY <1>1, <1>4, <1>6 DEF t, DeliveredFrame

\* Every word pushed that is not the skipped one is a register.
LEMMA SavedRegisters ==
    ASSUME NEW g \in [Reg -> Int]
    PROVE  /\ Saved(g) \in Seq(Int) /\ Len(Saved(g)) = 16
           /\ \A k \in 1 .. 16 : Pushed[k] # "dummy" => Saved(g)[k] = g[Pushed[k]]
  <1>1. \A k \in 1 .. 16 : Pushed[k] # "dummy" => Pushed[k] \in Reg
    BY DEF Pushed, Reg
  <1>2. Saved(g) \in [1 .. 16 -> Int]
    BY <1>1, Layouts DEF Saved
  <1>3. \A k \in 1 .. 16 : Pushed[k] # "dummy" => Saved(g)[k] = g[Pushed[k]]
    BY Layouts DEF Saved
  <1>4. Saved(g) \in Seq(Int)
    <2>1. \E n \in Nat : Saved(g) \in [1 .. n -> Int]
      BY <1>2
    <2>2. Seq(Int) = UNION {[1 .. n -> Int] : n \in Nat}
      BY SeqDef, Zenon
    <2> QED  BY <2>1, <2>2, Zenon
  <1>5. Len(Saved(g)) = 16
    <2>1. DOMAIN Saved(g) = 1 .. 16
      BY <1>2
    <2>2. Len(Saved(g)) \in Nat /\ DOMAIN Saved(g) = 1 .. Len(Saved(g))
      BY <1>4
    <2> QED  BY <2>1, <2>2
  <1> QED
    BY <1>3, <1>4, <1>5

CompletedFrame(t, s, v, g, B, e) ==
    /\ t \in Seq(Int) /\ Len(t) = B + 23
    /\ \A k \in 1 .. B + 5 : t[k] = s[k]
    /\ t[B + 6] = e /\ t[B + 7] = v
    /\ \A k \in 1 .. 16 : Pushed[k] # "dummy" => t[B + 7 + k] = g[Pushed[k]]

\* The words of a completed frame.
LEMMA CompletedWords ==
    ASSUME NEW s \in Seq(Int), NEW v \in Int, NEW g \in [Reg -> Int], NEW B \in Nat, NEW e \in Int,
           IF v \in EX THEN Len(s) = B + 5 /\ e = 0 ELSE Len(s) = B + 6 /\ s[B + 6] = e
    PROVE  CompletedFrame(Completion(s, v, g), s, v, g, B, e)
  <1> DEFINE z == IF v \in EX THEN <<0>> ELSE <<>>
             h == s \o z
             i == h \o <<v>>
             w == Saved(g)
             t == i \o w
  <1>0. t = Completion(s, v, g)
    BY DEF Completion
  <1>1. h \in Seq(Int) /\ Len(h) = B + 6 /\ h[B + 6] = e /\ \A k \in 1 .. B + 5 : h[k] = s[k]
    <2>1. CASE v \in EX
      <3>1. Len(s) = B + 5 /\ e = 0 /\ h = s \o <<0>>
        BY <2>1
      <3> HIDE DEF h
      <3> QED  BY <3>1
    <2>2. CASE v \notin EX
      <3>1. Len(s) = B + 6 /\ s[B + 6] = e /\ h = s
        BY <2>2
      <3> HIDE DEF h
      <3> QED  BY <3>1
    <2> QED  BY <2>1, <2>2
  <1> HIDE DEF h
  <1>2. /\ i \in Seq(Int) /\ Len(i) = B + 7
        /\ \A k \in 1 .. B + 6 : i[k] = h[k]
        /\ i[B + 7] = v
    BY <1>1
  <1>3. w \in Seq(Int) /\ Len(w) = 16
        /\ \A k \in 1 .. 16 : Pushed[k] # "dummy" => w[k] = g[Pushed[k]]
    BY SavedRegisters
  <1> HIDE DEF i, w
  <1>4. Joined(t, i, w, B + 7, 16)
    <2>1. B + 7 \in Nat /\ 16 \in Nat
      OBVIOUS
    <2> QED  BY <1>2, <1>3, <2>1, Concatenation, Zenon
  <1> HIDE DEF t
  <1>5. t \in Seq(Int) /\ Len(t) = B + 23
    BY <1>4 DEF Joined
  <1>6. ASSUME NEW k \in 1 .. B + 5
        PROVE  t[k] = s[k]
    <2>1. k \in 1 .. B + 6 /\ k \in 1 .. B + 7
      OBVIOUS
    <2>2. t[k] = i[k]
      BY <2>1, <1>4 DEF Joined
    <2> QED  BY <2>1, <2>2, <1>1, <1>2
  <1>7. t[B + 6] = e /\ t[B + 7] = v
    <2>1. B + 6 \in 1 .. B + 6 /\ B + 6 \in 1 .. B + 7 /\ B + 7 \in 1 .. B + 7
      OBVIOUS
    <2>2. t[B + 6] = i[B + 6] /\ t[B + 7] = i[B + 7]
      BY <2>1, <1>4 DEF Joined
    <2> QED  BY <2>1, <2>2, <1>1, <1>2
  <1>8. ASSUME NEW k \in 1 .. 16, Pushed[k] # "dummy"
        PROVE  t[B + 7 + k] = g[Pushed[k]]
    <2>1. t[B + 7 + k] = w[k]
      BY <1>4 DEF Joined
    <2> QED  BY <2>1, <1>3, <1>8
  <1> QED
    BY <1>0, <1>5, <1>6, <1>7, <1>8 DEF CompletedFrame

\* The stub completes the frame.
LEMMA StubCompletes ==
    ASSUME NEW s \in Seq(Int), NEW x \in Interrupted, RawFrame(s, x)
    PROVE  /\ Completion(s, x.vector, x.regs) \in Seq(Int)
           /\ Frame(Completion(s, x.vector, x.regs), x, x.rip)
  <1> DEFINE B == Base(x.stack)
             n == Len(x.stack)
             t == Completion(s, x.vector, x.regs)
  <1>1. /\ x.stack \in Seq(Int) /\ x.vector \in Int /\ x.error_code \in Int
        /\ x.regs \in [Reg -> Int]
    <2> HIDE DEF B, n, t
    <2>1. /\ x.stack \in Seq(Int) /\ x.vector \in 0 .. 31 /\ x.error_code \in Nat
          /\ x.regs \in [Reg -> Int]
      BY Zenon DEF Interrupted
    <2>2. 0 .. 31 \subseteq Int /\ Nat \subseteq Int
      OBVIOUS
    <2> QED  BY <2>1, <2>2, Zenon
  <1>2. n \in Nat /\ B \in Nat /\ B >= n
    <2>1. n \in Nat
      BY <1>1
    <2> HIDE DEF n
    <2>2. B = n + (n % 2)
      BY DEF Base, n
    <2> HIDE DEF B
    <2> QED  BY <2>1, <2>2
  <1>3. IF x.vector \in EX THEN Len(s) = B + 5 /\ x.error_code = 0
        ELSE Len(s) = B + 6 /\ s[B + 6] = x.error_code
    BY DEF RawFrame
  <1>4. Pushes(s, x, x.rip)
    BY DEF RawFrame
  <1> HIDE DEF B, t, n
  <1>5. CompletedFrame(t, s, x.vector, x.regs, B, x.error_code)
    BY <1>1, <1>2, <1>3, CompletedWords DEF t
  <1>6. ASSUME NEW k \in 1 .. n
        PROVE  t[k] = s[k]
    <2>1. k \in 1 .. B + 5
      BY <1>2
    <2> QED  BY <1>5, <2>1 DEF CompletedFrame
  <1>7. ASSUME NEW k \in 2 .. 5
        PROVE  t[B + k] = s[B + k]
    <2>1. B + k \in 1 .. B + 5
      BY <1>2
    <2> QED  BY <1>5, <2>1 DEF CompletedFrame
  <1>8. Pushes(t, x, x.rip)
    BY <1>4, <1>6, <1>7 DEF Pushes, B, n
  <1> QED
    BY <1>5, <1>8 DEF Frame, B, t, CompletedFrame

-----------------------------------------------------------------------------
(* Initially. *)

\* The invariant holds when the program starts.
LEMMA InitInv == ASSUME Init PROVE IInv
  <1>1. ProgramType
    <2>1. \A r \in Reg : (CHOOSE k \in DOMAIN Pushed : Pushed[k] = r) \in Int
      <3>1. \A r \in Reg : PushIndex(r) \in Int
        BY RegisterFields
      <3> QED  BY <3>1, Zenon DEF PushIndex
    <2>2. regs \in [Cpu -> [Reg -> Int]]
      BY <2>1 DEF Init
    <2>3. stack \in [Cpu -> Seq(Int)]
      <3>1. <<>> \in Seq(Int) /\ <<99>> \in Seq(Int)
        OBVIOUS
      <3> QED  BY <3>1, Zenon DEF Init
    <2>4. /\ gates \in {{}, EX \cup EX_E} /\ pc \in [Cpu -> Points]
          /\ raised \in [Cpu -> Interrupted \cup {None}]
      BY DEF Init, Points
    <2>5. rip \in [Cpu -> Nat] /\ rf \in [Cpu -> {0, 1}]
      BY DEF Init
    <2> QED  BY <2>2, <2>3, <2>4, <2>5 DEF ProgramType
  <1>2. ASSUME NEW c \in Cpu
        PROVE  CpuInv(c) /\ ReadInv(c)
    <2>1. pc[c] = "run" /\ raised[c] = None
      BY DEF Init
    <2> QED  BY <2>1 DEF CpuInv, ReadInv
  <1> QED
    BY <1>1, <1>2 DEF IInv

-----------------------------------------------------------------------------
(* One processor's step leaves the others alone. *)

\* Processor c keeps what the invariant says of processor d.
Leaves(d) ==
    /\ pc'[d] = pc[d] /\ raised'[d] = raised[d] /\ stack'[d] = stack[d]
    /\ regs'[d] = regs[d] /\ rip'[d] = rip[d] /\ rf'[d] = rf[d]
    /\ gates' = gates
    /\ (gs4' = gs4 /\ recorder' = recorder) \/ recorder' # d

\* What is said of a processor left alone stays true.
LEMMA LeftAlone ==
    ASSUME NEW d \in Cpu, Leaves(d), CpuInv(d), ReadInv(d)
    PROVE  CpuInv(d)' /\ ReadInv(d)'
  <1>1. CpuInv(d)'
    <2>1. CASE recorder' # d
      BY <2>1 DEF Leaves, CpuInv
    <2>2. CASE gs4' = gs4 /\ recorder' = recorder
      BY <2>2 DEF Leaves, CpuInv
    <2> QED  BY <2>1, <2>2 DEF Leaves
  <1>2. ReadInv(d)'
    <2>1. CASE recorder' # d
      BY <2>1 DEF Leaves, ReadInv
    <2>2. CASE gs4' = gs4 /\ recorder' = recorder
      BY <2>2 DEF Leaves, ReadInv, exception_vector, exception_rflags_rf
    <2> QED  BY <2>1, <2>2 DEF Leaves
  <1> QED  BY <1>1, <1>2

\* A step of c keeps the invariant if it keeps the types and what is said of c.
LEMMA StepOf ==
    ASSUME IInv, NEW c \in Cpu, ProgramType', CpuInv(c)', ReadInv(c)',
           \A d \in Cpu \ {c} : Leaves(d)
    PROVE  IInv'
  <1>1. \A d \in Cpu : CpuInv(d)' /\ ReadInv(d)'
    BY LeftAlone DEF IInv
  <1> QED
    BY <1>1 DEF IInv

-----------------------------------------------------------------------------
(* The program's steps. *)

\* The gates are filled.
LEMMA setup_idtKeeps == ASSUME IInv, setup_idt PROVE IInv'
  <1>1. ProgramType'
    BY DEF IInv, ProgramType, setup_idt, cpuVars
  <1>2. ASSUME NEW c \in Cpu
        PROVE  CpuInv(c)' /\ ReadInv(c)'
    <2>1. CpuInv(c) /\ ReadInv(c)
      BY DEF IInv
    <2>2. UNCHANGED <<pc, regs, rip, rf, stack, gs4, raised, recorder>> /\ gates' = EX \cup EX_E
      BY DEF setup_idt, cpuVars
    <2>3. CpuInv(c)'
      BY <2>1, <2>2 DEF CpuInv
    <2>4. ReadInv(c)'
      BY <2>1, <2>2 DEF ReadInv, exception_vector, exception_rflags_rf
    <2> QED  BY <2>3, <2>4
  <1> QED
    BY <1>1, <1>2 DEF IInv

\* gs:4 is cleared in front of a guarded instruction.
LEMMA TryKeeps == ASSUME IInv, NEW c \in Cpu, Try(c) PROVE IInv'
  <1>0. ProgramType /\ CpuInv(c)
    BY DEF IInv
  <1>1. pc[c] = "run" /\ pc' = [pc EXCEPT ![c] = "try"] /\ gates # {}
    BY DEF Try, Goto
  <1>2. UNCHANGED <<gates, regs, rf, stack, raised>> /\ gs4' = 0 /\ recorder' = c
    BY DEF Try
  <1>3. PICK r \in DOMAIN Table : rip' = [rip EXCEPT ![c] = r]
    BY DEF Try
  <1>4. r \in Nat
    BY ExceptionsAssumption
  <1>5. ProgramType'
    BY <1>0, <1>1, <1>2, <1>3, <1>4 DEF ProgramType, Points
  <1>6. pc'[c] = "try" /\ raised'[c] = None /\ gates' = EX \cup EX_E
    BY <1>0, <1>1, <1>2 DEF ProgramType, CpuInv
  <1>7. CpuInv(c)' /\ ReadInv(c)'
    BY <1>2, <1>6 DEF CpuInv, ReadInv
  <1>8. \A d \in Cpu \ {c} : Leaves(d)
    BY <1>0, <1>1, <1>2, <1>3 DEF ProgramType, Leaves
  <1> QED
    BY <1>5, <1>7, <1>8, StepOf

\* The guarded instruction raised nothing.
LEMMA PassesKeeps == ASSUME IInv, NEW c \in Cpu, Passes(c) PROVE IInv'
  <1>0. ProgramType /\ CpuInv(c) /\ ReadInv(c)
    BY DEF IInv
  <1>1. pc[c] = "try" /\ pc' = [pc EXCEPT ![c] = "read"]
    BY DEF Passes, Goto
  <1>2. UNCHANGED <<gates, regs, rip, rf, stack, gs4, raised, recorder>>
    BY DEF Passes
  <1>3. ProgramType'
    BY <1>0, <1>1, <1>2 DEF ProgramType, Points
  <1>4. pc'[c] = "read" /\ raised'[c] = None /\ gates' = EX \cup EX_E /\ (recorder' = c => gs4' = 0)
    BY <1>0, <1>1, <1>2 DEF ProgramType, CpuInv, ReadInv, None
  <1>5. CpuInv(c)' /\ ReadInv(c)'
    BY <1>0, <1>1, <1>2, <1>4 DEF CpuInv, ReadInv
  <1>6. \A d \in Cpu \ {c} : Leaves(d)
    BY <1>0, <1>1, <1>2 DEF ProgramType, Leaves
  <1> QED
    BY <1>3, <1>5, <1>6, StepOf

\* The program goes on.
LEMMA ReadsKeeps == ASSUME IInv, NEW c \in Cpu, Reads(c) PROVE IInv'
  <1>0. ProgramType /\ CpuInv(c) /\ ReadInv(c)
    BY DEF IInv
  <1>1. pc[c] = "read" /\ pc' = [pc EXCEPT ![c] = "run"]
    BY DEF Reads, Goto
  <1>2. UNCHANGED <<gates, regs, stack, gs4, recorder>>
        /\ raised' = [raised EXCEPT ![c] = None]
        /\ rip' = [rip EXCEPT ![c] = 0] /\ rf' = [rf EXCEPT ![c] = 0]
    BY DEF Reads
  <1>3. ProgramType'
    BY <1>0, <1>1, <1>2 DEF ProgramType, Points
  <1>4. pc'[c] = "run" /\ raised'[c] = None
    BY <1>0, <1>1, <1>2 DEF ProgramType, CpuInv, ReadInv, None
  <1>5. CpuInv(c)' /\ ReadInv(c)'
    BY <1>0, <1>1, <1>2, <1>4 DEF CpuInv, ReadInv
  <1>6. \A d \in Cpu \ {c} : Leaves(d)
    BY <1>0, <1>1, <1>2 DEF ProgramType, Leaves
  <1> QED
    BY <1>3, <1>5, <1>6, StepOf

\* The program takes the lock and prints.
LEMMA PrintBeginsKeeps == ASSUME IInv, NEW c \in Cpu, PrintBegins(c) PROVE IInv'
  <1>0. ProgramType /\ CpuInv(c) /\ ReadInv(c)
    BY DEF IInv
  <1>1. pc[c] = "run" /\ pc' = [pc EXCEPT ![c] = "print"]
    BY DEF PrintBegins, Goto
  <1>2. UNCHANGED <<gates, regs, rf, stack, gs4, raised, recorder>> /\ gates # {}
        /\ rip' = [rip EXCEPT ![c] = 0]
    BY DEF PrintBegins
  <1>3. ProgramType'
    BY <1>0, <1>1, <1>2 DEF ProgramType, Points
  <1>4. pc'[c] = "print" /\ raised'[c] = None /\ gates' = EX \cup EX_E
    BY <1>0, <1>1, <1>2 DEF ProgramType, CpuInv, ReadInv, None
  <1>5. CpuInv(c)' /\ ReadInv(c)'
    BY <1>0, <1>1, <1>2, <1>4 DEF CpuInv, ReadInv
  <1>6. \A d \in Cpu \ {c} : Leaves(d)
    BY <1>0, <1>1, <1>2 DEF ProgramType, Leaves
  <1> QED
    BY <1>3, <1>5, <1>6, StepOf

\* The program has printed.
LEMMA PrintEndsKeeps == ASSUME IInv, NEW c \in Cpu, PrintEnds(c) PROVE IInv'
  <1>0. ProgramType /\ CpuInv(c) /\ ReadInv(c)
    BY DEF IInv
  <1>1. pc[c] = "print" /\ pc' = [pc EXCEPT ![c] = "run"]
    BY DEF PrintEnds, Goto
  <1>2. UNCHANGED <<gates, regs, rip, rf, stack, gs4, raised, recorder>>
    BY DEF PrintEnds
  <1>3. ProgramType'
    BY <1>0, <1>1, <1>2 DEF ProgramType, Points
  <1>4. pc'[c] = "run" /\ raised'[c] = None
    BY <1>0, <1>1, <1>2 DEF ProgramType, CpuInv, ReadInv, None
  <1>5. CpuInv(c)' /\ ReadInv(c)'
    BY <1>0, <1>1, <1>2, <1>4 DEF CpuInv, ReadInv
  <1>6. \A d \in Cpu \ {c} : Leaves(d)
    BY <1>0, <1>1, <1>2 DEF ProgramType, Leaves
  <1> QED
    BY <1>3, <1>5, <1>6, StepOf

\* A message of a report begins.
LEMMA ReportBeginsKeeps == ASSUME IInv, NEW c \in Cpu, ReportBegins(c) PROVE IInv'
  <1>0. ProgramType /\ CpuInv(c) /\ ReadInv(c)
    BY DEF IInv
  <1>1. pc[c] = "report" /\ pc' = [pc EXCEPT ![c] = "reporting"]
    BY DEF ReportBegins, Goto
  <1>2. UNCHANGED <<gates, regs, rip, rf, stack, gs4, raised, recorder>>
    BY DEF ReportBegins
  <1>3. ProgramType'
    BY <1>0, <1>1, <1>2 DEF ProgramType, Points
  <1>4. pc'[c] = "reporting" /\ pc[c] = "report"
    BY <1>0, <1>1, <1>2 DEF ProgramType, CpuInv, ReadInv, None
  <1>5. CpuInv(c)' /\ ReadInv(c)'
    BY <1>0, <1>1, <1>2, <1>4 DEF CpuInv, ReadInv
  <1>6. \A d \in Cpu \ {c} : Leaves(d)
    BY <1>0, <1>1, <1>2 DEF ProgramType, Leaves
  <1> QED
    BY <1>3, <1>5, <1>6, StepOf

\* A message of a report ends.
LEMMA ReportEndsKeeps == ASSUME IInv, NEW c \in Cpu, ReportEnds(c) PROVE IInv'
  <1>0. ProgramType /\ CpuInv(c) /\ ReadInv(c)
    BY DEF IInv
  <1>1. pc[c] = "reporting" /\ pc' = [pc EXCEPT ![c] = "report"]
    BY DEF ReportEnds, Goto
  <1>2. UNCHANGED <<gates, regs, rip, rf, stack, gs4, raised, recorder>>
    BY DEF ReportEnds
  <1>3. ProgramType'
    BY <1>0, <1>1, <1>2 DEF ProgramType, Points
  <1>4. pc'[c] = "report" /\ pc[c] = "reporting"
    BY <1>0, <1>1, <1>2 DEF ProgramType, CpuInv, ReadInv, None
  <1>5. CpuInv(c)' /\ ReadInv(c)'
    BY <1>0, <1>1, <1>2, <1>4 DEF CpuInv, ReadInv
  <1>6. \A d \in Cpu \ {c} : Leaves(d)
    BY <1>0, <1>1, <1>2 DEF ProgramType, Leaves
  <1> QED
    BY <1>3, <1>5, <1>6, StepOf

\* The report is complete.
LEMMA HaltsKeeps == ASSUME IInv, NEW c \in Cpu, Halts(c) PROVE IInv'
  <1>0. ProgramType /\ CpuInv(c) /\ ReadInv(c)
    BY DEF IInv
  <1>1. pc[c] = "report" /\ pc' = [pc EXCEPT ![c] = "loop"]
    BY DEF Halts, Goto
  <1>2. UNCHANGED <<gates, regs, rip, rf, stack, gs4, raised, recorder>>
    BY DEF Halts
  <1>3. ProgramType'
    BY <1>0, <1>1, <1>2 DEF ProgramType, Points
  <1>4. pc'[c] = "loop" /\ pc[c] = "report"
    BY <1>0, <1>1, <1>2 DEF ProgramType, CpuInv, ReadInv, None
  <1>5. CpuInv(c)' /\ ReadInv(c)'
    BY <1>0, <1>1, <1>2, <1>4 DEF CpuInv, ReadInv
  <1>6. \A d \in Cpu \ {c} : Leaves(d)
    BY <1>0, <1>1, <1>2 DEF ProgramType, Leaves
  <1> QED
    BY <1>3, <1>5, <1>6, StepOf

-----------------------------------------------------------------------------
(* What is read back. *)

\* The types of an exception's parts.
LEMMA Parts ==
    ASSUME NEW x \in Interrupted
    PROVE  /\ x.vector \in 0 .. 31 /\ x.error_code \in Nat /\ x.rip \in Nat /\ x.rf \in {0, 1}
           /\ x.regs \in [Reg -> Int] /\ x.stack \in Seq(Int)
           /\ Base(x.stack) \in Nat /\ Len(x.stack) \in Nat /\ Base(x.stack) >= Len(x.stack)
  <1>1. /\ x.vector \in 0 .. 31 /\ x.error_code \in Nat /\ x.rip \in Nat /\ x.rf \in {0, 1}
        /\ x.regs \in [Reg -> Int] /\ x.stack \in Seq(Int)
    BY Zenon DEF Interrupted
  <1>2. Len(x.stack) \in Nat
    BY <1>1
  <1>3. \A n \in Nat : n + (n % 2) \in Nat /\ n + (n % 2) >= n
    OBVIOUS
  <1>4. Base(x.stack) \in Nat /\ Base(x.stack) >= Len(x.stack)
    BY <1>2, <1>3 DEF Base
  <1> QED
    BY <1>1, <1>2, <1>4, Zenon

\* The struct over a complete frame has the exception in its fields.
LEMMA FieldsOfFrame ==
    ASSUME NEW c \in Cpu, NEW x \in Interrupted, NEW ret, Frame(stack[c], x, ret)
    PROVE  /\ Field(c, "vector") = x.vector /\ Field(c, "error_code") = x.error_code
           /\ Field(c, "rip") = ret /\ Field(c, "cs") = CS
           /\ Field(c, "rflags") = Rflags(x.rf)
           /\ \A r \in Reg : Field(c, r) = x.regs[r]
  <1> DEFINE s == stack[c]
             B == Base(x.stack)
  <1>1. \A f : Field(c, f) = s[Len(s) + 1 - Index(f)]
    BY Zenon DEF Field, Index
  <1>2. B \in Nat /\ Len(s) = B + 23
    BY Parts DEF Frame
  <1> HIDE DEF s, B
  <1>3. /\ Len(s) + 1 - 17 = B + 7 /\ Len(s) + 1 - 18 = B + 6 /\ Len(s) + 1 - 19 = B + 5
        /\ Len(s) + 1 - 20 = B + 4 /\ Len(s) + 1 - 21 = B + 3
    BY <1>2
  <1>4. /\ Field(c, "vector") = s[B + 7] /\ Field(c, "error_code") = s[B + 6]
        /\ Field(c, "rip") = s[B + 5] /\ Field(c, "cs") = s[B + 4]
        /\ Field(c, "rflags") = s[B + 3]
    <2>1. Field(c, "vector") = s[Len(s) + 1 - 17] /\ Field(c, "error_code") = s[Len(s) + 1 - 18]
      BY <1>1, FrameFields, Zenon
    <2>2. Field(c, "rip") = s[Len(s) + 1 - 19] /\ Field(c, "cs") = s[Len(s) + 1 - 20]
      BY <1>1, FrameFields, Zenon
    <2>3. Field(c, "rflags") = s[Len(s) + 1 - 21]
      BY <1>1, FrameFields, Zenon
    <2> QED  BY <1>3, <2>1, <2>2, <2>3
  <1>5. /\ s[B + 7] = x.vector /\ s[B + 6] = x.error_code
        /\ s[B + 5] = ret /\ s[B + 4] = CS /\ s[B + 3] = Rflags(x.rf)
    BY Zenon DEF Frame, Pushes, B, s
  <1>6. ASSUME NEW r \in Reg
        PROVE  Field(c, r) = x.regs[r]
    <2> DEFINE i == Index(r)
    <2>1. i \in 1 .. 16 /\ Pushed[17 - i] = r /\ r # "dummy"
      BY RegisterFields
    <2>2. Field(c, r) = s[Len(s) + 1 - i]
      BY <1>1
    <2> HIDE DEF i
    <2>3. 17 - i \in 1 .. 16 /\ Len(s) + 1 - i = B + 7 + (17 - i)
      BY <1>2, <2>1
    <2>4. s[B + 7 + (17 - i)] = x.regs[Pushed[17 - i]]
      BY <2>1, <2>3 DEF Frame, B, s
    <2> QED  BY <2>1, <2>2, <2>3, <2>4
  <1> QED
    BY <1>4, <1>5, <1>6, Zenon

\* A prefix that agrees with a sequence is that sequence.
LEMMA Prefix ==
    ASSUME NEW s \in Seq(Int), NEW t \in Seq(Int), Len(t) <= Len(s),
           \A k \in 1 .. Len(t) : s[k] = t[k]
    PROVE  SubSeq(s, 1, Len(t)) = t
  <1>1. SubSeq(s, 1, Len(t)) \in Seq(Int) /\ Len(SubSeq(s, 1, Len(t))) = Len(t)
    OBVIOUS
  <1>2. \A k \in 1 .. Len(t) : SubSeq(s, 1, Len(t))[k] = t[k]
    OBVIOUS
  <1> QED
    BY <1>1, <1>2, SeqEqual

\* What __handle_exception and iretq take from a complete frame.
LEMMA FrameUndone ==
    ASSUME NEW s \in Seq(Int), NEW x \in Interrupted, NEW ret, Frame(s, x, ret)
    PROVE  /\ s[Len(s) - Len(Pushed) - Dropped] = ret
           /\ s[Len(s) - Len(Pushed) - Dropped - 2] = Rflags(x.rf)
           /\ SubSeq(s, 1, s[Len(s) - Len(Pushed) - Dropped - 3]) = x.stack
           /\ [r \in Reg |-> s[Len(s) - Len(Pushed) + PushIndex(r)]] = x.regs
  <1> DEFINE B == Base(x.stack)
             n == Len(s)
             t == x.stack
  <1>1. /\ B \in Nat /\ n = B + 23 /\ Len(t) \in Nat /\ t \in Seq(Int) /\ B >= Len(t)
        /\ x.regs \in [Reg -> Int]
    BY Parts DEF Frame
  <1>2. /\ s[B + 5] = ret /\ s[B + 3] = Rflags(x.rf) /\ s[B + 2] = Len(t)
        /\ \A k \in 1 .. Len(t) : s[k] = t[k]
        /\ \A k \in 1 .. 16 : Pushed[k] # "dummy" => s[B + 7 + k] = x.regs[Pushed[k]]
    BY Zenon DEF Frame, Pushes
  <1> HIDE DEF B, t
  <1>3. SubSeq(s, 1, Len(t)) = t
    <2>1. Len(t) <= Len(s)
      BY <1>1
    <2> QED  BY <1>1, <1>2, <2>1, Prefix
  <1> HIDE DEF n
  <1>4. n - 16 - 2 = B + 5 /\ n - 16 - 2 - 2 = B + 3 /\ n - 16 - 2 - 3 = B + 2
        /\ \A k \in 1 .. 16 : n - 16 + k = B + 7 + k
    BY <1>1
  <1>5. ASSUME NEW r \in Reg
        PROVE  s[n - 16 + PushIndex(r)] = x.regs[r]
    <2>1. PushIndex(r) \in 1 .. 16 /\ Pushed[PushIndex(r)] = r /\ r # "dummy"
      BY RegisterFields
    <2> QED  BY <1>2, <1>4, <2>1, Zenon
  <1>6. [r \in Reg |-> s[n - 16 + PushIndex(r)]] = x.regs
    <2>1. x.regs = [r \in Reg |-> x.regs[r]]
      BY <1>1
    <2> QED  BY <1>5, <2>1
  <1>7. Len(Pushed) = 16 /\ Dropped = 2
    BY Layouts DEF Dropped
  <1> QED
    BY <1>2, <1>3, <1>4, <1>6, <1>7, Zenon DEF n, t

\* Word w at gs:4 has vector v and RF b.
Encodes(w, v, b) == w % 256 = v /\ (w \div 256) % 2 = b

\* RF survives the two encodings, and the vector the one of gs:4.
LEMMA Encodings ==
    ASSUME NEW v \in 0 .. 31, NEW e \in Nat, NEW b \in {0, 1}
    PROVE  /\ RF(Rflags(b)) = b
           /\ Encodes(ExVal(v, e, b), v, b)
  <1>1. RF(Rflags(b)) = b
    BY DEF RF, Rflags
  <1>2. ExVal(v, e, b) % 256 = v
    BY DEF ExVal
  <1>3. ExVal(v, e, b) \div 256 = b + 256 * e
    BY DEF ExVal
  <1>4. (b + 256 * e) % 2 = b
    OBVIOUS
  <1> QED
    BY <1>1, <1>2, <1>3, <1>4 DEF Encodes

-----------------------------------------------------------------------------
(* The steps of an exception. *)

\* An exception is raised.
LEMMA RaiseKeeps == ASSUME IInv, NEW c \in Cpu, Raise(c) PROVE IInv'
  <1>0. ProgramType /\ CpuInv(c)
    BY DEF IInv
  <1>1. /\ pc[c] \in {"try", "print"} /\ pc' = [pc EXCEPT ![c] = "stub"]
        /\ UNCHANGED <<gates, regs, rip, gs4, recorder>>
    BY DEF Raise
  <1>2. gates = EX \cup EX_E
    BY <1>0, <1>1 DEF CpuInv
  <1>3. PICK v \in Raisable[c], e \in ErrorCodes, b \in {0, 1} :
          LET vec == Delivered(v)
              err == IF vec \notin HasErrorCode THEN 0
                     ELSE IF v = vec THEN e ELSE v * 8 + 2
          IN  /\ rf' = [rf EXCEPT ![c] = b]
              /\ stack' = [stack EXCEPT ![c] = Delivery(@, vec, err, rip[c], b)]
              /\ raised' = [raised EXCEPT ![c] =
                    [vector |-> vec, error_code |-> err, rip |-> rip[c], rf |-> b,
                     regs |-> regs[c], stack |-> stack[c]]]
    BY Zenon DEF Raise, Delivery
  <1> DEFINE vec == Delivered(v)
             err == IF vec \notin HasErrorCode THEN 0 ELSE IF v = vec THEN e ELSE v * 8 + 2
             x == [vector |-> vec, error_code |-> err, rip |-> rip[c], rf |-> b,
                   regs |-> regs[c], stack |-> stack[c]]
             t == Delivery(stack[c], vec, err, rip[c], b)
  <1>4. v \in 0 .. 31 /\ e \in Nat
    BY ExceptionsAssumption
  <1>5. vec \in 0 .. 31 /\ vec \in EX \cup EX_E
    BY <1>2, <1>4 DEF Delivered, GP, EX, EX_E
  <1>6. err \in Nat /\ (vec \notin HasErrorCode => err = 0)
    BY <1>4
  <1>7. /\ rf' = [rf EXCEPT ![c] = b] /\ stack' = [stack EXCEPT ![c] = t]
        /\ raised' = [raised EXCEPT ![c] = x]
    BY <1>3
  <1>8. stack[c] \in Seq(Int) /\ rip[c] \in Nat /\ regs[c] \in [Reg -> Int]
    BY <1>0 DEF ProgramType
  <1>9. x.vector = vec /\ x.regs = regs[c]
    OBVIOUS
  <1>10. x \in Interrupted /\ t \in Seq(Int) /\ RawFrame(t, x)
    <2> HIDE DEF vec, err
    <2> QED  BY <1>5, <1>6, <1>8, ProcessorPushes
  <1> HIDE DEF vec, err, x, t
  <1>11. ProgramType'
    BY <1>0, <1>1, <1>7, <1>10 DEF ProgramType, Points
  <1>12. /\ pc'[c] = "stub" /\ raised'[c] = x /\ stack'[c] = t /\ regs'[c] = x.regs
         /\ gates' = EX \cup EX_E
    BY <1>0, <1>1, <1>2, <1>7, <1>9 DEF ProgramType
  <1>13. CpuInv(c)' /\ ReadInv(c)'
    BY <1>5, <1>9, <1>10, <1>12 DEF CpuInv, ReadInv
  <1>14. \A d \in Cpu \ {c} : Leaves(d)
    BY <1>0, <1>1, <1>7 DEF ProgramType, Leaves
  <1> QED
    BY <1>11, <1>13, <1>14, StepOf

\* The stub and __handle_exception push the rest.
LEMMA StubKeeps == ASSUME IInv, NEW c \in Cpu, Stub(c) PROVE IInv'
  <1>0. ProgramType /\ CpuInv(c)
    BY DEF IInv
  <1> DEFINE x == raised[c]
             t == Completion(stack[c], x.vector, x.regs)
             g == [r \in Reg |-> IF r \in CallerSaved THEN -1 ELSE regs[c][r]]
  <1>1. /\ pc[c] = "stub" /\ pc' = [pc EXCEPT ![c] = "dispatch"]
        /\ UNCHANGED <<gates, rip, rf, gs4, raised, recorder>>
    BY DEF Stub, Goto
  <1>2. /\ stack' = [stack EXCEPT ![c] = Completion(@, raised[c].vector, regs[c])]
        /\ regs' = [regs EXCEPT ![c] = [r \in Reg |-> IF r \in CallerSaved THEN -1 ELSE @[r]]]
    BY Zenon DEF Stub, Completion, Saved
  <1>3. /\ x \in Interrupted /\ x.vector \in EX \cup EX_E
        /\ RawFrame(stack[c], x) /\ regs[c] = x.regs
    BY <1>0, <1>1 DEF CpuInv
  <1>4. stack[c] \in Seq(Int) /\ regs[c] \in [Reg -> Int]
    BY <1>0 DEF ProgramType
  <1>5. stack' = [stack EXCEPT ![c] = t] /\ regs' = [regs EXCEPT ![c] = g]
    BY <1>0, <1>2, <1>3 DEF ProgramType
  <1>6. t \in Seq(Int) /\ Frame(t, x, x.rip)
    <2> HIDE DEF x
    <2> QED  BY <1>3, <1>4, StubCompletes
  <1>7. g \in [Reg -> Int]
    BY <1>4
  <1>8. x = raised[c]
    OBVIOUS
  <1> HIDE DEF t, g, x
  <1>9. ProgramType'
    BY <1>0, <1>1, <1>5, <1>6, <1>7 DEF ProgramType, Points
  <1>10. pc'[c] = "dispatch" /\ raised'[c] = x /\ stack'[c] = t
    BY <1>0, <1>1, <1>5, <1>8 DEF ProgramType
  <1>11. CpuInv(c)' /\ ReadInv(c)'
    BY <1>3, <1>6, <1>10 DEF CpuInv, ReadInv
  <1>12. \A d \in Cpu \ {c} : Leaves(d)
    BY <1>0, <1>1, <1>5 DEF ProgramType, Leaves
  <1> QED
    BY <1>9, <1>11, <1>12, StepOf

\* do_handle_exception() chooses what follows.
LEMMA DispatchKeeps == ASSUME IInv, NEW c \in Cpu, Dispatch(c) PROVE IInv'
  <1>0. ProgramType /\ CpuInv(c)
    BY DEF IInv
  <1>1. pc[c] = "dispatch" /\ UNCHANGED <<gates, regs, rip, rf, stack, gs4, raised, recorder>>
    BY DEF Dispatch
  <1>2. PICK p \in {"check", "report"} : pc' = [pc EXCEPT ![c] = p]
    BY DEF Dispatch
  <1>3. ProgramType'
    BY <1>0, <1>1, <1>2 DEF ProgramType, Points
  <1>4. pc'[c] = p
    BY <1>0, <1>2 DEF ProgramType
  <1>5. CpuInv(c)' /\ ReadInv(c)'
    BY <1>0, <1>1, <1>4 DEF CpuInv, ReadInv
  <1>6. \A d \in Cpu \ {c} : Leaves(d)
    BY <1>0, <1>1, <1>2 DEF ProgramType, Leaves
  <1> QED
    BY <1>3, <1>5, <1>6, StepOf

\* A return address in its place makes a frame with that return address.
LEMMA ReturnAddress ==
    ASSUME NEW s \in Seq(Int), NEW x \in Interrupted, NEW r \in Nat, Frame(s, x, x.rip),
           NEW i, i = Len(s) + 1 - Index("rip")
    PROVE  [s EXCEPT ![i] = r] \in Seq(Int) /\ Frame([s EXCEPT ![i] = r], x, r)
  <1> DEFINE B == Base(x.stack)
             n == Len(x.stack)
             t == [s EXCEPT ![B + 5] = r]
  <1>1. B \in Nat /\ n \in Nat /\ B >= n /\ Len(s) = B + 23
    BY Parts DEF Frame
  <1>2. Pushes(s, x, x.rip)
    BY DEF Frame
  <1>3. /\ s[B + 6] = x.error_code /\ s[B + 7] = x.vector
        /\ \A k \in 1 .. 16 : Pushed[k] # "dummy" => s[B + 7 + k] = x.regs[Pushed[k]]
    BY DEF Frame
  <1> HIDE DEF B, n
  <1>4. i = B + 5 /\ B + 5 \in 1 .. Len(s)
    <2>1. i = Len(s) + 1 - 19
      BY FrameFields
    <2> QED  BY <2>1, <1>1
  <1>5. t \in Seq(Int) /\ Len(t) = B + 23 /\ t[B + 5] = r
        /\ \A k \in 1 .. Len(s) : k # B + 5 => t[k] = s[k]
    BY <1>1, <1>4
  <1> HIDE DEF t
  <1>6. ASSUME NEW k \in Int, k \in 1 .. B + 4 \/ k \in B + 6 .. B + 23
        PROVE  t[k] = s[k]
    BY <1>1, <1>5, <1>6
  <1>7. Pushes(t, x, r)
    <2>1. \A k \in 1 .. n : t[k] = s[k]
      BY <1>1, <1>6
    <2>2. t[B + 2] = s[B + 2] /\ t[B + 3] = s[B + 3] /\ t[B + 4] = s[B + 4]
      BY <1>1, <1>6
    <2> QED  BY <1>2, <1>5, <2>1, <2>2 DEF Pushes, B, n
  <1>8. t[B + 6] = x.error_code /\ t[B + 7] = x.vector
    BY <1>1, <1>3, <1>6
  <1>9. ASSUME NEW k \in 1 .. 16, Pushed[k] # "dummy"
        PROVE  t[B + 7 + k] = x.regs[Pushed[k]]
    <2>1. B + 7 + k \in B + 6 .. B + 23 /\ B + 7 + k \in Int
      BY <1>1
    <2>2. t[B + 7 + k] = s[B + 7 + k]
      BY <2>1, <1>6
    <2> QED  BY <1>3, <1>9, <2>2
  <1>10. Frame(t, x, r)
    BY <1>5, <1>7, <1>8, <1>9 DEF Frame, B
  <1> QED
    BY <1>4, <1>5, <1>10 DEF t

\* check_exception_table() records the exception and resumes or reports.
LEMMA check_exception_tableKeeps ==
    ASSUME IInv, NEW c \in Cpu, check_exception_table(c) PROVE IInv'
  <1>0. ProgramType /\ CpuInv(c)
    BY DEF IInv
  <1> DEFINE x == raised[c]
  <1>1. pc[c] = "check" /\ recorder' = c /\ UNCHANGED <<gates, regs, rip, rf, raised>>
    BY DEF check_exception_table
  <1>2. x \in Interrupted /\ x.vector \in EX \cup EX_E /\ Frame(stack[c], x, x.rip)
    BY <1>0, <1>1 DEF CpuInv
  <1>3. stack[c] \in Seq(Int)
    BY <1>0 DEF ProgramType
  <1>4. x.vector \in 0 .. 31 /\ x.error_code \in Nat /\ x.rf \in {0, 1}
    BY <1>2, Parts
  <1>5. /\ Field(c, "vector") = x.vector /\ Field(c, "error_code") = x.error_code
        /\ Field(c, "rip") = x.rip /\ Field(c, "rflags") = Rflags(x.rf)
    BY <1>2, FieldsOfFrame
  <1>6. gs4' = ExVal(x.vector, x.error_code, x.rf)
    <2>1. gs4' = ExVal(Field(c, "vector"), Field(c, "error_code"), RF(Field(c, "rflags")))
      BY DEF check_exception_table
    <2>2. RF(Rflags(x.rf)) = x.rf
      BY <1>4, Encodings
    <2> QED  BY <1>5, <2>1, <2>2, Zenon
  <1>7. CASE Field(c, "rip") \in DOMAIN Table
    <2> DEFINE i == Len(stack[c]) + 1 - Index("rip")
               t == [stack[c] EXCEPT ![i] = Table[x.rip]]
    <2>1. /\ pc' = [pc EXCEPT ![c] = "restore"]
          /\ stack' = SetField(c, "rip", Table[Field(c, "rip")])
      BY <1>7 DEF check_exception_table
    <2>2. SetField(c, "rip", Table[x.rip]) = [stack EXCEPT ![c] = t]
      BY <1>0 DEF SetField, Index, ProgramType
    <2>3. stack' = [stack EXCEPT ![c] = t]
      BY <2>1, <2>2, <1>5
    <2>4. x.rip \in DOMAIN Table /\ Table[x.rip] \in Nat
      BY <1>5, <1>7, ExceptionsAssumption
    <2>5. t \in Seq(Int) /\ Frame(t, x, Table[x.rip])
      <3> HIDE DEF x
      <3> QED  BY <1>2, <1>3, <2>4, ReturnAddress
    <2>6. x = raised[c]
      OBVIOUS
    <2> HIDE DEF t, x
    <2>7. ProgramType'
      BY <1>0, <1>1, <2>1, <2>3, <2>5 DEF ProgramType, Points
    <2>8. pc'[c] = "restore" /\ raised'[c] = x /\ stack'[c] = t
      BY <1>0, <1>1, <2>1, <2>3, <2>6 DEF ProgramType
    <2>9. CpuInv(c)' /\ ReadInv(c)'
      BY <1>2, <1>6, <2>4, <2>5, <2>8 DEF CpuInv, ReadInv
    <2>10. \A d \in Cpu \ {c} : Leaves(d)
      BY <1>0, <1>1, <2>1, <2>3 DEF ProgramType, Leaves
    <2> QED  BY <2>7, <2>9, <2>10, StepOf
  <1>8. CASE Field(c, "rip") \notin DOMAIN Table
    <2>1. pc' = [pc EXCEPT ![c] = "report"] /\ UNCHANGED stack
      BY <1>8 DEF check_exception_table
    <2>2. ProgramType'
      BY <1>0, <1>1, <2>1 DEF ProgramType, Points
    <2>3. pc'[c] = "report"
      BY <1>0, <2>1 DEF ProgramType
    <2>4. CpuInv(c)' /\ ReadInv(c)'
      BY <2>3 DEF CpuInv, ReadInv
    <2>5. \A d \in Cpu \ {c} : Leaves(d)
      BY <1>0, <1>1, <2>1 DEF ProgramType, Leaves
    <2> QED  BY <2>2, <2>4, <2>5, StepOf
  <1> QED
    BY <1>7, <1>8

\* The registers are popped and iretq returns.
LEMMA RestoreKeeps == ASSUME IInv, NEW c \in Cpu, Restore(c) PROVE IInv'
  <1>0. ProgramType /\ CpuInv(c)
    BY DEF IInv
  <1> DEFINE x == raised[c]
             s == stack[c]
             top == Len(s) - Len(Pushed) - Dropped
             ret == Table[x.rip]
  <1>1. /\ pc[c] = "restore" /\ pc' = [pc EXCEPT ![c] = "read"]
        /\ UNCHANGED <<gates, gs4, raised, recorder>>
    BY DEF Restore, Goto
  <1>2. /\ x \in Interrupted /\ x.rip \in DOMAIN Table /\ Frame(s, x, ret)
        /\ recorder = c => gs4 = ExVal(x.vector, x.error_code, x.rf)
    BY <1>0, <1>1 DEF CpuInv
  <1>3. /\ regs' = [regs EXCEPT ![c] = [r \in Reg |-> s[Len(s) - Len(Pushed) + PushIndex(r)]]]
        /\ rip' = [rip EXCEPT ![c] = s[top]] /\ rf' = [rf EXCEPT ![c] = RF(s[top - 2])]
        /\ stack' = [stack EXCEPT ![c] = SubSeq(@, 1, @[top - 3])]
    BY Zenon DEF Restore, PushIndex
  <1>4. s \in Seq(Int)
    BY <1>0 DEF ProgramType
  <1>5. /\ x.vector \in 0 .. 31 /\ x.error_code \in Nat /\ x.rf \in {0, 1}
        /\ x.regs \in [Reg -> Int] /\ x.stack \in Seq(Int)
    BY <1>2, Parts
  <1>6. /\ s[top] = ret /\ s[top - 2] = Rflags(x.rf)
        /\ SubSeq(s, 1, s[top - 3]) = x.stack
        /\ [r \in Reg |-> s[Len(s) - Len(Pushed) + PushIndex(r)]] = x.regs
    <2> HIDE DEF x, s, ret
    <2> QED  BY <1>2, <1>4, FrameUndone, Zenon
  <1>7. RF(s[top - 2]) = x.rf
    BY <1>5, <1>6, Encodings
  <1>8. stack' = [stack EXCEPT ![c] = SubSeq(s, 1, s[top - 3])]
    BY <1>0, <1>3 DEF ProgramType
  <1>9. /\ regs' = [regs EXCEPT ![c] = x.regs] /\ rip' = [rip EXCEPT ![c] = ret]
        /\ rf' = [rf EXCEPT ![c] = x.rf] /\ stack' = [stack EXCEPT ![c] = x.stack]
    BY <1>3, <1>6, <1>7, <1>8, Zenon
  <1>10. ret \in Nat
    BY <1>2, ExceptionsAssumption
  <1>11. x = raised[c]
    OBVIOUS
  <1>12. recorder = c => Encodes(gs4, x.vector, x.rf)
    <2> HIDE DEF x
    <2> QED  BY <1>2, <1>5, Encodings, Zenon
  <1>13. ret = Table[x.rip]
    OBVIOUS
  <1> HIDE DEF x, s, ret, top
  <1>14. ProgramType'
    BY <1>0, <1>1, <1>5, <1>9, <1>10 DEF ProgramType, Points
  <1>15. /\ pc'[c] = "read" /\ raised'[c] = x /\ stack'[c] = x.stack /\ regs'[c] = x.regs
         /\ rip'[c] = ret /\ rf'[c] = x.rf
    BY <1>0, <1>1, <1>9, <1>11 DEF ProgramType
  <1>16. CpuInv(c)'
    BY <1>15 DEF CpuInv
  <1>17. ReadInv(c)'
    <2>1. x # None
      BY <1>2, NoneIsNone
    <2>2. recorder' = c => exception_vector' = x.vector /\ exception_rflags_rf' = x.rf
      BY <1>1, <1>12 DEF Encodes, exception_vector, exception_rflags_rf
    <2> QED  BY <1>13, <1>15, <2>1, <2>2 DEF ReadInv
  <1>18. \A d \in Cpu \ {c} : Leaves(d)
    BY <1>0, <1>1, <1>9 DEF ProgramType, Leaves
  <1> QED
    BY <1>14, <1>16, <1>17, <1>18, StepOf

-----------------------------------------------------------------------------
(* The theorems. *)

\* Every step keeps the invariant.
LEMMA NextKeeps == ASSUME IInv, [Next]_vars PROVE IInv'
  <1>1. CASE setup_idt
    BY <1>1, setup_idtKeeps
  <1>2. CASE UNCHANGED vars
    <2>1. UNCHANGED <<gates, pc, regs, rip, rf, stack, gs4, raised, recorder>>
      BY <1>2 DEF vars, cpuVars
    <2>2. ProgramType'
      BY <2>1 DEF IInv, ProgramType
    <2>3. \A d \in Cpu : Leaves(d)
      BY <2>1 DEF Leaves
    <2> QED  BY <2>2, <2>3, LeftAlone DEF IInv
  <1>3. ASSUME NEW c \in Cpu, Program(c)
        PROVE  IInv'
    BY <1>3, TryKeeps, PassesKeeps, ReadsKeeps, PrintBeginsKeeps, PrintEndsKeeps, RaiseKeeps
       DEF Program
  <1>4. ASSUME NEW c \in Cpu, Handle(c)
        PROVE  IInv'
    BY <1>4, StubKeeps, DispatchKeeps, check_exception_tableKeeps, RestoreKeeps,
       ReportBeginsKeeps, ReportEndsKeeps, HaltsKeeps DEF Handle
  <1>5. Next => setup_idt \/ UNCHANGED vars \/ \E c \in Cpu : Program(c) \/ Handle(c)
    BY DEF Next, SetupAgain, Waits
  <1> QED
    BY <1>1, <1>2, <1>3, <1>4, <1>5

\* What the invariant says of what C code and the program see.
LEMMA Consequences ==
    ASSUME IInv
    PROVE  FrameDescribesException /\ ResumesIntact /\ VectorOfGuarded
  <1>1. FrameDescribesException
    <2> SUFFICES ASSUME NEW c \in Cpu, pc[c] \in {"dispatch", "check"}
                 PROVE  /\ Field(c, "vector") = raised[c].vector
                        /\ Field(c, "error_code") = raised[c].error_code
                        /\ Field(c, "rip") = raised[c].rip
                        /\ Field(c, "cs") = CS
                        /\ Field(c, "rflags") = Rflags(raised[c].rf)
                        /\ \A r \in Reg : Field(c, r) = raised[c].regs[r]
      BY DEF FrameDescribesException
    <2>1. raised[c] \in Interrupted /\ Frame(stack[c], raised[c], raised[c].rip)
      BY DEF IInv, CpuInv
    <2> QED  BY <2>1, FieldsOfFrame
  <1>2. ResumesIntact
    BY Zenon DEF IInv, ReadInv, ResumesIntact
  <1>3. VectorOfGuarded
    BY Zenon DEF IInv, ReadInv, VectorOfGuarded
  <1> QED
    BY <1>1, <1>2, <1>3

\* The struct ex_regs that do_handle_exception() and check_exception_table()
\* read describes the exception, for every vector, error code and stack: the
\* stubs fit what the processor pushes, and the aligned stack does no harm.
THEOREM ExceptionsFrameDescribes == Spec => []FrameDescribesException
  <1>1. Init => IInv
    BY InitInv
  <1>2. IInv /\ [Next]_vars => IInv'
    BY NextKeeps
  <1>3. IInv => FrameDescribesException
    BY Consequences
  <1> QED
    BY <1>1, <1>2, <1>3, PTL DEF Spec

\* An exception that the table handles returns to the table's address with the
\* registers, the stack and RF of the instruction that raised it.
THEOREM ExceptionsResumesIntact == Spec => []ResumesIntact
  <1>1. Init => IInv
    BY InitInv
  <1>2. IInv /\ [Next]_vars => IInv'
    BY NextKeeps
  <1>3. IInv => ResumesIntact
    BY Consequences
  <1> QED
    BY <1>1, <1>2, <1>3, PTL DEF Spec

\* exception_vector() and exception_rflags_rf() tell what the guarded
\* instruction raised as long as no other processor has used gs:4.
THEOREM ExceptionsVectorOfGuarded == Spec => []VectorOfGuarded
  <1>1. Init => IInv
    BY InitInv
  <1>2. IInv /\ [Next]_vars => IInv'
    BY NextKeeps
  <1>3. IInv => VectorOfGuarded
    BY Consequences
  <1> QED
    BY <1>1, <1>2, <1>3, PTL DEF Spec

=============================================================================
