----------------------------- MODULE SmpProofs -----------------------------
(***************************************************************************)
(* TLAPS proofs about Smp, for every number of processors up to NCPU, every *)
(* position of the boot processor, with and without x2APIC, and for every   *)
(* number of iterations: IInv (module SmpInv) is an inductive invariant, and *)
(* the safety properties of Smp follow from it.                             *)
(***************************************************************************)
EXTENDS SmpInv, SequenceTheorems, TLAPS

-----------------------------------------------------------------------------
(* Facts about the messages in an inbox. *)

\* Adding a message to an inbox, or removing its first one, gives an inbox.
LEMMA MsgType ==
    ASSUME NEW S, NEW q \in Seq(S), NEW m \in S
    PROVE  /\ Append(q, m) \in Seq(S)
           /\ q # <<>> => Tail(q) \in Seq(S)
  OBVIOUS

\* Append on short tuples.
LEMMA AppendTuple ==
    ASSUME NEW S, NEW x \in S, NEW y \in S, NEW z \in S
    PROVE  /\ Append(<<x>>, y) = <<x, y>>
           /\ Append(<<x, y>>, z) = <<x, y, z>>
  <1>1. Append(<<x>>, y) = <<x, y>>
    <2>1. <<x>> \in Seq(S) /\ <<x, y>> \in Seq(S) /\ Len(<<x>>) = 1 /\ Len(<<x, y>>) = 2
      OBVIOUS
    <2>2. Append(<<x>>, y) \in Seq(S) /\ Len(Append(<<x>>, y)) = 2
      BY <2>1, AppendProperties
    <2>3. Append(<<x>>, y)[1] = <<x>>[1] /\ Append(<<x>>, y)[2] = y
      BY <2>1, AppendProperties, 1 \in 1 .. Len(<<x>>)
    <2>4. \A k \in 1 .. 2 : Append(<<x>>, y)[k] = <<x, y>>[k]
      BY <2>3
    <2> QED
      BY <2>1, <2>2, <2>4, SeqEqual
  <1>2. Append(<<x, y>>, z) = <<x, y, z>>
    <2>1. /\ <<x, y>> \in Seq(S) /\ <<x, y, z>> \in Seq(S)
          /\ Len(<<x, y>>) = 2 /\ Len(<<x, y, z>>) = 3
      OBVIOUS
    <2>2. Append(<<x, y>>, z) \in Seq(S) /\ Len(Append(<<x, y>>, z)) = 3
      BY <2>1, AppendProperties
    <2>3. /\ Append(<<x, y>>, z)[1] = <<x, y>>[1]
          /\ Append(<<x, y>>, z)[2] = <<x, y>>[2]
          /\ Append(<<x, y>>, z)[3] = z
      BY <2>1, AppendProperties, 1 \in 1 .. Len(<<x, y>>), 2 \in 1 .. Len(<<x, y>>)
    <2>4. \A k \in 1 .. 3 : Append(<<x, y>>, z)[k] = <<x, y, z>>[k]
      BY <2>3
    <2> QED
      BY <2>1, <2>2, <2>4, SeqEqual
  <1> QED
    BY <1>1, <1>2

\* How the named inboxes lead to one another.
LEMMA Inboxes ==
    /\ Append(Empty, "INIT") = Ini
    /\ Append(Empty, "SIPI") = Sipi
    /\ Append(Empty, "FIXED") = Fixed
    /\ Append(Ini, "SIPI") = IniSipi
    /\ Append(IniSipi, "SIPI") = IniSipi2
    /\ Append(Sipi, "SIPI") = Sipi2
    /\ Append(Sipi, "FIXED") = SipiFixed
    /\ Tail(Ini) = Empty /\ Tail(IniSipi) = Sipi /\ Tail(IniSipi2) = Sipi2
    /\ Tail(Sipi) = Empty /\ Tail(Sipi2) = Sipi
    /\ Tail(Fixed) = Empty /\ Tail(SipiFixed) = Fixed
  <1> USE DEF Empty, Ini, IniSipi, IniSipi2, Sipi, Sipi2, Fixed, SipiFixed
  <1>1. /\ Append(Empty, "INIT") = Ini
        /\ Append(Empty, "SIPI") = Sipi
        /\ Append(Empty, "FIXED") = Fixed
    OBVIOUS
  <1>2. /\ Append(Ini, "SIPI") = IniSipi
        /\ Append(IniSipi, "SIPI") = IniSipi2
        /\ Append(Sipi, "SIPI") = Sipi2
        /\ Append(Sipi, "FIXED") = SipiFixed
    <2> DEFINE S == {"INIT", "SIPI", "FIXED"}
    <2>1. "INIT" \in S /\ "SIPI" \in S /\ "FIXED" \in S
      OBVIOUS
    <2> HIDE DEF S
    <2> QED
      BY <2>1, AppendTuple
  <1>3. Tail(Ini) = Empty /\ Tail(Sipi) = Empty /\ Tail(Fixed) = Empty
    OBVIOUS
  <1>4. Tail(IniSipi) = Sipi /\ Tail(Sipi2) = Sipi /\ Tail(SipiFixed) = Fixed
    OBVIOUS
  <1>5. Tail(IniSipi2) = Sipi2
    OBVIOUS
  <1> QED
    BY <1>1, <1>2, <1>3, <1>4, <1>5

\* The first message of a named inbox.
LEMMA InboxHeads ==
    /\ Head(Ini) = "INIT" /\ Head(IniSipi) = "INIT" /\ Head(IniSipi2) = "INIT"
    /\ Head(Sipi) = "SIPI" /\ Head(Sipi2) = "SIPI" /\ Head(SipiFixed) = "SIPI"
    /\ Head(Fixed) = "FIXED"
    /\ Empty = <<>>
  BY DEF Empty, Ini, IniSipi, IniSipi2, Sipi, Sipi2, Fixed, SipiFixed

\* Only two of the named inboxes hold a fixed interrupt, and one is empty.
LEMMA InboxesDiffer ==
    /\ Empty \notin {Ini, IniSipi, IniSipi2, Sipi, Sipi2, Fixed, SipiFixed}
    /\ Fixed \notin {Empty, Ini, IniSipi, IniSipi2, Sipi, Sipi2, SipiFixed}
    /\ SipiFixed \notin {Empty, Ini, IniSipi, IniSipi2, Sipi, Sipi2}
  BY DEF Empty, Ini, IniSipi, IniSipi2, Sipi, Sipi2, Fixed, SipiFixed

\* An AP that is running but not up is the one being started.
LEMMA StartingIsCur ==
    ASSUME TypeOK, BringUp, NEW a \in AP, apc[a] \notin Ready \cup Dormant
    PROVE  a = cur /\ bpc \in {"sipi2", "wait_started"}
  <1> USE SmpAssumption DEF CPU, AP, NCPU, TypeOK
  <1>1. ApAt(a) /\ BspAt
    BY DEF BringUp
  <1>2. ~(a < cur) /\ ~(a > cur)
    BY <1>1 DEF ApAt, Dormant, Asleep
  <1>3. a = cur /\ bpc \in InStart
    BY <1>1, <1>2 DEF BspAt
  <1> QED
    BY <1>1, <1>3 DEF ApAt, Dormant, Asleep, InStart

\* Where a CPU stands that has a message in its inbox.
LEMMA Addressee ==
    ASSUME TypeOK, BringUp, NEW c \in CPU, inbox[c] # Empty
    PROVE  \/ c = Boot /\ c = IpiTarget /\ inbox[c] = Fixed
           \/ /\ c \in AP /\ c < cur /\ apc[c] \in Ready
              /\ \/ inbox[c] = Sipi
                 \/ c = IpiTarget /\ inbox[c] \in {Fixed, SipiFixed}
           \/ /\ c \in AP /\ c = cur
              /\ \/ apc[c] \in Asleep /\ \/ bpc = "sipi1" /\ inbox[c] = Ini
                                         \/ bpc = "sipi2" /\ inbox[c] = IniSipi
                                         \/ bpc = "wait_started" /\ inbox[c] = IniSipi2
                 \/ apc[c] = "wait_sipi" /\ \/ bpc = "sipi2" /\ inbox[c] = Sipi
                                            \/ bpc = "wait_started" /\ inbox[c] = Sipi2
                 \/ apc[c] \notin Dormant /\ bpc = "wait_started" /\ inbox[c] = Sipi
  <1> USE SmpAssumption DEF CPU, AP, NCPU, TypeOK
  <1>1. CASE c = Boot
    BY <1>1 DEF BringUp, BspAt
  <1>2. CASE c \in AP /\ c < cur
    BY <1>2 DEF BringUp, ApAt
  <1>3. CASE c \in AP /\ c = cur
    <2>1. ApAt(c) /\ BspAt
      BY <1>3 DEF BringUp
    <2>2. bpc \in InStart
      BY <1>3, <2>1 DEF BspAt
    <2> QED
      BY <1>3, <2>1, <2>2 DEF ApAt, InStart
  <1>4. CASE c \in AP /\ c > cur
    BY <1>4 DEF BringUp, ApAt
  <1> QED
    BY <1>1, <1>2, <1>3, <1>4

\* INIT is accepted by the AP being started, from its parked state.
LEMMA InitAccepted ==
    ASSUME TypeOK, BringUp, NEW c \in CPU, AcceptInit(c)
    PROVE  /\ c = cur /\ c \in AP /\ apc[c] = "parked"
           /\ apc'[c] = "wait_sipi"
           /\ \/ bpc = "sipi1" /\ inbox[c] = Ini /\ inbox'[c] = Empty
              \/ bpc = "sipi2" /\ inbox[c] = IniSipi /\ inbox'[c] = Sipi
              \/ bpc = "wait_started" /\ inbox[c] = IniSipi2 /\ inbox'[c] = Sipi2
  <1>1. inbox[c] # Empty /\ Head(inbox[c]) = "INIT"
    BY InboxHeads DEF AcceptInit, Arrives
  <1>2. /\ c \in AP /\ c = cur /\ apc[c] = "parked"
        /\ \/ bpc = "sipi1" /\ inbox[c] = Ini
           \/ bpc = "sipi2" /\ inbox[c] = IniSipi
           \/ bpc = "wait_started" /\ inbox[c] = IniSipi2
    BY <1>1, Addressee, InboxHeads DEF Asleep, AcceptInit
  <1>3. inbox'[c] = Tail(inbox[c]) /\ apc'[c] = "wait_sipi"
    BY <1>2 DEF AcceptInit, Consume, TypeOK
  <1> QED
    BY <1>2, <1>3, Inboxes

\* STARTUP is accepted by an AP that has been reset, or ignored by one that
\* is already running.
LEMMA SipiAccepted ==
    ASSUME TypeOK, BringUp, NEW c \in CPU, AcceptSipi(c)
    PROVE  /\ c \in AP
           /\ \/ /\ c = cur /\ apc[c] = "wait_sipi" /\ apc'[c] = "stack"
                 /\ \/ bpc = "sipi2" /\ inbox[c] = Sipi /\ inbox'[c] = Empty
                    \/ bpc = "wait_started" /\ inbox[c] = Sipi2 /\ inbox'[c] = Sipi
              \/ /\ c = cur /\ bpc = "wait_started"
                 /\ apc[c] \notin Dormant /\ apc'[c] = apc[c]
                 /\ inbox[c] = Sipi /\ inbox'[c] = Empty
              \/ /\ c < cur /\ apc[c] \in Ready /\ apc'[c] = apc[c]
                 /\ \/ inbox[c] = Sipi /\ inbox'[c] = Empty
                    \/ c = IpiTarget /\ inbox[c] = SipiFixed /\ inbox'[c] = Fixed
  <1>1. inbox[c] # Empty /\ Head(inbox[c]) = "SIPI"
    BY InboxHeads DEF AcceptSipi, Arrives
  <1>2. c \in AP /\ \/ /\ c = cur /\ apc[c] = "wait_sipi"
                       /\ \/ bpc = "sipi2" /\ inbox[c] = Sipi
                          \/ bpc = "wait_started" /\ inbox[c] = Sipi2
                    \/ /\ c = cur /\ bpc = "wait_started"
                       /\ apc[c] \notin Dormant /\ inbox[c] = Sipi
                    \/ /\ c < cur /\ apc[c] \in Ready
                       /\ \/ inbox[c] = Sipi
                          \/ c = IpiTarget /\ inbox[c] = SipiFixed
    BY <1>1, Addressee, InboxHeads
  <1>3. /\ inbox'[c] = Tail(inbox[c])
        /\ apc'[c] = IF apc[c] = "wait_sipi" THEN "stack" ELSE apc[c]
    BY <1>2 DEF AcceptSipi, Consume, TypeOK
  <1> QED
    BY <1>2, <1>3, Inboxes DEF Dormant, Asleep, Ready

\* A fixed interrupt is accepted by the target, which is up by then.
LEMMA FixedAccepted ==
    ASSUME TypeOK, BringUp, NEW c \in CPU, AcceptFixed(c)
    PROVE  /\ c = IpiTarget /\ inbox[c] = Fixed /\ inbox'[c] = Empty
           /\ c \in AP => c < cur /\ apc[c] \in Ready
  <1>1. inbox[c] # Empty /\ Head(inbox[c]) = "FIXED"
    BY InboxHeads DEF AcceptFixed, Arrives
  <1>2. /\ c = IpiTarget /\ inbox[c] = Fixed
        /\ c \in AP => c < cur /\ apc[c] \in Ready
    BY <1>1, Addressee, InboxHeads DEF AP
  <1>3. inbox'[c] = Tail(inbox[c])
    BY DEF AcceptFixed, Consume, TypeOK
  <1> QED
    BY <1>2, <1>3, Inboxes

\* When the BSP is about to send an IPI, the target has none in its inbox.
LEMMA TargetInbox ==
    ASSUME IInv, bpc = "icr"
    PROVE  inbox[IpiTarget] \in {Empty, Sipi} /\ (IpiTarget = Boot => inbox[Boot] = Empty)
  <1> USE SmpAssumption DEF CPU, AP, NCPU, TypeOK
  <1>1. ~OnItsWay /\ IpiTarget \in CPU
    BY DEF IInv, Handshake, IpiTarget
  <1> QED
    BY <1>1, Addressee, InboxesDiffer DEF IInv, OnItsWay, BringUp, BspAt, InStart

-----------------------------------------------------------------------------
(* Every step preserves each part of the invariant. *)

\* Every step keeps the types.
LEMMA TypeOKStep == IInv /\ [Next]_vars => TypeOK'
  <1> SUFFICES ASSUME TypeOK, ApState, BspState, BringUp, Handshake,
                      [Next]_vars
               PROVE  TypeOK'
    BY DEF IInv
  <1> USE SmpAssumption DEF CPU, AP, NCPU, IpiTarget, BspStep, ApStep, Goto,
          vars, bootVars, apicVars, intrVars, ipiVars,
          BspPc, ApPc, TypeOK
  <1>1. CASE BspEnableApic
    BY <1>1 DEF BspEnableApic, enable_apic
  <1>2. CASE SkipSelf
    <2>1. cur' \in 0 .. NCpu
      BY <1>2 DEF SkipSelf, mycpu, BspAt, BringUp
    <2> QED
      BY <1>2, <2>1 DEF SkipSelf, mycpu
  <1>3. CASE SendInit
    <2>1. inbox' \in [CPU -> Seq({"INIT", "SIPI", "FIXED"})]
      BY <1>3, MsgType DEF SendInit, lapicw, mycpu, BspAt, BringUp
    <2> QED
      BY <1>3, <2>1 DEF SendInit, lapicw, mycpu
  <1>4. CASE SendSipi1
    <2>1. inbox' \in [CPU -> Seq({"INIT", "SIPI", "FIXED"})]
      BY <1>4, MsgType DEF SendSipi1, lapicw, BspAt, BringUp
    <2> QED
      BY <1>4, <2>1 DEF SendSipi1, lapicw
  <1>5. CASE SendSipi2
    <2>1. inbox' \in [CPU -> Seq({"INIT", "SIPI", "FIXED"})]
      BY <1>5, MsgType DEF SendSipi2, lapicw, BspAt, BringUp
    <2> QED
      BY <1>5, <2>1 DEF SendSipi2, lapicw
  <1>6. CASE WaitStarted
    <2>1. cur' \in 0 .. NCpu
      BY <1>6 DEF WaitStarted, BspAt, BringUp
    <2> QED
      BY <1>6, <2>1 DEF WaitStarted
  <1>7. CASE StartothersDone
    BY <1>7 DEF StartothersDone
  <1>8. CASE BspX2Msr
    BY <1>8 DEF BspX2Msr
  <1>9. CASE BspX2Ops
    BY <1>9 DEF BspX2Ops
  <1>10. CASE SetupIdt
    BY <1>10 DEF SetupIdt
  <1>11. CASE GateClear
    BY <1>11 DEF GateClear
  <1>12. CASE GatePresent
    BY <1>12 DEF GatePresent
  <1>13. CASE GateOffset
    BY <1>13 DEF GateOffset
  <1>14. CASE SpinLock
    BY <1>14 DEF SpinLock
  <1>15. CASE ClearDone
    BY <1>15 DEF ClearDone
  <1>16. CASE IcrWrite
    <2>1. inbox' \in [CPU -> Seq({"INIT", "SIPI", "FIXED"})]
      BY <1>16, MsgType DEF IcrWrite, IcrBusy, Goto, BspAt, BringUp
    <2> QED
      BY <1>16, <2>1 DEF IcrWrite, IcrBusy, Goto
  <1>17. CASE WaitDone
    BY <1>17 DEF WaitDone
  <1>18. CASE SpinUnlock
    <2>1. i' \in 0 .. Iterations
      BY <1>18 DEF SpinUnlock, BspState, OnCpu
    <2> QED
      BY <1>18, <2>1 DEF SpinUnlock
  <1>19. CASE BenchmarkDone
    BY <1>19 DEF BenchmarkDone
  <1>20. CASE DrainStore
    BY <1>20 DEF DrainStore
  <1>21. CASE Shutdown \/ SpinStarted
    <2>1. UNCHANGED vars
      BY <1>21 DEF Shutdown, SpinStarted
    <2> QED
      BY <2>1
  <1>22. ASSUME NEW a \in AP, TakeStack(a)
        PROVE  TypeOK'
    <2>1. smp_stacktop' \in Int /\ esp' \in [AP -> Int]
      BY <1>22 DEF TakeStack
    <2> QED
      BY <1>22, <2>1 DEF TakeStack
  <1>23. ASSUME NEW a \in AP, MpenterPrint(a)
        PROVE  TypeOK'
    BY <1>23 DEF MpenterPrint
  <1>24. ASSUME NEW a \in AP, MpenterLidt(a)
        PROVE  TypeOK'
    BY <1>24 DEF MpenterLidt
  <1>25. ASSUME NEW a \in AP, MpenterEnableApic(a)
        PROVE  TypeOK'
    BY <1>25 DEF MpenterEnableApic, enable_apic
  <1>26. ASSUME NEW a \in AP, MpenterXchg(a)
        PROVE  TypeOK'
    <2>1. started' \in [CPU -> {0, 1}]
      BY <1>26 DEF MpenterXchg, mycpu
    <2>2. apc' \in [AP -> ApPc]
      BY <1>26 DEF MpenterXchg
    <2> QED
      BY <1>26, <2>1, <2>2 DEF MpenterXchg
  <1>27. ASSUME NEW a \in AP, ApX2Msr(a)
        PROVE  TypeOK'
    BY <1>27 DEF ApX2Msr
  <1>28. ASSUME NEW a \in AP, ApX2Ops(a)
        PROVE  TypeOK'
    BY <1>28 DEF ApX2Ops
  <1>29. ASSUME NEW a \in AP, Sti(a)
        PROVE  TypeOK'
    BY <1>29 DEF Sti
  <1>30. ASSUME NEW a \in AP, Hlt(a)
        PROVE  TypeOK'
    BY <1>30 DEF Hlt
  <1>31. ASSUME NEW a \in AP, TakeInterrupt(a)
        PROVE  TypeOK'
    BY <1>31 DEF TakeInterrupt
  <1>32. ASSUME NEW a \in AP, IpiSetDone(a)
        PROVE  TypeOK'
    <2>1. Entered /\ i < Iterations
      BY <1>32 DEF IpiSetDone, Entered, Handshake, BspState, OnCpu, InHandler
    <2>2. handled' \in 0 .. Iterations
      BY <1>32, <2>1 DEF IpiSetDone, Handshake
    <2> QED
      BY <1>32, <2>2 DEF IpiSetDone
  <1>33. ASSUME NEW a \in AP, IpiEoi(a)
        PROVE  TypeOK'
    BY <1>33 DEF IpiEoi
  <1>34. ASSUME NEW a \in AP, IpiIret(a)
        PROVE  TypeOK'
    BY <1>34 DEF IpiIret
  <1>35. ASSUME NEW c \in CPU, AcceptInit(c)
        PROVE  TypeOK'
    <2>1. inbox' \in [CPU -> Seq({"INIT", "SIPI", "FIXED"})]
      BY <1>35, MsgType DEF AcceptInit, Arrives, Consume
    <2>2. apc' \in [AP -> ApPc]
      BY <1>35 DEF AcceptInit
    <2> QED
      BY <1>35, <2>1, <2>2 DEF AcceptInit
  <1>36. ASSUME NEW c \in CPU, AcceptSipi(c)
        PROVE  TypeOK'
    <2>1. inbox' \in [CPU -> Seq({"INIT", "SIPI", "FIXED"})]
      BY <1>36, MsgType DEF AcceptSipi, Arrives, Consume
    <2>2. apc' \in [AP -> ApPc]
      BY <1>36 DEF AcceptSipi
    <2> QED
      BY <1>36, <2>1, <2>2 DEF AcceptSipi
  <1>37. ASSUME NEW c \in CPU, AcceptFixed(c)
        PROVE  TypeOK'
    <2>1. inbox' \in [CPU -> Seq({"INIT", "SIPI", "FIXED"})]
      BY <1>37, MsgType DEF AcceptFixed, Arrives, Consume
    <2>2. apc' \in [AP -> ApPc]
      BY <1>37 DEF AcceptFixed
    <2> QED
      BY <1>37, <2>1, <2>2 DEF AcceptFixed
  <1>38. CASE UNCHANGED vars
    BY <1>38
  <1> QED
    BY <1>1, <1>2, <1>3, <1>4, <1>5, <1>6, <1>7, <1>8, <1>9, <1>10, <1>11, <1>12, <1>13,
       <1>14, <1>15, <1>16, <1>17, <1>18, <1>19, <1>20, <1>21, <1>22, <1>23, <1>24, <1>25, <1>26,
       <1>27, <1>28, <1>29, <1>30, <1>31, <1>32, <1>33, <1>34, <1>35, <1>36, <1>37, <1>38
    DEF Next, Bsp, StartNext, IpiNext, Ap, Mpenter, Idle, Accept

\* Every step keeps what an AP has done in line with its control point.
LEMMA ApStateStep == IInv /\ [Next]_vars => ApState'
  <1> SUFFICES ASSUME TypeOK, ApState, BspState, BringUp, Handshake,
                      [Next]_vars, NEW b \in AP, ApOk(b)
               PROVE  ApOk(b)'
    BY DEF IInv, ApState
  <1> USE SmpAssumption DEF CPU, AP, NCPU, IpiTarget, BspStep, ApStep, Goto,
          vars, bootVars, apicVars, intrVars, ipiVars,
          TypeOK, ApState, ApOk, Dormant, Asleep, Ready, FinalMode
  <1>1. CASE BspEnableApic
    BY <1>1 DEF BspEnableApic, enable_apic
  <1>2. CASE SkipSelf
    BY <1>2 DEF SkipSelf, mycpu
  <1>3. CASE SendInit
    BY <1>3 DEF SendInit
  <1>4. CASE SendSipi1
    BY <1>4 DEF SendSipi1, lapicw
  <1>5. CASE SendSipi2
    BY <1>5 DEF SendSipi2, lapicw
  <1>6. CASE WaitStarted
    BY <1>6 DEF WaitStarted
  <1>7. CASE StartothersDone
    BY <1>7 DEF StartothersDone
  <1>8. CASE BspX2Msr
    BY <1>8 DEF BspX2Msr
  <1>9. CASE BspX2Ops
    BY <1>9 DEF BspX2Ops, BspState
  <1>10. CASE SetupIdt
    BY <1>10 DEF SetupIdt
  <1>11. CASE GateClear
    BY <1>11 DEF GateClear
  <1>12. CASE GatePresent
    BY <1>12 DEF GatePresent
  <1>13. CASE GateOffset
    BY <1>13 DEF GateOffset
  <1>14. CASE SpinLock
    BY <1>14 DEF SpinLock
  <1>15. CASE ClearDone
    BY <1>15 DEF ClearDone
  <1>16. CASE IcrWrite
    BY <1>16 DEF IcrWrite, IcrBusy, Goto
  <1>17. CASE WaitDone
    BY <1>17 DEF WaitDone
  <1>18. CASE SpinUnlock
    BY <1>18 DEF SpinUnlock
  <1>19. CASE BenchmarkDone
    BY <1>19 DEF BenchmarkDone
  <1>20. CASE DrainStore
    BY <1>20 DEF DrainStore
  <1>21. CASE Shutdown \/ SpinStarted
    <2>1. UNCHANGED vars
      BY <1>21 DEF Shutdown, SpinStarted
    <2> QED
      BY <2>1
  <1>22. ASSUME NEW a \in AP, TakeStack(a)
        PROVE  ApOk(b)'
    <2>1. a = cur
      BY <1>22, StartingIsCur DEF TakeStack
    <2>2. smp_stacktop = StackTop - Before(a)
      BY <1>22, <2>1 DEF TakeStack, BspState, StackTop, Before
    <2>3. CASE b = a
      BY <1>22, <2>2, <2>3 DEF TakeStack
    <2>4. CASE b # a
      BY <1>22, <2>4 DEF TakeStack
    <2> QED
      BY <2>3, <2>4
  <1>23. ASSUME NEW a \in AP, MpenterPrint(a)
        PROVE  ApOk(b)'
    <2>1. CASE b = a
      BY <1>23, <2>1 DEF MpenterPrint
    <2>2. CASE b # a
      BY <1>23, <2>2 DEF MpenterPrint
    <2> QED
      BY <2>1, <2>2
  <1>24. ASSUME NEW a \in AP, MpenterLidt(a)
        PROVE  ApOk(b)'
    <2>1. CASE b = a
      BY <1>24, <2>1 DEF MpenterLidt
    <2>2. CASE b # a
      BY <1>24, <2>2 DEF MpenterLidt
    <2> QED
      BY <2>1, <2>2
  <1>25. ASSUME NEW a \in AP, MpenterEnableApic(a)
        PROVE  ApOk(b)'
    <2>1. CASE b = a
      BY <1>25, <2>1 DEF MpenterEnableApic, enable_apic
    <2>2. CASE b # a
      BY <1>25, <2>2 DEF MpenterEnableApic, enable_apic
    <2> QED
      BY <2>1, <2>2
  <1>26. ASSUME NEW a \in AP, MpenterXchg(a)
        PROVE  ApOk(b)'
    <2>1. mode[a] = "xapic"
      BY <1>26 DEF MpenterXchg
    <2>2. \A c \in CPU : started'[c] = IF c = a THEN 1 ELSE started[c]
      BY <1>26, <2>1 DEF MpenterXchg, mycpu
    <2>3. CASE b = a
      <3>1. apc'[a] = IF X2ApicSupported THEN "x2_msr" ELSE "sti"
        BY <1>26 DEF MpenterXchg
      <3>2. ~X2ApicSupported => apic_ops = "xapic"
        BY DEF BspState
      <3>3. UNCHANGED <<esp, idtr, svr, mode, apic_ops, isr>>
        BY <1>26 DEF MpenterXchg
      <3> QED
        BY <1>26, <2>1, <2>2, <2>3, <3>1, <3>2, <3>3 DEF MpenterXchg
    <2>4. CASE b # a
      BY <1>26, <2>2, <2>4 DEF MpenterXchg
    <2> QED
      BY <2>3, <2>4
  <1>27. ASSUME NEW a \in AP, ApX2Msr(a)
        PROVE  ApOk(b)'
    <2>1. CASE b = a
      BY <1>27, <2>1 DEF ApX2Msr
    <2>2. CASE b # a
      BY <1>27, <2>2 DEF ApX2Msr
    <2> QED
      BY <2>1, <2>2
  <1>28. ASSUME NEW a \in AP, ApX2Ops(a)
        PROVE  ApOk(b)'
    <2>1. CASE b = a
      BY <1>28, <2>1 DEF ApX2Ops
    <2>2. CASE b # a
      BY <1>28, <2>2 DEF ApX2Ops
    <2> QED
      BY <2>1, <2>2
  <1>29. ASSUME NEW a \in AP, Sti(a)
        PROVE  ApOk(b)'
    <2>1. CASE b = a
      BY <1>29, <2>1 DEF Sti
    <2>2. CASE b # a
      BY <1>29, <2>2 DEF Sti
    <2> QED
      BY <2>1, <2>2
  <1>30. ASSUME NEW a \in AP, Hlt(a)
        PROVE  ApOk(b)'
    <2>1. CASE b = a
      BY <1>30, <2>1 DEF Hlt
    <2>2. CASE b # a
      BY <1>30, <2>2 DEF Hlt
    <2> QED
      BY <2>1, <2>2
  <1>31. ASSUME NEW a \in AP, TakeInterrupt(a)
        PROVE  ApOk(b)'
    <2>1. bpc = "wait_done" /\ gate = "set"
      BY <1>31 DEF TakeInterrupt, Handshake, Requested, BspState, Benchmark, OnCpu
    <2>2. CASE b = a
      BY <1>31, <2>1, <2>2 DEF TakeInterrupt
    <2>3. CASE b # a
      BY <1>31, <2>3 DEF TakeInterrupt
    <2> QED
      BY <2>2, <2>3
  <1>32. ASSUME NEW a \in AP, IpiSetDone(a)
        PROVE  ApOk(b)'
    <2>1. CASE b = a
      BY <1>32, <2>1 DEF IpiSetDone
    <2>2. CASE b # a
      BY <1>32, <2>2 DEF IpiSetDone
    <2> QED
      BY <2>1, <2>2
  <1>33. ASSUME NEW a \in AP, IpiEoi(a)
        PROVE  ApOk(b)'
    <2>1. CASE b = a
      BY <1>33, <2>1 DEF IpiEoi
    <2>2. CASE b # a
      BY <1>33, <2>2 DEF IpiEoi
    <2> QED
      BY <2>1, <2>2
  <1>34. ASSUME NEW a \in AP, IpiIret(a)
        PROVE  ApOk(b)'
    <2>1. CASE b = a
      BY <1>34, <2>1 DEF IpiIret
    <2>2. CASE b # a
      BY <1>34, <2>2 DEF IpiIret
    <2> QED
      BY <2>1, <2>2
  <1>35. ASSUME NEW c \in CPU, AcceptInit(c)
        PROVE  ApOk(b)'
    <2>1. apc[c] = "parked" /\ apc'[c] = "wait_sipi" /\ c \in AP
      BY <1>35, InitAccepted
    <2>2. UNCHANGED <<esp, started, mode, apic_ops>>
      BY <1>35 DEF AcceptInit
    <2>3. ~svr'[c] /\ ~idtr'[c] /\ ~isr'[c]
      BY <1>35 DEF AcceptInit
    <2>4. CASE b = c
      BY <2>1, <2>2, <2>3, <2>4
    <2>5. CASE b # c
      BY <1>35, <2>5 DEF AcceptInit
    <2> QED
      BY <2>4, <2>5
  <1>36. ASSUME NEW c \in CPU, AcceptSipi(c)
        PROVE  ApOk(b)'
    <2>1. CASE b = c
      BY <1>36, <2>1 DEF AcceptSipi
    <2>2. CASE b # c
      BY <1>36, <2>2 DEF AcceptSipi
    <2> QED
      BY <2>1, <2>2
  <1>37. ASSUME NEW c \in CPU, AcceptFixed(c)
        PROVE  ApOk(b)'
    BY <1>37 DEF AcceptFixed, Arrives, Consume
  <1>38. CASE UNCHANGED vars
    BY <1>38
  <1> QED
    BY <1>1, <1>2, <1>3, <1>4, <1>5, <1>6, <1>7, <1>8, <1>9, <1>10, <1>11, <1>12, <1>13,
       <1>14, <1>15, <1>16, <1>17, <1>18, <1>19, <1>20, <1>21, <1>22, <1>23, <1>24, <1>25, <1>26,
       <1>27, <1>28, <1>29, <1>30, <1>31, <1>32, <1>33, <1>34, <1>35, <1>36, <1>37, <1>38
    DEF Next, Bsp, StartNext, IpiNext, Ap, Mpenter, Idle, Accept

\* The same for the BSP.
LEMMA BspStateStep == IInv /\ [Next]_vars => BspState'
  <1> SUFFICES ASSUME TypeOK, ApState, BspState, BringUp, Handshake,
                      [Next]_vars
               PROVE  BspState'
    BY DEF IInv
  <1> USE SmpAssumption DEF CPU, AP, NCPU, IpiTarget, BspStep, ApStep, Goto,
          vars, bootVars, apicVars, intrVars, ipiVars,
          TypeOK, BspState, InStart, OnCpu, Benchmark, FinalMode, Before, StackTop
  <1>1. CASE BspEnableApic
    BY <1>1 DEF BspEnableApic, enable_apic
  <1>2. CASE SkipSelf
    <2>1. cur = Boot
      BY <1>2 DEF SkipSelf, mycpu
    <2>2. cur' \in AP => esp'[cur'] = 0
      BY <1>2, <2>1 DEF SkipSelf, BringUp, ApAt, ApState, ApOk, Dormant, Asleep
    <2> QED
      BY <1>2, <2>1, <2>2 DEF SkipSelf, BringUp, BspAt
  <1>3. CASE SendInit
    BY <1>3 DEF SendInit, lapicw, mycpu
  <1>4. CASE SendSipi1
    BY <1>4 DEF SendSipi1, lapicw
  <1>5. CASE SendSipi2
    BY <1>5 DEF SendSipi2, lapicw
  <1>6. CASE WaitStarted
    <2>1. cur \in AP /\ apc[cur] \in Ready
      BY <1>6 DEF WaitStarted, BringUp, BspAt, ApState, ApOk
    <2>2. esp[cur] = StackTop - Before(cur)
      BY <2>1 DEF ApState, ApOk, Ready, Dormant, Asleep
    <2>3. esp[cur] # 0
      BY <2>1, <2>2
    <2>4. cur' \in AP => esp'[cur'] = 0
      BY <1>6, <2>1 DEF WaitStarted, BringUp, ApAt, ApState, ApOk, Dormant, Asleep
    <2> QED
      BY <1>6, <2>1, <2>3, <2>4 DEF WaitStarted, BringUp, BspAt
  <1>7. CASE StartothersDone
    BY <1>7 DEF StartothersDone
  <1>8. CASE BspX2Msr
    BY <1>8 DEF BspX2Msr
  <1>9. CASE BspX2Ops
    BY <1>9 DEF BspX2Ops
  <1>10. CASE SetupIdt
    BY <1>10 DEF SetupIdt
  <1>11. CASE GateClear
    BY <1>11 DEF GateClear
  <1>12. CASE GatePresent
    BY <1>12 DEF GatePresent
  <1>13. CASE GateOffset
    BY <1>13 DEF GateOffset
  <1>14. CASE SpinLock
    BY <1>14 DEF SpinLock
  <1>15. CASE ClearDone
    BY <1>15 DEF ClearDone
  <1>16. CASE IcrWrite
    BY <1>16 DEF IcrWrite, IcrBusy, Goto
  <1>17. CASE WaitDone
    BY <1>17 DEF WaitDone
  <1>18. CASE SpinUnlock
    BY <1>18 DEF SpinUnlock
  <1>19. CASE BenchmarkDone
    BY <1>19 DEF BenchmarkDone
  <1>20. CASE DrainStore
    BY <1>20 DEF DrainStore
  <1>21. CASE Shutdown \/ SpinStarted
    <2>1. UNCHANGED vars
      BY <1>21 DEF Shutdown, SpinStarted
    <2> QED
      BY <2>1
  <1>22. ASSUME NEW a \in AP, TakeStack(a)
        PROVE  BspState'
    <2>1. a = cur /\ esp[a] = 0
      BY <1>22, StartingIsCur DEF TakeStack, ApState, ApOk, Ready, Dormant, Asleep
    <2>2. esp'[cur] # 0
      BY <1>22, <2>1 DEF TakeStack
    <2> QED
      BY <1>22, <2>1, <2>2 DEF TakeStack
  <1>23. ASSUME NEW a \in AP, MpenterPrint(a)
        PROVE  BspState'
    BY <1>23 DEF MpenterPrint
  <1>24. ASSUME NEW a \in AP, MpenterLidt(a)
        PROVE  BspState'
    BY <1>24 DEF MpenterLidt
  <1>25. ASSUME NEW a \in AP, MpenterEnableApic(a)
        PROVE  BspState'
    BY <1>25 DEF MpenterEnableApic, enable_apic
  <1>26. ASSUME NEW a \in AP, MpenterXchg(a)
        PROVE  BspState'
    BY <1>26 DEF MpenterXchg, mycpu
  <1>27. ASSUME NEW a \in AP, ApX2Msr(a)
        PROVE  BspState'
    BY <1>27 DEF ApX2Msr
  <1>28. ASSUME NEW a \in AP, ApX2Ops(a)
        PROVE  BspState'
    BY <1>28 DEF ApX2Ops, ApState, ApOk
  <1>29. ASSUME NEW a \in AP, Sti(a)
        PROVE  BspState'
    BY <1>29 DEF Sti
  <1>30. ASSUME NEW a \in AP, Hlt(a)
        PROVE  BspState'
    BY <1>30 DEF Hlt
  <1>31. ASSUME NEW a \in AP, TakeInterrupt(a)
        PROVE  BspState'
    BY <1>31 DEF TakeInterrupt
  <1>32. ASSUME NEW a \in AP, IpiSetDone(a)
        PROVE  BspState'
    BY <1>32 DEF IpiSetDone
  <1>33. ASSUME NEW a \in AP, IpiEoi(a)
        PROVE  BspState'
    BY <1>33 DEF IpiEoi
  <1>34. ASSUME NEW a \in AP, IpiIret(a)
        PROVE  BspState'
    BY <1>34 DEF IpiIret
  <1>35. ASSUME NEW c \in CPU, AcceptInit(c)
        PROVE  BspState'
    <2>1. c # Boot
      BY <1>35, InitAccepted
    <2> QED
      BY <1>35, <2>1 DEF AcceptInit
  <1>36. ASSUME NEW c \in CPU, AcceptSipi(c)
        PROVE  BspState'
    BY <1>36 DEF AcceptSipi, Arrives, Consume
  <1>37. ASSUME NEW c \in CPU, AcceptFixed(c)
        PROVE  BspState'
    BY <1>37 DEF AcceptFixed, Arrives, Consume
  <1>38. CASE UNCHANGED vars
    BY <1>38
  <1> QED
    BY <1>1, <1>2, <1>3, <1>4, <1>5, <1>6, <1>7, <1>8, <1>9, <1>10, <1>11, <1>12, <1>13,
       <1>14, <1>15, <1>16, <1>17, <1>18, <1>19, <1>20, <1>21, <1>22, <1>23, <1>24, <1>25, <1>26,
       <1>27, <1>28, <1>29, <1>30, <1>31, <1>32, <1>33, <1>34, <1>35, <1>36, <1>37, <1>38
    DEF Next, Bsp, StartNext, IpiNext, Ap, Mpenter, Idle, Accept

\* Every step keeps the BSP's place in cpus[].
LEMMA BspAtStep == IInv /\ [Next]_vars => BspAt'
  <1> SUFFICES ASSUME TypeOK, ApState, BspState, BringUp, Handshake,
                      [Next]_vars, BspAt
               PROVE  BspAt'
    BY DEF IInv, BringUp
  <1> USE SmpAssumption DEF CPU, AP, NCPU, IpiTarget, BspStep, ApStep, Goto,
          vars, bootVars, apicVars, intrVars, ipiVars,
          TypeOK, BspAt, InStart
  <1>1. CASE BspEnableApic
    BY <1>1 DEF BspEnableApic, enable_apic
  <1>2. CASE SkipSelf
    BY <1>2 DEF SkipSelf, mycpu, BspState
  <1>3. CASE SendInit
    <2>1. cur \in AP
      BY <1>3 DEF SendInit, mycpu, BspState, InStart
    <2> QED
      BY <1>3, <2>1 DEF SendInit, lapicw
  <1>4. CASE SendSipi1
    BY <1>4 DEF SendSipi1, lapicw
  <1>5. CASE SendSipi2
    BY <1>5 DEF SendSipi2, lapicw
  <1>6. CASE WaitStarted
    BY <1>6 DEF WaitStarted
  <1>7. CASE StartothersDone
    BY <1>7 DEF StartothersDone, BspState
  <1>8. CASE BspX2Msr
    BY <1>8 DEF BspX2Msr
  <1>9. CASE BspX2Ops
    BY <1>9 DEF BspX2Ops
  <1>10. CASE SetupIdt
    BY <1>10 DEF SetupIdt
  <1>11. CASE GateClear
    BY <1>11 DEF GateClear
  <1>12. CASE GatePresent
    BY <1>12 DEF GatePresent
  <1>13. CASE GateOffset
    BY <1>13 DEF GateOffset
  <1>14. CASE SpinLock
    BY <1>14 DEF SpinLock
  <1>15. CASE ClearDone
    BY <1>15 DEF ClearDone
  <1>16. CASE IcrWrite
    <2>1. CASE Boot = IpiTarget
      <3>1. inbox[Boot] = Empty
        BY <1>16, <2>1, TargetInbox DEF IcrWrite, IInv, BringUp
      <3>2. inbox'[Boot] \in {inbox[Boot], Append(inbox[Boot], "FIXED")}
        BY <1>16, <2>1 DEF IcrWrite
      <3> QED
        BY <1>16, <2>1, <3>1, <3>2, Inboxes DEF IcrWrite
    <2>2. CASE Boot # IpiTarget
      BY <1>16, <2>2 DEF IcrWrite
    <2> QED
      BY <2>1, <2>2
  <1>17. CASE WaitDone
    BY <1>17 DEF WaitDone
  <1>18. CASE SpinUnlock
    BY <1>18 DEF SpinUnlock
  <1>19. CASE BenchmarkDone
    BY <1>19 DEF BenchmarkDone
  <1>20. CASE DrainStore
    BY <1>20 DEF DrainStore
  <1>21. CASE Shutdown \/ SpinStarted
    <2>1. UNCHANGED vars
      BY <1>21 DEF Shutdown, SpinStarted
    <2> QED
      BY <2>1
  <1>22. ASSUME NEW a \in AP, TakeStack(a)
        PROVE  BspAt'
    BY <1>22 DEF TakeStack
  <1>23. ASSUME NEW a \in AP, MpenterPrint(a)
        PROVE  BspAt'
    BY <1>23 DEF MpenterPrint
  <1>24. ASSUME NEW a \in AP, MpenterLidt(a)
        PROVE  BspAt'
    BY <1>24 DEF MpenterLidt
  <1>25. ASSUME NEW a \in AP, MpenterEnableApic(a)
        PROVE  BspAt'
    BY <1>25 DEF MpenterEnableApic, enable_apic
  <1>26. ASSUME NEW a \in AP, MpenterXchg(a)
        PROVE  BspAt'
    BY <1>26 DEF MpenterXchg, mycpu
  <1>27. ASSUME NEW a \in AP, ApX2Msr(a)
        PROVE  BspAt'
    BY <1>27 DEF ApX2Msr
  <1>28. ASSUME NEW a \in AP, ApX2Ops(a)
        PROVE  BspAt'
    BY <1>28 DEF ApX2Ops
  <1>29. ASSUME NEW a \in AP, Sti(a)
        PROVE  BspAt'
    BY <1>29 DEF Sti
  <1>30. ASSUME NEW a \in AP, Hlt(a)
        PROVE  BspAt'
    BY <1>30 DEF Hlt
  <1>31. ASSUME NEW a \in AP, TakeInterrupt(a)
        PROVE  BspAt'
    BY <1>31 DEF TakeInterrupt
  <1>32. ASSUME NEW a \in AP, IpiSetDone(a)
        PROVE  BspAt'
    BY <1>32 DEF IpiSetDone
  <1>33. ASSUME NEW a \in AP, IpiEoi(a)
        PROVE  BspAt'
    BY <1>33 DEF IpiEoi
  <1>34. ASSUME NEW a \in AP, IpiIret(a)
        PROVE  BspAt'
    BY <1>34 DEF IpiIret
  <1>35. ASSUME NEW c \in CPU, AcceptInit(c)
        PROVE  BspAt'
    BY <1>35, InitAccepted DEF AcceptInit, Consume
  <1>36. ASSUME NEW c \in CPU, AcceptSipi(c)
        PROVE  BspAt'
    BY <1>36, SipiAccepted DEF AcceptSipi, Consume
  <1>37. ASSUME NEW c \in CPU, AcceptFixed(c)
        PROVE  BspAt'
    BY <1>37, FixedAccepted DEF AcceptFixed, Consume
  <1>38. CASE UNCHANGED vars
    BY <1>38
  <1> QED
    BY <1>1, <1>2, <1>3, <1>4, <1>5, <1>6, <1>7, <1>8, <1>9, <1>10, <1>11, <1>12, <1>13,
       <1>14, <1>15, <1>16, <1>17, <1>18, <1>19, <1>20, <1>21, <1>22, <1>23, <1>24, <1>25, <1>26,
       <1>27, <1>28, <1>29, <1>30, <1>31, <1>32, <1>33, <1>34, <1>35, <1>36, <1>37, <1>38
    DEF Next, Bsp, StartNext, IpiNext, Ap, Mpenter, Idle, Accept

\* Every step keeps start-up sequential.
LEMMA ApAtStep == IInv /\ [Next]_vars => (\A a \in AP : ApAt(a))'
  <1> SUFFICES ASSUME TypeOK, ApState, BspState, BringUp, Handshake,
                      [Next]_vars, NEW b \in AP, ApAt(b), BspAt
               PROVE  ApAt(b)'
    BY DEF IInv, BringUp
  <1> USE SmpAssumption DEF CPU, AP, NCPU, IpiTarget, BspStep, ApStep, Goto,
          vars, bootVars, apicVars, intrVars, ipiVars,
          TypeOK, ApAt, Dormant, Asleep, Ready, InStart
  <1>1. CASE BspEnableApic
    BY <1>1 DEF BspEnableApic, enable_apic, BspAt
  <1>2. CASE SkipSelf
    BY <1>2 DEF SkipSelf, mycpu, BspState
  <1>3. CASE SendInit
    <2>1. CASE b = cur
      BY <1>3, <2>1, Inboxes DEF SendInit, lapicw, mycpu, BspState
    <2>2. CASE b # cur
      BY <1>3, <2>2 DEF SendInit, lapicw, mycpu, BspAt, BspState
    <2> QED
      BY <2>1, <2>2
  <1>4. CASE SendSipi1
    <2>1. CASE b = cur
      BY <1>4, <2>1, Inboxes DEF SendSipi1, lapicw, BspState
    <2>2. CASE b # cur
      BY <1>4, <2>2 DEF SendSipi1, lapicw, BspAt, BspState
    <2> QED
      BY <2>1, <2>2
  <1>5. CASE SendSipi2
    <2>1. CASE b = cur
      BY <1>5, <2>1, Inboxes DEF SendSipi2, lapicw, BspState
    <2>2. CASE b # cur
      BY <1>5, <2>2 DEF SendSipi2, lapicw, BspAt, BspState
    <2> QED
      BY <2>1, <2>2
  <1>6. CASE WaitStarted
    <2>1. cur \in AP /\ apc[cur] \in Ready
      BY <1>6 DEF WaitStarted, BspAt, ApState, ApOk
    <2>2. CASE b = cur
      BY <1>6, <2>1, <2>2 DEF WaitStarted
    <2>3. CASE b # cur
      BY <1>6, <2>3 DEF WaitStarted, BspAt
    <2> QED
      BY <2>2, <2>3
  <1>7. CASE StartothersDone
    BY <1>7 DEF StartothersDone, BspAt
  <1>8. CASE BspX2Msr
    BY <1>8 DEF BspX2Msr, BspAt
  <1>9. CASE BspX2Ops
    BY <1>9 DEF BspX2Ops, BspAt
  <1>10. CASE SetupIdt
    BY <1>10 DEF SetupIdt, BspAt
  <1>11. CASE GateClear
    BY <1>11 DEF GateClear, BspAt
  <1>12. CASE GatePresent
    BY <1>12 DEF GatePresent, BspAt
  <1>13. CASE GateOffset
    BY <1>13 DEF GateOffset, BspAt
  <1>14. CASE SpinLock
    BY <1>14 DEF SpinLock, BspAt
  <1>15. CASE ClearDone
    BY <1>15 DEF ClearDone, BspAt
  <1>16. CASE IcrWrite
    <2>1. b < cur /\ bpc' \notin InStart /\ UNCHANGED <<cur, apc>>
      BY <1>16 DEF IcrWrite, BspAt
    <2>2. CASE b = IpiTarget
      <3>1. inbox'[b] = inbox[b] \/ inbox'[b] \in {Fixed, SipiFixed}
        BY <1>16, <2>2, TargetInbox, Inboxes DEF IcrWrite, IInv, BringUp
      <3> QED
        BY <1>16, <2>1, <2>2, <3>1
    <2>3. CASE b # IpiTarget
      BY <1>16, <2>1, <2>3 DEF IcrWrite
    <2> QED
      BY <2>2, <2>3
  <1>17. CASE WaitDone
    BY <1>17 DEF WaitDone, BspAt
  <1>18. CASE SpinUnlock
    BY <1>18 DEF SpinUnlock, BspAt
  <1>19. CASE BenchmarkDone
    BY <1>19 DEF BenchmarkDone, BspAt
  <1>20. CASE DrainStore
    BY <1>20 DEF DrainStore, BspAt
  <1>21. CASE Shutdown \/ SpinStarted
    <2>1. UNCHANGED vars
      BY <1>21 DEF Shutdown, SpinStarted
    <2> QED
      BY <2>1 DEF BspAt
  <1>22. ASSUME NEW a \in AP, TakeStack(a)
        PROVE  ApAt(b)'
    <2>1. CASE b = a
      BY <1>22, <2>1 DEF TakeStack
    <2>2. CASE b # a
      BY <1>22, <2>2 DEF TakeStack
    <2> QED
      BY <2>1, <2>2
  <1>23. ASSUME NEW a \in AP, MpenterPrint(a)
        PROVE  ApAt(b)'
    <2>1. CASE b = a
      BY <1>23, <2>1 DEF MpenterPrint
    <2>2. CASE b # a
      BY <1>23, <2>2 DEF MpenterPrint
    <2> QED
      BY <2>1, <2>2
  <1>24. ASSUME NEW a \in AP, MpenterLidt(a)
        PROVE  ApAt(b)'
    <2>1. CASE b = a
      BY <1>24, <2>1 DEF MpenterLidt
    <2>2. CASE b # a
      BY <1>24, <2>2 DEF MpenterLidt
    <2> QED
      BY <2>1, <2>2
  <1>25. ASSUME NEW a \in AP, MpenterEnableApic(a)
        PROVE  ApAt(b)'
    <2>1. CASE b = a
      BY <1>25, <2>1 DEF MpenterEnableApic, enable_apic
    <2>2. CASE b # a
      BY <1>25, <2>2 DEF MpenterEnableApic, enable_apic
    <2> QED
      BY <2>1, <2>2
  <1>26. ASSUME NEW a \in AP, MpenterXchg(a)
        PROVE  ApAt(b)'
    <2>1. CASE b = a
      BY <1>26, <2>1 DEF MpenterXchg, mycpu
    <2>2. CASE b # a
      BY <1>26, <2>2 DEF MpenterXchg, mycpu
    <2> QED
      BY <2>1, <2>2
  <1>27. ASSUME NEW a \in AP, ApX2Msr(a)
        PROVE  ApAt(b)'
    <2>1. CASE b = a
      BY <1>27, <2>1 DEF ApX2Msr
    <2>2. CASE b # a
      BY <1>27, <2>2 DEF ApX2Msr
    <2> QED
      BY <2>1, <2>2
  <1>28. ASSUME NEW a \in AP, ApX2Ops(a)
        PROVE  ApAt(b)'
    <2>1. CASE b = a
      BY <1>28, <2>1 DEF ApX2Ops
    <2>2. CASE b # a
      BY <1>28, <2>2 DEF ApX2Ops
    <2> QED
      BY <2>1, <2>2
  <1>29. ASSUME NEW a \in AP, Sti(a)
        PROVE  ApAt(b)'
    <2>1. CASE b = a
      BY <1>29, <2>1 DEF Sti
    <2>2. CASE b # a
      BY <1>29, <2>2 DEF Sti
    <2> QED
      BY <2>1, <2>2
  <1>30. ASSUME NEW a \in AP, Hlt(a)
        PROVE  ApAt(b)'
    <2>1. CASE b = a
      BY <1>30, <2>1 DEF Hlt
    <2>2. CASE b # a
      BY <1>30, <2>2 DEF Hlt
    <2> QED
      BY <2>1, <2>2
  <1>31. ASSUME NEW a \in AP, TakeInterrupt(a)
        PROVE  ApAt(b)'
    <2>1. apc[a] \in Ready /\ a < cur
      BY <1>31 DEF TakeInterrupt, Handshake, Requested, BspAt
    <2>2. gate = "set" /\ idtr[a]
      BY <1>31 DEF TakeInterrupt, Handshake, Requested, BspState, Benchmark, OnCpu, ApState, ApOk
    <2>3. CASE b = a
      BY <1>31, <2>1, <2>2, <2>3 DEF TakeInterrupt
    <2>4. CASE b # a
      BY <1>31, <2>4 DEF TakeInterrupt
    <2> QED
      BY <2>3, <2>4
  <1>32. ASSUME NEW a \in AP, IpiSetDone(a)
        PROVE  ApAt(b)'
    <2>1. CASE b = a
      BY <1>32, <2>1 DEF IpiSetDone
    <2>2. CASE b # a
      BY <1>32, <2>2 DEF IpiSetDone
    <2> QED
      BY <2>1, <2>2
  <1>33. ASSUME NEW a \in AP, IpiEoi(a)
        PROVE  ApAt(b)'
    <2>1. apic_ops = mode[a]
      BY <1>33 DEF IpiEoi, ApState, ApOk
    <2>2. CASE b = a
      BY <1>33, <2>1, <2>2 DEF IpiEoi
    <2>3. CASE b # a
      BY <1>33, <2>3 DEF IpiEoi
    <2> QED
      BY <2>2, <2>3
  <1>34. ASSUME NEW a \in AP, IpiIret(a)
        PROVE  ApAt(b)'
    <2>1. CASE b = a
      BY <1>34, <2>1 DEF IpiIret
    <2>2. CASE b # a
      BY <1>34, <2>2 DEF IpiIret
    <2> QED
      BY <2>1, <2>2
  <1>35. ASSUME NEW c \in CPU, AcceptInit(c)
        PROVE  ApAt(b)'
    <2>1. UNCHANGED <<bpc, cur>>
      BY <1>35 DEF AcceptInit
    <2>2. CASE b = c
      BY <1>35, InitAccepted, <2>1, <2>2 DEF BringUp
    <2>3. CASE b # c
      <3>1. inbox'[b] = inbox[b] /\ apc'[b] = apc[b]
        BY <1>35, <2>3 DEF AcceptInit, Consume
      <3> QED
        BY <2>1, <3>1
    <2> QED
      BY <2>2, <2>3
  <1>36. ASSUME NEW c \in CPU, AcceptSipi(c)
        PROVE  ApAt(b)'
    <2>1. UNCHANGED <<bpc, cur>>
      BY <1>36 DEF AcceptSipi
    <2>2. CASE b = c
      BY <1>36, SipiAccepted, <2>1, <2>2 DEF BringUp
    <2>3. CASE b # c
      <3>1. inbox'[b] = inbox[b] /\ apc'[b] = apc[b]
        BY <1>36, <2>3 DEF AcceptSipi, Consume
      <3> QED
        BY <2>1, <3>1
    <2> QED
      BY <2>2, <2>3
  <1>37. ASSUME NEW c \in CPU, AcceptFixed(c)
        PROVE  ApAt(b)'
    <2>1. UNCHANGED <<bpc, cur>>
      BY <1>37 DEF AcceptFixed
    <2>2. CASE b = c
      BY <1>37, FixedAccepted, <2>1, <2>2 DEF BringUp, AcceptFixed
    <2>3. CASE b # c
      <3>1. inbox'[b] = inbox[b] /\ apc'[b] = apc[b]
        BY <1>37, <2>3 DEF AcceptFixed, Consume
      <3> QED
        BY <2>1, <3>1
    <2> QED
      BY <2>2, <2>3
  <1>38. CASE UNCHANGED vars
    BY <1>38
  <1> QED
    BY <1>1, <1>2, <1>3, <1>4, <1>5, <1>6, <1>7, <1>8, <1>9, <1>10, <1>11, <1>12, <1>13,
       <1>14, <1>15, <1>16, <1>17, <1>18, <1>19, <1>20, <1>21, <1>22, <1>23, <1>24, <1>25, <1>26,
       <1>27, <1>28, <1>29, <1>30, <1>31, <1>32, <1>33, <1>34, <1>35, <1>36, <1>37, <1>38
    DEF Next, Bsp, StartNext, IpiNext, Ap, Mpenter, Idle, Accept

\* Every step keeps a request in one place.
LEMMA HandshakeStep == IInv /\ [Next]_vars => Handshake'
  <1> SUFFICES ASSUME TypeOK, ApState, BspState, BringUp, Handshake,
                      [Next]_vars
               PROVE  Handshake'
    BY DEF IInv
  <1> USE SmpAssumption DEF CPU, AP, NCPU, IpiTarget, BspStep, ApStep, Goto,
          vars, bootVars, apicVars, intrVars, ipiVars,
          TypeOK, Handshake, OnItsWay, Requested, Entered, InHandler
  <1>1. CASE BspEnableApic
    BY <1>1 DEF BspEnableApic, enable_apic
  <1>2. CASE SkipSelf
    BY <1>2 DEF SkipSelf, mycpu
  <1>3. CASE SendInit
    <2>1. cur \in AP
      BY <1>3 DEF SendInit, lapicw, mycpu, BspState, BringUp, BspAt
    <2>2. inbox[cur] \in {Empty, Ini, IniSipi, Sipi}
      BY <1>3, <2>1 DEF BringUp, ApAt, SendInit, lapicw, mycpu
    <2>3. inbox'[cur] \notin {Fixed, SipiFixed}
      BY <1>3, <2>1, <2>2, Inboxes, InboxesDiffer DEF SendInit, lapicw, mycpu, BringUp, ApAt
    <2>4. ~OnItsWay'
      BY <1>3, <2>3 DEF SendInit, lapicw, mycpu
    <2> QED
      BY <1>3, <2>4 DEF SendInit, lapicw, mycpu
  <1>4. CASE SendSipi1
    <2>1. cur \in AP
      BY <1>4 DEF SendSipi1, lapicw, BspState, BringUp, BspAt
    <2>2. inbox[cur] \in {Empty, Ini, IniSipi, Sipi}
      BY <1>4, <2>1 DEF BringUp, ApAt, SendSipi1, lapicw
    <2>3. inbox'[cur] \notin {Fixed, SipiFixed}
      BY <1>4, <2>1, <2>2, Inboxes, InboxesDiffer DEF SendSipi1, lapicw, BringUp, ApAt
    <2>4. ~OnItsWay'
      BY <1>4, <2>3 DEF SendSipi1, lapicw
    <2> QED
      BY <1>4, <2>4 DEF SendSipi1, lapicw
  <1>5. CASE SendSipi2
    <2>1. cur \in AP
      BY <1>5 DEF SendSipi2, lapicw, BspState, BringUp, BspAt
    <2>2. inbox[cur] \in {Empty, Ini, IniSipi, Sipi}
      BY <1>5, <2>1 DEF BringUp, ApAt, SendSipi2, lapicw
    <2>3. inbox'[cur] \notin {Fixed, SipiFixed}
      BY <1>5, <2>1, <2>2, Inboxes, InboxesDiffer DEF SendSipi2, lapicw, BringUp, ApAt
    <2>4. ~OnItsWay'
      BY <1>5, <2>3 DEF SendSipi2, lapicw
    <2> QED
      BY <1>5, <2>4 DEF SendSipi2, lapicw
  <1>6. CASE WaitStarted
    BY <1>6 DEF WaitStarted
  <1>7. CASE StartothersDone
    BY <1>7 DEF StartothersDone
  <1>8. CASE BspX2Msr
    BY <1>8 DEF BspX2Msr
  <1>9. CASE BspX2Ops
    BY <1>9 DEF BspX2Ops
  <1>10. CASE SetupIdt
    BY <1>10 DEF SetupIdt
  <1>11. CASE GateClear
    BY <1>11 DEF GateClear
  <1>12. CASE GatePresent
    BY <1>12 DEF GatePresent
  <1>13. CASE GateOffset
    BY <1>13 DEF GateOffset
  <1>14. CASE SpinLock
    BY <1>14 DEF SpinLock
  <1>15. CASE ClearDone
    BY <1>15 DEF ClearDone
  <1>16. CASE IcrWrite
    <2>1. apic_ops = mode[Boot] /\ bpc' = "wait_done"
      BY <1>16 DEF IcrWrite, Goto, BspState, InStart, FinalMode
    <2>2. inbox'[IpiTarget] = Append(inbox[IpiTarget], "FIXED")
      BY <1>16, <2>1 DEF IcrWrite
    <2>3. OnItsWay'
      BY <1>16, <2>2, TargetInbox, Inboxes DEF IcrWrite, IInv
    <2> QED
      BY <1>16, <2>1, <2>3 DEF IcrWrite
  <1>17. CASE WaitDone
    BY <1>17 DEF WaitDone
  <1>18. CASE SpinUnlock
    BY <1>18 DEF SpinUnlock
  <1>19. CASE BenchmarkDone
    BY <1>19 DEF BenchmarkDone
  <1>20. CASE DrainStore
    BY <1>20 DEF DrainStore
  <1>21. CASE Shutdown \/ SpinStarted
    <2>1. UNCHANGED vars
      BY <1>21 DEF Shutdown, SpinStarted
    <2> QED
      BY <2>1
  <1>22. ASSUME NEW a \in AP, TakeStack(a)
        PROVE  Handshake'
    BY <1>22 DEF TakeStack
  <1>23. ASSUME NEW a \in AP, MpenterPrint(a)
        PROVE  Handshake'
    BY <1>23 DEF MpenterPrint
  <1>24. ASSUME NEW a \in AP, MpenterLidt(a)
        PROVE  Handshake'
    BY <1>24 DEF MpenterLidt
  <1>25. ASSUME NEW a \in AP, MpenterEnableApic(a)
        PROVE  Handshake'
    BY <1>25 DEF MpenterEnableApic, enable_apic
  <1>26. ASSUME NEW a \in AP, MpenterXchg(a)
        PROVE  Handshake'
    BY <1>26 DEF MpenterXchg, mycpu
  <1>27. ASSUME NEW a \in AP, ApX2Msr(a)
        PROVE  Handshake'
    BY <1>27 DEF ApX2Msr
  <1>28. ASSUME NEW a \in AP, ApX2Ops(a)
        PROVE  Handshake'
    BY <1>28 DEF ApX2Ops
  <1>29. ASSUME NEW a \in AP, Sti(a)
        PROVE  Handshake'
    BY <1>29 DEF Sti
  <1>30. ASSUME NEW a \in AP, Hlt(a)
        PROVE  Handshake'
    BY <1>30 DEF Hlt
  <1>31. ASSUME NEW a \in AP, TakeInterrupt(a)
        PROVE  Handshake'
    <2>1. a = IpiTarget /\ Requested /\ ~OnItsWay /\ ~Entered /\ bpc = "wait_done"
      BY <1>31 DEF TakeInterrupt
    <2>2. apc'[a] \in {"h_done", "fault"} /\ apc'[a] # "fault"
      BY <1>31, <2>1 DEF TakeInterrupt, ApState, ApOk, Ready, BspState, Benchmark, OnCpu
    <2>3. Entered' /\ ~Requested' /\ ~OnItsWay'
      BY <1>31, <2>1, <2>2 DEF TakeInterrupt
    <2> QED
      BY <1>31, <2>1, <2>3 DEF TakeInterrupt
  <1>32. ASSUME NEW a \in AP, IpiSetDone(a)
        PROVE  Handshake'
    BY <1>32 DEF IpiSetDone
  <1>33. ASSUME NEW a \in AP, IpiEoi(a)
        PROVE  Handshake'
    BY <1>33 DEF IpiEoi
  <1>34. ASSUME NEW a \in AP, IpiIret(a)
        PROVE  Handshake'
    BY <1>34 DEF IpiIret
  <1>35. ASSUME NEW c \in CPU, AcceptInit(c)
        PROVE  Handshake'
    <2>1. c \in AP /\ apc[c] = "parked" /\ apc'[c] = "wait_sipi"
      BY <1>35, InitAccepted
    <2>2. inbox[c] \notin {Fixed, SipiFixed} /\ inbox'[c] \notin {Fixed, SipiFixed}
      BY <1>35, InitAccepted, InboxesDiffer
    <2>3. OnItsWay' <=> OnItsWay
      BY <1>35, <2>2 DEF AcceptInit, Consume
    <2>4. bpc # "wait_done" /\ UNCHANGED <<bpc, ipiVars>>
      BY <1>35, InitAccepted DEF AcceptInit
    <2>5. ~Requested' /\ ~Entered'
      BY <1>35, <2>1, <2>4 DEF AcceptInit
    <2>6. \A d \in AP : apc'[d] \in InHandler => apc[d] \in InHandler
      BY <1>35 DEF AcceptInit
    <2>7. \A d \in CPU : irr'[d] => irr[d]
      BY <1>35 DEF AcceptInit
    <2> QED
      BY <2>3, <2>4, <2>5, <2>6, <2>7
  <1>36. ASSUME NEW c \in CPU, AcceptSipi(c)
        PROVE  Handshake'
    <2>1. inbox[c] \in {Fixed, SipiFixed} <=> inbox'[c] \in {Fixed, SipiFixed}
      BY <1>36, SipiAccepted, InboxesDiffer
    <2>2. OnItsWay' <=> OnItsWay
      BY <1>36, <2>1 DEF AcceptSipi, Consume
    <2>3. \A a \in AP : apc'[a] \in InHandler <=> apc[a] \in InHandler
      BY <1>36 DEF AcceptSipi
    <2>4. Entered' <=> Entered
      BY <1>36 DEF AcceptSipi
    <2> QED
      BY <1>36, <2>2, <2>3, <2>4 DEF AcceptSipi
  <1>37. ASSUME NEW c \in CPU, AcceptFixed(c)
        PROVE  Handshake'
    <2>1. c = IpiTarget /\ OnItsWay /\ ~OnItsWay'
      BY <1>37, FixedAccepted, InboxesDiffer DEF AcceptFixed
    <2>2. irr'[c] = (irr[c] \/ svr[c]) /\ \A d \in CPU \ {c} : irr'[d] = irr[d]
      BY <1>37 DEF AcceptFixed
    <2>3. svr[c]
      BY <1>37, FixedAccepted DEF ApState, ApOk, Ready, BspState
    <2>4. Requested' /\ ~Entered'
      BY <1>37, <2>1, <2>2, <2>3 DEF AcceptFixed
    <2> QED
      BY <1>37, <2>1, <2>2, <2>4 DEF AcceptFixed
  <1>38. CASE UNCHANGED vars
    BY <1>38
  <1> QED
    BY <1>1, <1>2, <1>3, <1>4, <1>5, <1>6, <1>7, <1>8, <1>9, <1>10, <1>11, <1>12, <1>13,
       <1>14, <1>15, <1>16, <1>17, <1>18, <1>19, <1>20, <1>21, <1>22, <1>23, <1>24, <1>25, <1>26,
       <1>27, <1>28, <1>29, <1>30, <1>31, <1>32, <1>33, <1>34, <1>35, <1>36, <1>37, <1>38
    DEF Next, Bsp, StartNext, IpiNext, Ap, Mpenter, Idle, Accept

-----------------------------------------------------------------------------
(* The theorems. *)

\* The invariant holds when main() begins.
LEMMA InitIInv == Init => IInv
  <1> SUFFICES ASSUME Init PROVE IInv
    OBVIOUS
  <1> USE SmpAssumption DEF CPU, AP, NCPU, IpiTarget, Init
  <1>1. TypeOK
    <2>1. inbox \in [CPU -> Seq({"INIT", "SIPI", "FIXED"})]
      OBVIOUS
    <2>2. /\ cur \in 0 .. NCpu /\ i \in 0 .. Iterations
          /\ handled \in 0 .. Iterations /\ smp_stacktop \in Int
      BY DEF StackTop
    <2>3. /\ apc \in [AP -> ApPc] /\ bpc \in BspPc
          /\ mode \in [CPU -> {"xapic", "x2apic"}]
      BY DEF BspPc, ApPc
    <2>4. /\ svr \in [CPU -> BOOLEAN] /\ idtr \in [CPU -> BOOLEAN]
          /\ irr \in [CPU -> BOOLEAN] /\ isr \in [CPU -> BOOLEAN]
      OBVIOUS
    <2>5. started \in [CPU -> {0, 1}] /\ esp \in [AP -> Int]
      OBVIOUS
    <2>6. /\ apic_ops \in {"xapic", "x2apic"} /\ gate \in {"absent", "partial", "set"}
          /\ ipi_lock \in {0, 1} /\ ipi_done \in {0, 1} /\ sbuf \in BOOLEAN
      OBVIOUS
    <2> HIDE DEF Init
    <2> QED
      BY <2>1, <2>2, <2>3, <2>4, <2>5, <2>6 DEF TypeOK
  <1>2. ApState
    BY DEF ApState, ApOk, Dormant, Asleep, Ready
  <1>3. BspState
    BY DEF BspState, InStart, OnCpu, Benchmark, StackTop, Before
  <1>4. BringUp
    BY DEF BringUp, BspAt, ApAt, InStart, Asleep, Empty
  <1>5. ~OnItsWay /\ ~Requested /\ ~Entered
    <2>1. IpiTarget \in AP => apc[IpiTarget] # "h_done"
      OBVIOUS
    <2> QED
      BY <2>1, InboxesDiffer DEF OnItsWay, Requested, Entered, Empty
  <1>6. Handshake
    BY <1>5 DEF Handshake, InHandler
  <1> QED
    BY <1>1, <1>2, <1>3, <1>4, <1>6 DEF IInv

\* IInv holds in every reachable state: start-up and the IPI handshake of the
\* code keep what each CPU has done in line with its control point.
THEOREM Invariance == Spec => []IInv
  <1>1. IInv /\ [Next]_vars => IInv'
    BY TypeOKStep, ApStateStep, BspStateStep, BspAtStep, ApAtStep, HandshakeStep
    DEF IInv, BringUp
  <1> QED
    BY InitIInv, <1>1, PTL DEF Spec

\* Type correctness, with the bounds on the benchmark's counters.
THEOREM TypeCorrect == Spec => []TypeOK
  <1>1. IInv => TypeOK
    BY DEF IInv
  <1> QED
    BY Invariance, <1>1, PTL

\* mycpu(), enable_apic() and lapicw() touch the memory-mapped registers only
\* on a CPU that is still in xAPIC mode, whatever the interleaving of the CPUs.
THEOREM MmioSafe == Spec => []MmioOnlyInXapic
  <1>1. IInv => MmioOnlyInXapic
    BY DEF IInv, MmioOnlyInXapic, ApState, ApOk, BspState, InStart, Ready
  <1> QED
    BY Invariance, <1>1, PTL

\* Whoever uses the shared apic_ops finds the accessors of its own mode there.
THEOREM OpsSafe == Spec => []OpsMatchMode
  <1>1. IInv => OpsMatchMode
    BY DEF IInv, OpsMatchMode, ApState, ApOk, BspState, InStart, Ready, FinalMode
  <1> QED
    BY Invariance, <1>1, PTL

\* No CPU takes an interrupt through an unfinished gate or faults on an MSR.
THEOREM FaultFree == Spec => []NoFault
  <1>1. IInv => NoFault
    BY DEF IInv, NoFault, ApState, ApOk, BspState
  <1> QED
    BY Invariance, <1>1, PTL

\* started tells the truth: its CPU has its stack, its IDT and its local APIC.
THEOREM StartedTruthful == Spec => []StartedIsUp
  <1>1. ASSUME IInv, NEW a \in AP, started[a] = 1
        PROVE  /\ esp[a] # 0 /\ idtr[a] /\ svr[a]
               /\ apc[a] \in Ready
    <2>1. apc[a] \in Ready /\ idtr[a] /\ svr[a] /\ esp[a] = StackTop - Before(a)
      BY <1>1 DEF IInv, ApState, ApOk, Ready, Dormant, Asleep
    <2>2. StackTop - Before(a) # 0
      BY SmpAssumption DEF StackTop, Before, AP, CPU, NCPU
    <2> QED
      BY <2>1, <2>2
  <1>2. IInv => StartedIsUp
    BY <1>1 DEF StartedIsUp, Ready
  <1> QED
    BY Invariance, <1>2, PTL

\* The stack of an AP is a function of its place in cpus[], so no two share
\* one and the second STARTUP message takes none.
THEOREM StacksSafe == Spec => []StacksDistinct
  <1>1. ASSUME IInv, NEW a \in AP, esp[a] # 0
        PROVE  esp[a] = StackTop - Before(a) /\ smp_stacktop < esp[a]
    <2> USE SmpAssumption DEF AP, CPU, NCPU
    <2>1. esp[a] = StackTop - Before(a) /\ apc[a] \notin Dormant
      BY <1>1 DEF IInv, ApState, ApOk
    <2>2. a <= cur
      BY <1>1, <2>1 DEF IInv, TypeOK, BringUp, ApAt, Dormant, Asleep
    <2>3. CASE a = cur
      BY <1>1, <2>1, <2>3 DEF IInv, BspState, StackTop, Before
    <2>4. CASE a < cur
      BY <1>1, <2>1, <2>4 DEF IInv, TypeOK, BspState, StackTop, Before
    <2> QED
      BY <1>1, <2>1, <2>2, <2>3, <2>4 DEF IInv, TypeOK
  <1>2. \A a, b \in AP : a # b => Before(a) # Before(b)
    BY SmpAssumption DEF AP, CPU, Before, NCPU
  <1>3. \A a \in AP : Before(a) \in 0 .. NCpu - 1
    BY SmpAssumption DEF AP, CPU, Before, NCPU
  <1>4. IInv => StacksDistinct
    <2> SUFFICES ASSUME IInv, NEW a \in AP, NEW b \in AP, esp[a] # 0
                 PROVE  /\ smp_stacktop < esp[a] /\ esp[a] <= StackTop
                        /\ StackTop - NCpu < esp[a]
                        /\ a # b => esp[a] # esp[b]
      BY DEF StacksDistinct
    <2>1. esp[a] = StackTop - Before(a) /\ smp_stacktop < esp[a]
      BY <1>1
    <2>2. esp[a] <= StackTop /\ StackTop - NCpu < esp[a]
      BY <2>1, <1>3, SmpAssumption DEF StackTop, NCPU
    <2>3. a # b => esp[a] # esp[b]
      <3>1. CASE esp[b] = 0
        BY <3>1
      <3>2. CASE esp[b] # 0
        BY <2>1, <1>1, <1>2, <1>3, <3>2 DEF StackTop
      <3> QED
        BY <3>1, <3>2
    <2> QED
      BY <2>1, <2>2, <2>3
  <1> QED
    BY Invariance, <1>4, PTL

\* At most one AP is on its way from STARTUP to started = 1.
THEOREM SerialStart == Spec => []SerialBringUp
  <1>1. ASSUME IInv, NEW a \in AP, Starting(a)
        PROVE  a = cur
    BY <1>1, StartingIsCur DEF IInv, Starting, Ready, Dormant, Asleep
  <1>2. IInv => SerialBringUp
    BY <1>1 DEF SerialBringUp
  <1> QED
    BY Invariance, <1>2, PTL

\* on_cpu() returns after exactly one run of the handler, its own.
THEOREM OneRunPerCall == Spec => []OneHandlerPerCall
  <1>1. IInv => OneHandlerPerCall
    BY DEF IInv, OneHandlerPerCall, Handshake
  <1> QED
    BY Invariance, <1>1, PTL

\* No IPI is sent on top of an undelivered one.
THEOREM NoCoalescing == Spec => []NoCoalescedIpi
  <1>1. ASSUME IInv, bpc = "icr"
        PROVE  ~irr[IpiTarget] /\ inbox[IpiTarget] \in {Empty, Sipi}
    BY <1>1, TargetInbox DEF IInv, Handshake, Requested
  <1>2. \A q \in {Empty, Sipi} : \A k \in 1 .. Len(q) : q[k] # "FIXED"
    BY DEF Empty, Sipi
  <1>3. IInv => NoCoalescedIpi
    BY <1>1, <1>2 DEF NoCoalescedIpi
  <1> QED
    BY Invariance, <1>3, PTL

=============================================================================
