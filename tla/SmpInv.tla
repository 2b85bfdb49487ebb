------------------------------- MODULE SmpInv -------------------------------
(***************************************************************************)
(* The inductive invariant of Smp: what every reachable state satisfies and *)
(* every step preserves, in named parts.  SmpProofs proves it.              *)
(***************************************************************************)
EXTENDS Smp

(* The contents an inbox can have, named. *)
Empty     == <<>>
Ini       == <<"INIT">>
IniSipi   == <<"INIT", "SIPI">>
IniSipi2  == <<"INIT", "SIPI", "SIPI">>
Sipi      == <<"SIPI">>
Sipi2     == <<"SIPI", "SIPI">>
Fixed     == <<"FIXED">>
SipiFixed == <<"SIPI", "FIXED">>

(* Stretches of the control of an AP and of the BSP. *)
Asleep    == {"absent", "parked"}
Dormant   == Asleep \cup {"wait_sipi"}
Ready     == {"x2_msr", "x2_ops", "sti", "running", "hlt", "h_done", "h_eoi", "h_iret"}
InHandler == {"h_done", "h_eoi", "h_iret"}
InStart   == {"enable_apic", "loop", "sipi1", "sipi2", "wait_started"}
OnCpu     == {"clear", "icr", "wait_done", "unlock"}
Benchmark == OnCpu \cup {"lock", "done"}

\* The mode and the accessors every CPU ends up with.
FinalMode == IF X2ApicSupported THEN "x2apic" ELSE "xapic"

\* The number of APs among the first n entries of cpus[].
Before(n) == IF n <= Boot THEN n ELSE n - 1

\* What an AP has done so far is a function of its control point.
ApOk(a) ==
    /\ apc[a] # "fault"
    /\ esp[a] = IF apc[a] \in Dormant \cup {"stack"} THEN 0 ELSE StackTop - Before(a)
    /\ idtr[a] <=> apc[a] \in {"enable_apic", "xchg"} \cup Ready
    /\ svr[a] <=> apc[a] \in {"xchg"} \cup Ready
    /\ started[a] = IF apc[a] \in Ready THEN 1 ELSE 0
    /\ mode[a] = IF apc[a] \in Ready \ {"x2_msr"} THEN FinalMode ELSE "xapic"
    /\ apc[a] \in {"x2_msr", "x2_ops"} => X2ApicSupported
    /\ apc[a] \in Ready \ {"x2_msr", "x2_ops"} => apic_ops = FinalMode
    /\ isr[a] <=> apc[a] \in {"h_done", "h_eoi"}

ApState == \A a \in AP : ApOk(a)

\* What the BSP has done so far is a function of its control point.
BspState ==
    /\ bpc # "fault"
    /\ mode[Boot] = IF bpc \in InStart \cup {"x2_msr"} THEN "xapic" ELSE FinalMode
    /\ ~X2ApicSupported => apic_ops = "xapic"
    /\ bpc \in {"x2_msr", "x2_ops"} => X2ApicSupported
    /\ bpc \notin InStart \cup {"x2_msr", "x2_ops"} => apic_ops = FinalMode
    /\ bpc \in Benchmark => gate = "set"
    /\ bpc \in OnCpu => i < Iterations
    /\ bpc \notin Benchmark => i = 0
    /\ bpc # "enable_apic" => svr[Boot]
    /\ ~isr[Boot]
    /\ smp_stacktop = StackTop - Before(cur)
                        - (IF cur \in AP /\ esp[cur] # 0 THEN 1 ELSE 0)

\* startothers() goes through cpus[] in order: the APs behind cur are up, the
\* APs ahead of it untouched, and the one at cur is as far as the messages
\* sent to it allow.
ApAt(a) ==
    /\ a > cur \/ (a = cur /\ bpc \in {"enable_apic", "loop"}) =>
          apc[a] \in Asleep /\ inbox[a] = Empty
    /\ a = cur /\ bpc = "sipi1" =>
          \/ apc[a] \in Asleep /\ inbox[a] = Ini
          \/ apc[a] = "wait_sipi" /\ inbox[a] = Empty
    /\ a = cur /\ bpc = "sipi2" =>
          \/ apc[a] \in Asleep /\ inbox[a] = IniSipi
          \/ apc[a] = "wait_sipi" /\ inbox[a] = Sipi
          \/ apc[a] \notin Dormant /\ inbox[a] = Empty
    /\ a = cur /\ bpc = "wait_started" =>
          \/ apc[a] \in Asleep /\ inbox[a] = IniSipi2
          \/ apc[a] = "wait_sipi" /\ inbox[a] = Sipi2
          \/ apc[a] \notin Dormant /\ inbox[a] \in {Sipi, Empty}
    /\ a < cur =>
          /\ apc[a] \in Ready
          /\ \/ inbox[a] \in {Empty, Sipi}
             \/ a = IpiTarget /\ inbox[a] \in {Fixed, SipiFixed}

BspAt ==
    /\ bpc = "enable_apic" => cur = 0
    /\ bpc \in {"sipi1", "sipi2", "wait_started"} => cur \in AP
    /\ bpc \notin InStart => cur = NCpu
    /\ \/ inbox[Boot] = Empty
       \/ Boot = IpiTarget /\ inbox[Boot] = Fixed

BringUp == BspAt /\ \A a \in AP : ApAt(a)

\* The stages a request passes through on its way to the handler.
OnItsWay  == inbox[IpiTarget] \in {Fixed, SipiFixed}
Requested == irr[IpiTarget]
Entered   == IpiTarget \in AP /\ apc[IpiTarget] = "h_done"

\* The handshake: between sending and the store to ipi_done a request is in
\* exactly one of its stages, and ipi_done reads 0; otherwise there is none.
Handshake ==
    /\ \A c \in CPU : irr[c] => c = IpiTarget
    /\ \A a \in AP : apc[a] \in InHandler => a = IpiTarget
    /\ sbuf => bpc \in {"icr", "wait_done"}
    /\ bpc = "icr" => sbuf \/ ipi_done = 0
    /\ bpc # "wait_done" => ~OnItsWay /\ ~Requested /\ ~Entered
    /\ OnItsWay => ~Requested /\ ~Entered
    /\ Requested => ~Entered
    /\ OnItsWay \/ Requested \/ Entered => handled = i /\ (sbuf \/ ipi_done = 0)
    /\ bpc = "wait_done" /\ ~OnItsWay /\ ~Requested /\ ~Entered => handled = i + 1
    /\ bpc = "unlock" => handled = i + 1
    /\ bpc \notin {"wait_done", "unlock"} => handled = i

\* The inductive invariant of the specification Smp: control points determine
\* what each CPU has done, start-up is sequential, and a request to the target
\* CPU is in one place at a time.
IInv == TypeOK /\ ApState /\ BspState /\ BringUp /\ Handshake

=============================================================================
