---------------------------- MODULE MCExceptions ----------------------------
(***************************************************************************)
(* An instance of Exceptions for TLC: the boot processor raises every       *)
(* vector with a stub and some without, another processor #UD.              *)
(***************************************************************************)
EXTENDS Exceptions

Vectors == [c \in Cpu |-> IF c = Boot THEN 0 .. 20 ELSE {6}]
\* The other processor comes in once.
Steps == [c \in Cpu |-> IF c = Boot THEN 2 ELSE 1]
TwoEntries == [r \in {1, 2} |-> r + 10]

=============================================================================
