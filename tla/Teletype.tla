------------------------------ MODULE Teletype ------------------------------
(***************************************************************************)
(* What the console promises: a printer with an endless roll of paper.  A   *)
(* glyph goes where the head stands and moves it on, a full line or a line  *)
(* feed starts a new line, a carriage return moves the head to the margin.  *)
(***************************************************************************)
EXTENDS Integers, Sequences

CONSTANTS
    COLUMNS,   \* glyphs on a line
    Glyph      \* what can be printed

VARIABLES
    paper,     \* the lines, the last one being printed on
    head       \* column of the head

Blank == "blank"
BlankLine == [x \in 0 .. COLUMNS - 1 |-> Blank]

Init == paper = <<BlankLine>> /\ head = 0

Printed(g) == [paper EXCEPT ![Len(paper)] = [@ EXCEPT ![head] = g]]

Type(g) ==
    IF head + 1 < COLUMNS
    THEN paper' = Printed(g) /\ head' = head + 1
    ELSE paper' = Append(Printed(g), BlankLine) /\ head' = 0

Feed == paper' = Append(paper, BlankLine) /\ head' = 0

Return == head' = 0 /\ UNCHANGED paper

Next == (\E g \in Glyph : Type(g)) \/ Feed \/ Return

Spec == Init /\ [][Next]_<<paper, head>>

=============================================================================
