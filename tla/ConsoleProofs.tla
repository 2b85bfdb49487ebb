--------------------------- MODULE ConsoleProofs ---------------------------
(***************************************************************************)
(* TLAPS proofs about Console, for a screen of any size, any number of      *)
(* processors and any strings: the cursor stays on the screen, strings are  *)
(* never mixed, and the screen is the paper of a teletype.                  *)
(***************************************************************************)
EXTENDS Console, SequenceTheorems, TLAPS

Char == Glyph \cup Control
Holding == {"clear", "loop"}
Cells == [Cell \cup {Null} -> Glyph \cup {Blank, "bios"}]
Line == [0 .. COLUMNS - 1 -> Glyph \cup {Blank, "bios"}]
BlankLine == [x \in 0 .. COLUMNS - 1 |-> Blank]

\* Who is between spin_lock() and spin_unlock() has the lock, and is alone.
LockInv ==
    /\ \A c \in Cpu : pc[c] \in Holding => lock = 1
    /\ \A c, d \in Cpu : pc[c] \in Holding /\ pc[d] \in Holding => c = d

\* Nobody puts a character before the screen has been cleared, and until then
\* the cursor stands at its corner.
ClearedInv ==
    /\ \A c \in Cpu : pc[c] = "loop" => console_cleared
    /\ ~console_cleared => cur_x = 0 /\ cur_y = 0 /\ gone = <<>>

\* The rows below the cursor are empty.
BlankBelow(screen_, y) ==
    \A y2 \in y + 1 .. ROWS - 1, x \in 0 .. COLUMNS - 1 :
        screen_[slot_from_xy(x, y2)] = Blank

HistoryType ==
    /\ gone \in Seq(Line)
    /\ due \in Seq(Char) /\ said \in Seq(Char)

\* The inductive invariant.
IInv ==
    /\ TypeOK
    /\ HistoryType
    /\ LockInv
    /\ ClearedInv
    /\ console_cleared => BlankBelow(vga, cur_y)
    /\ StringsWhole

-----------------------------------------------------------------------------
(* Arithmetic of the text buffer. *)

\* Rows do not overlap: the first slot of a row lies beyond the last slot of
\* every row above it.
LEMMA RowsApart ==
    ASSUME NEW y \in Nat, NEW z \in Nat, y < z
    PROVE  y * COLUMNS + COLUMNS =< z * COLUMNS
  <1>1. COLUMNS \in Nat
    BY ConsoleAssumption
  <1> DEFINE d == z - y - 1
  <1>2. d \in Nat /\ z = y + 1 + d
    OBVIOUS
  <1>3. d * COLUMNS \in Nat
    BY <1>1, <1>2
  <1>4. z * COLUMNS = y * COLUMNS + COLUMNS + d * COLUMNS
    BY <1>1, <1>2
  <1>5. y * COLUMNS \in Nat
    BY <1>1
  <1> QED
    BY <1>1, <1>3, <1>4, <1>5

\* slot_from_xy() finds a cell for every position of the screen.
LEMMA SlotCell ==
    ASSUME NEW x \in 0 .. COLUMNS - 1, NEW y \in 0 .. ROWS - 1
    PROVE  /\ slot_from_xy(x, y) = x + y * COLUMNS
           /\ slot_from_xy(x, y) \in Cell
           /\ slot_from_xy(x, y) # Null
  <1>1. ROWS \in Nat /\ COLUMNS \in Nat
    BY ConsoleAssumption
  <1>2. slot_from_xy(x, y) = x + y * COLUMNS
    BY <1>1 DEF slot_from_xy
  <1>3. y * COLUMNS \in Nat /\ ROWS * COLUMNS \in Nat
    BY <1>1
  <1>4. y * COLUMNS + COLUMNS =< ROWS * COLUMNS
    BY <1>1, RowsApart
  <1>5. x + y * COLUMNS \in 0 .. ROWS * COLUMNS - 1
    BY <1>1, <1>3, <1>4
  <1> QED
    BY <1>2, <1>5 DEF Cell, Null

\* Two positions have one cell only if they are the same.
LEMMA SlotInjective ==
    ASSUME NEW x \in 0 .. COLUMNS - 1, NEW y \in 0 .. ROWS - 1,
           NEW x2 \in 0 .. COLUMNS - 1, NEW y2 \in 0 .. ROWS - 1,
           slot_from_xy(x, y) = slot_from_xy(x2, y2)
    PROVE  x = x2 /\ y = y2
  <1>1. ROWS \in Nat /\ COLUMNS \in Nat
    BY ConsoleAssumption
  <1>2. x + y * COLUMNS = x2 + y2 * COLUMNS
    BY SlotCell
  <1>3. y * COLUMNS \in Nat /\ y2 * COLUMNS \in Nat
    BY <1>1
  <1>4. ~(y < y2)
    <2>1. y < y2 => y * COLUMNS + COLUMNS =< y2 * COLUMNS
      BY <1>1, RowsApart
    <2> QED
      BY <1>1, <1>2, <1>3, <2>1
  <1>5. ~(y2 < y)
    <2>1. y2 < y => y2 * COLUMNS + COLUMNS =< y * COLUMNS
      BY <1>1, RowsApart
    <2> QED
      BY <1>1, <1>2, <1>3, <2>1
  <1>6. y = y2
    BY <1>1, <1>4, <1>5
  <1> QED
    BY <1>1, <1>2, <1>3, <1>6

\* A row's length further on is the cell below, or the end of the buffer.
LEMMA SlotBelow ==
    ASSUME NEW x \in 0 .. COLUMNS - 1, NEW y \in 0 .. ROWS - 1
    PROVE  /\ y + 1 =< ROWS - 1 => /\ slot_from_xy(x, y) + COLUMNS = slot_from_xy(x, y + 1)
                                   /\ slot_from_xy(x, y) + COLUMNS \in Cell
           /\ y = ROWS - 1 => slot_from_xy(x, y) + COLUMNS \notin Cell
  <1>1. ROWS \in Nat /\ COLUMNS \in Nat
    BY ConsoleAssumption
  <1>2. slot_from_xy(x, y) = x + y * COLUMNS /\ y * COLUMNS \in Nat /\ ROWS * COLUMNS \in Nat
    BY <1>1, SlotCell
  <1>3. (y + 1) * COLUMNS = y * COLUMNS + COLUMNS
    BY <1>1
  <1>4. ASSUME y + 1 =< ROWS - 1
        PROVE  /\ slot_from_xy(x, y) + COLUMNS = slot_from_xy(x, y + 1)
               /\ slot_from_xy(x, y) + COLUMNS \in Cell
    <2>1. y + 1 \in 0 .. ROWS - 1
      BY <1>1, <1>4
    <2>2. slot_from_xy(x, y + 1) = x + (y + 1) * COLUMNS /\ slot_from_xy(x, y + 1) \in Cell
      BY <2>1, SlotCell
    <2> QED
      BY <1>1, <1>2, <1>3, <2>2
  <1>5. ASSUME y = ROWS - 1
        PROVE  slot_from_xy(x, y) + COLUMNS \notin Cell
    <2>1. ROWS * COLUMNS = y * COLUMNS + COLUMNS
      BY <1>1, <1>3, <1>5
    <2> QED
      BY <1>1, <1>2, <2>1 DEF Cell
  <1> QED
    BY <1>4, <1>5

-----------------------------------------------------------------------------
(* Rows. *)

\* The rows of a screen down to row y.
Rows(screen_, y) == [k \in 1 .. y + 1 |-> Row(screen_, k - 1)]

\* A row of the screen is a line.
LEMMA RowType ==
    ASSUME NEW w \in Cells, NEW y \in 0 .. ROWS - 1
    PROVE  /\ Row(w, y) \in Line
           /\ \A x \in 0 .. COLUMNS - 1 : Row(w, y)[x] = w[slot_from_xy(x, y)]
           /\ DOMAIN Row(w, y) = 0 .. COLUMNS - 1
  <1>1. \A x \in 0 .. COLUMNS - 1 : w[slot_from_xy(x, y)] \in Glyph \cup {Blank, "bios"}
    BY SlotCell DEF Cells
  <1> QED
    BY <1>1 DEF Row, Line

\* Two lines are equal if their glyphs are.
LEMMA LineEqual ==
    ASSUME NEW k \in Line, NEW l \in Line, \A x \in 0 .. COLUMNS - 1 : k[x] = l[x]
    PROVE  k = l
  <1>1. k = [x \in 0 .. COLUMNS - 1 |-> k[x]] /\ l = [x \in 0 .. COLUMNS - 1 |-> l[x]]
    BY DEF Line
  <1> QED
    BY <1>1

\* The rows of a screen are a sequence of lines.
LEMMA RowsType ==
    ASSUME NEW w \in Cells, NEW y \in 0 .. ROWS - 1
    PROVE  /\ Rows(w, y) \in Seq(Line)
           /\ Len(Rows(w, y)) = y + 1
           /\ \A k \in 1 .. y + 1 : Rows(w, y)[k] = Row(w, k - 1)
  <1>1. ROWS \in Nat
    BY ConsoleAssumption
  <1>2. \A k \in 1 .. y + 1 : Row(w, k - 1) \in Line
    <2> TAKE k \in 1 .. y + 1
    <2>1. k - 1 \in 0 .. ROWS - 1
      BY <1>1
    <2> QED
      BY <2>1, RowType
  <1>3. y + 1 \in Nat
    BY <1>1
  <1>4. [k \in 1 .. y + 1 |-> Row(w, k - 1)] \in [1 .. y + 1 -> Line]
    BY <1>2
  <1>5. Rows(w, y) \in [1 .. y + 1 -> Line]
    BY <1>4 DEF Rows
  <1>6. Rows(w, y) \in Seq(Line)
    BY <1>3, <1>5, SeqDef
  <1>7. Len(Rows(w, y)) = y + 1
    BY <1>3, <1>5, <1>6, LenProperties
  <1> QED
    BY <1>6, <1>7 DEF Rows

\* The blank line is a line.
LEMMA BlankLineType == BlankLine \in Line /\ \A x \in 0 .. COLUMNS - 1 : BlankLine[x] = Blank
  BY DEF BlankLine, Line

\* Scrolling moves every row up by one and clears the last.
LEMMA ScrolledRows ==
    ASSUME NEW w \in Cells
    PROVE  /\ Scrolled(w) \in Cells
           /\ \A y \in 0 .. ROWS - 1 :
                 Row(Scrolled(w), y) = IF y = ROWS - 1 THEN BlankLine ELSE Row(w, y + 1)
  <1>1. ROWS \in Nat /\ COLUMNS \in Nat
    BY ConsoleAssumption
  <1>2. Scrolled(w) \in Cells
    <2>1. DOMAIN w = Cell \cup {Null}
      BY DEF Cells
    <2>2. \A s \in Cell \cup {Null} :
             (IF s = Null THEN w[s] ELSE IF s + COLUMNS \in Cell THEN w[s + COLUMNS] ELSE Blank)
                \in Glyph \cup {Blank, "bios"}
      BY DEF Cells
    <2> QED
      BY <2>1, <2>2 DEF Cells, Scrolled
  <1>3. ASSUME NEW y \in 0 .. ROWS - 1
        PROVE  Row(Scrolled(w), y) = IF y = ROWS - 1 THEN BlankLine ELSE Row(w, y + 1)
    <2>1. Row(Scrolled(w), y) \in Line
      BY <1>2, RowType
    <2>2. ASSUME NEW x \in 0 .. COLUMNS - 1
          PROVE  Row(Scrolled(w), y)[x] =
                    IF slot_from_xy(x, y) + COLUMNS \in Cell
                    THEN w[slot_from_xy(x, y) + COLUMNS] ELSE Blank
      <3>1. slot_from_xy(x, y) \in DOMAIN w /\ slot_from_xy(x, y) # Null
        BY SlotCell DEF Cells
      <3>2. Row(Scrolled(w), y)[x] = Scrolled(w)[slot_from_xy(x, y)]
        BY <1>2, RowType
      <3> QED
        BY <3>1, <3>2 DEF Scrolled
    <2>3. CASE y = ROWS - 1
      <3>1. \A x \in 0 .. COLUMNS - 1 : Row(Scrolled(w), y)[x] = BlankLine[x]
        BY <2>2, <2>3, SlotBelow, BlankLineType
      <3> QED
        BY <2>1, <2>3, <3>1, BlankLineType, LineEqual
    <2>4. CASE y # ROWS - 1
      <3>1. y + 1 =< ROWS - 1 /\ y + 1 \in 0 .. ROWS - 1
        BY <1>1, <2>4
      <3>2. Row(w, y + 1) \in Line /\ \A x \in 0 .. COLUMNS - 1 :
               Row(w, y + 1)[x] = w[slot_from_xy(x, y + 1)]
        BY <3>1, RowType
      <3>3. \A x \in 0 .. COLUMNS - 1 : Row(Scrolled(w), y)[x] = Row(w, y + 1)[x]
        BY <2>2, <3>1, <3>2, SlotBelow
      <3> QED
        BY <2>1, <2>4, <3>2, <3>3, LineEqual
    <2> QED
      BY <2>3, <2>4
  <1> QED
    BY <1>2, <1>3

\* The rows below y are blank lines.
LEMMA BlankBelowRows ==
    ASSUME NEW w \in Cells, NEW y \in 0 .. ROWS - 1
    PROVE  BlankBelow(w, y) <=> \A z \in y + 1 .. ROWS - 1 : Row(w, z) = BlankLine
  <1>1. ROWS \in Nat /\ y \in Nat
    BY ConsoleAssumption
  <1>2. ASSUME BlankBelow(w, y), NEW z \in y + 1 .. ROWS - 1
        PROVE  Row(w, z) = BlankLine
    <2>1. z \in 0 .. ROWS - 1
      BY <1>1
    <2>2. \A x \in 0 .. COLUMNS - 1 : Row(w, z)[x] = BlankLine[x]
      BY <1>2, <2>1, RowType, BlankLineType DEF BlankBelow
    <2> QED
      BY <2>1, <2>2, RowType, BlankLineType, LineEqual
  <1>3. ASSUME \A z \in y + 1 .. ROWS - 1 : Row(w, z) = BlankLine
        PROVE  BlankBelow(w, y)
    <2> SUFFICES ASSUME NEW z \in y + 1 .. ROWS - 1, NEW x \in 0 .. COLUMNS - 1
                 PROVE  w[slot_from_xy(x, z)] = Blank
      BY DEF BlankBelow
    <2>1. z \in 0 .. ROWS - 1
      BY <1>1
    <2> QED
      BY <1>3, <2>1, RowType, BlankLineType
  <1> QED
    BY <1>2, <1>3

-----------------------------------------------------------------------------
(* The paper. *)

Paper(screen_, y) == gone \o Rows(screen_, y)

\* The paper, line by line.
LEMMA PaperType ==
    ASSUME gone \in Seq(Line), NEW w \in Cells, NEW y \in 0 .. ROWS - 1
    PROVE  /\ Paper(w, y) \in Seq(Line)
           /\ Len(Paper(w, y)) = Len(gone) + y + 1
           /\ \A k \in 1 .. Len(gone) + y + 1 :
                 Paper(w, y)[k] = IF k =< Len(gone) THEN gone[k] ELSE Row(w, k - Len(gone) - 1)
  <1>1. Len(gone) \in Nat /\ y \in Nat
    BY ConsoleAssumption, LenProperties
  <1>2. /\ Rows(w, y) \in Seq(Line) /\ Len(Rows(w, y)) = y + 1
        /\ \A k \in 1 .. y + 1 : Rows(w, y)[k] = Row(w, k - 1)
    BY RowsType
  <1>3. /\ Paper(w, y) \in Seq(Line)
        /\ Len(Paper(w, y)) = Len(gone) + (y + 1)
        /\ \A k \in 1 .. Len(gone) + (y + 1) :
              Paper(w, y)[k] = IF k =< Len(gone) THEN gone[k] ELSE Rows(w, y)[k - Len(gone)]
    BY <1>1, <1>2 DEF Paper
  <1>4. ASSUME NEW k \in 1 .. Len(gone) + y + 1, ~(k =< Len(gone))
        PROVE  k - Len(gone) \in 1 .. y + 1
    BY <1>1, <1>4
  <1> QED
    BY <1>1, <1>2, <1>3, <1>4

\* A new line adds a blank line to the paper, and keeps the rest.
LEMMA NewLine ==
    ASSUME gone \in Seq(Line), NEW w \in Cells, cur_y \in 0 .. ROWS - 1,
           BlankBelow(w, cur_y), new_line(w)
    PROVE  /\ vga' \in Cells /\ gone' \in Seq(Line)
           /\ cur_x' = 0 /\ cur_y' \in 0 .. ROWS - 1
           /\ BlankBelow(vga', cur_y')
           /\ gone' \o Rows(vga', cur_y') = Append(Paper(w, cur_y), BlankLine)
  <1>1. ROWS \in Nat \ {0} /\ COLUMNS \in Nat \ {0} /\ cur_y \in Nat
    BY ConsoleAssumption
  <1> DEFINE g == Len(gone)
             A == Append(Paper(w, cur_y), BlankLine)
  <1>2. g \in Nat
    BY LenProperties
  <1>3. /\ Paper(w, cur_y) \in Seq(Line) /\ Len(Paper(w, cur_y)) = g + cur_y + 1
        /\ \A k \in 1 .. g + cur_y + 1 :
              Paper(w, cur_y)[k] = IF k =< g THEN gone[k] ELSE Row(w, k - g - 1)
    BY PaperType
  <1>4. /\ A \in Seq(Line) /\ Len(A) = g + cur_y + 1 + 1
        /\ \A k \in 1 .. g + cur_y + 1 : A[k] = Paper(w, cur_y)[k]
        /\ A[g + cur_y + 1 + 1] = BlankLine
    BY <1>1, <1>2, <1>3, BlankLineType
  <1> HIDE DEF A, g
  <1>5. CASE cur_y + 1 >= ROWS
    <2>1. /\ cur_x' = 0 /\ cur_y' = ROWS - 1 /\ vga' = Scrolled(w)
          /\ gone' = Append(gone, Row(w, 0)) /\ cur_y = ROWS - 1
      BY <1>1, <1>5 DEF new_line
    <2>2. cur_y' \in 0 .. ROWS - 1 /\ 0 \in 0 .. ROWS - 1
      BY <1>1, <2>1
    <2>3. Row(w, 0) \in Line
      BY <2>2, RowType
    <2>4. /\ gone' \in Seq(Line) /\ Len(gone') = g + 1
          /\ \A k \in 1 .. g : gone'[k] = gone[k]
          /\ gone'[g + 1] = Row(w, 0)
      BY <2>1, <2>3, AppendProperties DEF g
    <2>5. vga' \in Cells
      BY <2>1, ScrolledRows
    <2>6. \A y \in 0 .. ROWS - 1 :
             Row(vga', y) = IF y = ROWS - 1 THEN BlankLine ELSE Row(w, y + 1)
      BY <2>1, ScrolledRows
    <2>7. BlankBelow(vga', cur_y')
      BY <1>1, <2>1 DEF BlankBelow
    <2> DEFINE B == gone' \o Rows(vga', cur_y')
    <2>8. /\ B \in Seq(Line) /\ Len(B) = g + 1 + ROWS
          /\ \A k \in 1 .. g + 1 + ROWS :
                B[k] = IF k =< g + 1 THEN gone'[k] ELSE Rows(vga', cur_y')[k - (g + 1)]
      <3>1. Rows(vga', cur_y') \in Seq(Line) /\ Len(Rows(vga', cur_y')) = ROWS
        BY <1>1, <2>1, <2>2, <2>5, RowsType
      <3>2. B \in Seq(Line) /\ Len(B) = Len(gone') + Len(Rows(vga', cur_y'))
        BY <2>4, <3>1
      <3>3. \A k \in 1 .. Len(gone') + Len(Rows(vga', cur_y')) :
               B[k] = IF k =< Len(gone') THEN gone'[k] ELSE Rows(vga', cur_y')[k - Len(gone')]
        BY <2>4, <3>1, ConcatProperties, Zenon
      <3> HIDE DEF B
      <3> QED
        BY <2>4, <3>1, <3>2, <3>3
    <2>9. \A k \in 1 .. ROWS : Rows(vga', cur_y')[k] = Row(vga', k - 1)
      BY <1>1, <2>1, <2>2, <2>5, RowsType
    <2> HIDE DEF B
    <2>10. ASSUME NEW k \in 1 .. g + 1 + ROWS
           PROVE  A[k] = B[k]
      <3>1. CASE k =< g
        <4>1. k \in 1 .. g /\ k \in 1 .. g + cur_y + 1 /\ k =< g + 1
          BY <1>1, <1>2, <3>1
        <4>2. A[k] = gone[k]
          BY <1>3, <1>4, <3>1, <4>1
        <4>3. B[k] = gone[k]
          BY <2>4, <2>8, <4>1
        <4> QED
          BY <4>2, <4>3
      <3>2. CASE k = g + 1
        <4>1. A[k] = Row(w, k - g - 1) /\ k - g - 1 = 0
          <5>1. k \in 1 .. g + cur_y + 1 /\ ~(k =< g) /\ k - g - 1 = 0
            BY <1>1, <1>2, <3>2
          <5> QED
            BY <1>3, <1>4, <5>1
        <4>2. B[k] = gone'[g + 1]
          BY <1>1, <1>2, <2>8, <3>2
        <4> QED
          BY <2>4, <4>1, <4>2
      <3>3. CASE k > g + 1 /\ k # g + 1 + ROWS
        <4> DEFINE r == k - (g + 1)
        <4>1. r \in 1 .. ROWS /\ r - 1 \in 0 .. ROWS - 1 /\ r - 1 # ROWS - 1 /\ r = k - g - 1
          BY <1>1, <1>2, <3>3
        <4>2. B[k] = Row(vga', r - 1)
          <5>1. ~(k =< g + 1)
            BY <1>2, <3>3
          <5> QED
            BY <2>8, <2>9, <4>1, <5>1
        <4>3. B[k] = Row(w, r - 1 + 1) /\ r - 1 + 1 = r
          BY <2>6, <4>1, <4>2
        <4>4. A[k] = Row(w, r)
          <5>1. k \in 1 .. g + cur_y + 1 /\ ~(k =< g)
            BY <1>1, <1>2, <2>1, <3>3
          <5>2. A[k] = Row(w, k - g - 1)
            BY <1>3, <1>4, <5>1
          <5> QED
            BY <4>1, <5>2
        <4> QED
          BY <4>3, <4>4
      <3>4. CASE k = g + 1 + ROWS
        <4>1. A[k] = BlankLine
          BY <1>1, <1>2, <1>4, <2>1, <3>4
        <4>2. k - (g + 1) = ROWS /\ ROWS \in 1 .. ROWS /\ ~(k =< g + 1)
          BY <1>1, <1>2, <3>4
        <4>3. B[k] = Row(vga', ROWS - 1)
          BY <2>8, <2>9, <4>2
        <4> QED
          BY <2>6, <4>1, <4>3, <1>1
      <3> QED
        BY <1>1, <1>2, <3>1, <3>2, <3>3, <3>4
    <2>11. A = B
      <3>1. Len(A) = Len(B)
        BY <1>1, <1>2, <1>4, <2>1, <2>8
      <3> QED
        BY <1>4, <2>8, <2>10, <3>1, SeqEqual
    <2> QED
      BY <2>1, <2>2, <2>4, <2>5, <2>7, <2>11 DEF A, B
  <1>6. CASE ~(cur_y + 1 >= ROWS)
    <2>1. cur_x' = 0 /\ cur_y' = cur_y + 1 /\ vga' = w /\ gone' = gone
      BY <1>6 DEF new_line
    <2>2. cur_y' \in 0 .. ROWS - 1 /\ cur_y + 1 \in cur_y + 1 .. ROWS - 1
      BY <1>1, <1>6, <2>1
    <2>3. BlankBelow(vga', cur_y')
      BY <1>1, <2>1, <2>2 DEF BlankBelow
    <2>4. Row(w, cur_y + 1) = BlankLine
      BY <2>2, BlankBelowRows
    <2> DEFINE B == Paper(w, cur_y + 1)
    <2>5. /\ B \in Seq(Line) /\ Len(B) = g + (cur_y + 1) + 1
          /\ \A k \in 1 .. g + (cur_y + 1) + 1 :
                B[k] = IF k =< g THEN gone[k] ELSE Row(w, k - g - 1)
      BY <2>1, <2>2, PaperType DEF g
    <2> HIDE DEF B
    <2>6. ASSUME NEW k \in 1 .. Len(A)
          PROVE  A[k] = B[k]
      <3>1. CASE k =< g + cur_y + 1
        <4>1. k \in 1 .. g + cur_y + 1 /\ k \in 1 .. g + (cur_y + 1) + 1
          BY <1>1, <1>2, <1>4, <3>1
        <4> QED
          BY <1>3, <1>4, <2>5, <4>1
      <3>2. CASE k = g + cur_y + 1 + 1
        <4>1. k - g - 1 = cur_y + 1 /\ ~(k =< g) /\ k \in 1 .. g + (cur_y + 1) + 1
          BY <1>1, <1>2, <3>2
        <4> QED
          BY <1>4, <2>4, <2>5, <3>2, <4>1
      <3> QED
        BY <1>1, <1>2, <1>4, <3>1, <3>2
    <2>7. A = B
      <3>1. Len(A) = Len(B)
        BY <1>1, <1>2, <1>4, <2>5
      <3> QED
        BY <1>4, <2>5, <2>6, <3>1, SeqEqual
    <2>8. gone' \o Rows(vga', cur_y') = B
      BY <2>1 DEF B, Paper
    <2> QED
      BY <2>1, <2>2, <2>3, <2>7, <2>8 DEF A
  <1> QED
    BY <1>1, <1>5, <1>6

\* A glyph changes one place of one row, and one place of the paper.
LEMMA Written ==
    ASSUME gone \in Seq(Line), vga \in Cells,
           cur_x \in 0 .. COLUMNS - 1, cur_y \in 0 .. ROWS - 1,
           NEW ch \in Glyph, NEW w, w = [vga EXCEPT ![slot_from_xy(cur_x, cur_y)] = ch],
           BlankBelow(vga, cur_y)
    PROVE  /\ w \in Cells
           /\ BlankBelow(w, cur_y)
           /\ Paper(w, cur_y) = [Paper(vga, cur_y) EXCEPT
                 ![Len(Paper(vga, cur_y))] = [@ EXCEPT ![cur_x] = ch]]
  <1>1. ROWS \in Nat \ {0} /\ COLUMNS \in Nat \ {0} /\ cur_y \in Nat
    BY ConsoleAssumption
  <1>2. w \in Cells
    BY SlotCell DEF Cells
  <1>3. ASSUME NEW x \in 0 .. COLUMNS - 1, NEW y \in 0 .. ROWS - 1
        PROVE  w[slot_from_xy(x, y)] = IF x = cur_x /\ y = cur_y THEN ch ELSE vga[slot_from_xy(x, y)]
    <2>1. slot_from_xy(x, y) \in DOMAIN vga
      BY SlotCell DEF Cells
    <2>2. slot_from_xy(x, y) = slot_from_xy(cur_x, cur_y) <=> x = cur_x /\ y = cur_y
      BY SlotInjective
    <2> QED
      BY <2>1, <2>2
  <1>4. BlankBelow(w, cur_y)
    <2> SUFFICES ASSUME NEW y \in cur_y + 1 .. ROWS - 1, NEW x \in 0 .. COLUMNS - 1
                 PROVE  w[slot_from_xy(x, y)] = Blank
      BY DEF BlankBelow
    <2>1. y \in 0 .. ROWS - 1 /\ y # cur_y
      BY <1>1
    <2> QED
      BY <1>3, <2>1 DEF BlankBelow
  <1>5. ASSUME NEW y \in 0 .. ROWS - 1, y # cur_y
        PROVE  Row(w, y) = Row(vga, y)
    <2>1. Row(w, y) \in Line /\ Row(vga, y) \in Line
      BY <1>2, RowType
    <2>2. \A x \in 0 .. COLUMNS - 1 : Row(w, y)[x] = Row(vga, y)[x]
      <3> TAKE x \in 0 .. COLUMNS - 1
      <3>1. Row(w, y)[x] = w[slot_from_xy(x, y)]
        BY <1>2, RowType
      <3>2. Row(vga, y)[x] = vga[slot_from_xy(x, y)]
        BY RowType
      <3>3. w[slot_from_xy(x, y)] = vga[slot_from_xy(x, y)]
        BY <1>3, <1>5
      <3> QED
        BY <3>1, <3>2, <3>3, Zenon
    <2> QED
      BY <2>1, <2>2, LineEqual
  <1>6. Row(w, cur_y) = [Row(vga, cur_y) EXCEPT ![cur_x] = ch]
    <2> DEFINE l == [Row(vga, cur_y) EXCEPT ![cur_x] = ch]
    <2>1. Row(w, cur_y) \in Line /\ Row(vga, cur_y) \in Line
      BY <1>2, RowType
    <2>2. l \in Line /\ \A x \in 0 .. COLUMNS - 1 : l[x] = IF x = cur_x THEN ch ELSE Row(vga, cur_y)[x]
      BY <2>1 DEF Line
    <2>3. \A x \in 0 .. COLUMNS - 1 : Row(w, cur_y)[x] = l[x]
      <3> TAKE x \in 0 .. COLUMNS - 1
      <3>1. Row(w, cur_y)[x] = w[slot_from_xy(x, cur_y)]
        BY <1>2, RowType
      <3>2. Row(vga, cur_y)[x] = vga[slot_from_xy(x, cur_y)]
        BY RowType
      <3>3. w[slot_from_xy(x, cur_y)] = IF x = cur_x THEN ch ELSE vga[slot_from_xy(x, cur_y)]
        BY <1>3
      <3> QED
        BY <2>2, <3>1, <3>2, <3>3, Zenon
    <2> HIDE DEF l
    <2>4. Row(w, cur_y) = l
      BY <2>1, <2>2, <2>3, LineEqual
    <2> QED
      BY <2>4 DEF l
  <1> DEFINE g == Len(gone)
             P == Paper(vga, cur_y)
             Q == Paper(w, cur_y)
             n == g + cur_y + 1
  <1>7. g \in Nat
    BY LenProperties
  <1>8. /\ P \in Seq(Line) /\ Len(P) = n
        /\ \A k \in 1 .. n : P[k] = IF k =< g THEN gone[k] ELSE Row(vga, k - g - 1)
    BY PaperType
  <1>9. /\ Q \in Seq(Line) /\ Len(Q) = n
        /\ \A k \in 1 .. n : Q[k] = IF k =< g THEN gone[k] ELSE Row(w, k - g - 1)
    BY <1>2, PaperType
  <1> HIDE DEF P, Q, g
  <1>10. n \in 1 .. n /\ n - g - 1 = cur_y /\ ~(n =< g)
    BY <1>1, <1>7
  <1>11. P[n] = Row(vga, cur_y) /\ Q[n] = Row(w, cur_y)
    BY <1>8, <1>9, <1>10
  <1>12. ASSUME NEW k \in 1 .. n, k # n
         PROVE  Q[k] = P[k]
    <2>1. CASE k =< g
      BY <1>8, <1>9, <2>1
    <2>2. CASE ~(k =< g)
      <3>1. k - g - 1 \in 0 .. ROWS - 1 /\ k - g - 1 # cur_y
        BY <1>1, <1>7, <1>12, <2>2
      <3> QED
        BY <1>5, <1>8, <1>9, <2>2, <3>1
    <2> QED
      BY <2>1, <2>2
  <1> DEFINE E == [P EXCEPT ![n] = [P[n] EXCEPT ![cur_x] = ch]]
  <1>13. [P[n] EXCEPT ![cur_x] = ch] \in Line
    BY <1>2, <1>6, <1>11, RowType
  <1>14. /\ E \in Seq(Line) /\ Len(E) = n
         /\ \A k \in 1 .. n : E[k] = IF k = n THEN [P[n] EXCEPT ![cur_x] = ch] ELSE P[k]
    BY <1>8, <1>10, <1>13, ExceptSeq
  <1>15. \A k \in 1 .. n : Q[k] = E[k]
    BY <1>6, <1>11, <1>12, <1>14
  <1> HIDE DEF E
  <1>16. Q = E
    BY <1>9, <1>14, <1>15, SeqEqual
  <1>17. Q = [P EXCEPT ![Len(P)] = [@ EXCEPT ![cur_x] = ch]]
    BY <1>8, <1>16 DEF E
  <1> QED
    BY <1>2, <1>4, <1>17 DEF P, Q

-----------------------------------------------------------------------------
(* One character. *)

\* The screen, its cursor and the rows that have left it are well formed, and
\* there is nothing below the cursor.
ScreenInv ==
    /\ vga \in Cells
    /\ cur_x \in 0 .. COLUMNS - 1 /\ cur_y \in 0 .. ROWS - 1
    /\ gone \in Seq(Line)
    /\ BlankBelow(vga, cur_y)

\* Once the screen is cleared, what is on the paper is read off the screen.
LEMMA PaperOfScreen ==
    /\ console_cleared => OnPaper = Paper(vga, cur_y)
    /\ console_cleared' => OnPaper' = gone' \o Rows(vga', cur_y')
  BY DEF OnPaper, Paper, Rows

\* console_putc() keeps the screen well formed, and does to the paper what a
\* teletype does.
LEMMA PutcOnPaper ==
    ASSUME ScreenInv, console_cleared, console_cleared', NEW ch \in Char, console_putc(ch)
    PROVE  ScreenInv' /\ Roll!Next
  <1>1. /\ COLUMNS \in Nat \ {0} /\ 0 \in 0 .. COLUMNS - 1
        /\ cur_x \in 0 .. COLUMNS - 1 /\ cur_y \in 0 .. ROWS - 1
        /\ vga \in Cells /\ gone \in Seq(Line) /\ BlankBelow(vga, cur_y)
    BY ConsoleAssumption DEF ScreenInv
  <1>2. OnPaper = Paper(vga, cur_y) /\ OnPaper' = gone' \o Rows(vga', cur_y')
    BY PaperOfScreen
  <1>3. BlankLine = Roll!BlankLine
    BY DEF BlankLine, Roll!BlankLine, Blank, Roll!Blank
  <1>4. CASE ch = "\n"
    <2>1. new_line(vga)
      BY <1>4 DEF console_putc
    <2>2. ScreenInv' /\ cur_x' = 0 /\ OnPaper' = Append(OnPaper, BlankLine)
      BY <1>1, <1>2, <2>1, NewLine DEF ScreenInv
    <2>3. Roll!Feed
      BY <1>3, <2>2 DEF Roll!Feed
    <2> QED
      BY <2>2, <2>3 DEF Roll!Next
  <1>5. CASE ch = "\r"
    <2>1. cur_x' = 0 /\ vga' = vga /\ cur_y' = cur_y /\ gone' = gone
      BY <1>5 DEF console_putc
    <2>2. ScreenInv'
      BY <1>1, <2>1 DEF ScreenInv, BlankBelow
    <2>3. OnPaper' = OnPaper
      BY <1>2, <2>1 DEF Paper
    <2>4. Roll!Return
      BY <2>1, <2>3 DEF Roll!Return
    <2> QED
      BY <2>2, <2>4 DEF Roll!Next
  <1>6. CASE ch # "\n" /\ ch # "\r"
    <2> DEFINE w == [vga EXCEPT ![slot_from_xy(cur_x, cur_y)] = ch]
    <2>1. ch \in Glyph
      BY <1>6 DEF Char, Control
    <2>2. /\ w \in Cells /\ BlankBelow(w, cur_y)
          /\ Paper(w, cur_y) = [Paper(vga, cur_y) EXCEPT
                ![Len(Paper(vga, cur_y))] = [@ EXCEPT ![cur_x] = ch]]
      BY <1>1, <2>1, Written
    <2>3. IF cur_x + 1 >= COLUMNS
          THEN new_line(w)
          ELSE cur_x' = cur_x + 1 /\ vga' = w /\ cur_y' = cur_y /\ gone' = gone
      BY <1>6 DEF console_putc
    <2> HIDE DEF w
    <2>4. Paper(w, cur_y) = Roll!Printed(ch)
      BY <1>2, <2>2 DEF Roll!Printed
    <2>5. CASE cur_x + 1 >= COLUMNS
      <3>1. ScreenInv' /\ cur_x' = 0 /\ OnPaper' = Append(Paper(w, cur_y), BlankLine)
        BY <1>1, <1>2, <2>2, <2>3, <2>5, NewLine DEF ScreenInv
      <3>2. ~(cur_x + 1 < COLUMNS)
        BY <1>1, <2>5
      <3>3. Roll!Type(ch)
        BY <1>3, <2>4, <3>1, <3>2 DEF Roll!Type
      <3> QED
        BY <2>1, <3>1, <3>3 DEF Roll!Next
    <2>6. CASE ~(cur_x + 1 >= COLUMNS)
      <3>1. cur_x' = cur_x + 1 /\ vga' = w /\ cur_y' = cur_y /\ gone' = gone
        BY <2>3, <2>6
      <3>2. cur_x' \in 0 .. COLUMNS - 1 /\ cur_x + 1 < COLUMNS
        BY <1>1, <2>6, <3>1
      <3>3. ScreenInv'
        BY <1>1, <2>2, <3>1, <3>2 DEF ScreenInv, BlankBelow
      <3>4. OnPaper' = Paper(w, cur_y)
        BY <1>2, <3>1 DEF Paper
      <3>5. Roll!Type(ch)
        BY <2>4, <3>1, <3>2, <3>4 DEF Roll!Type
      <3> QED
        BY <2>1, <3>3, <3>5 DEF Roll!Next
    <2> QED
      BY <2>5, <2>6
  <1> QED
    BY <1>4, <1>5, <1>6

-----------------------------------------------------------------------------
(* The invariant. *)

\* A string handed to console_puts() is a sequence of characters.
LEMMA TextType == \A t \in Text : t \in Seq(Char)
  <1> TAKE t \in Text
  <1>1. t \in Seq({t[k] : k \in 1 .. Len(t)})
    BY ConsoleAssumption
  <1>2. {t[k] : k \in 1 .. Len(t)} \subseteq Char
    <2> SUFFICES ASSUME NEW k \in 1 .. Len(t) PROVE t[k] \in Char
      OBVIOUS
    <2> DEFINE U == UNION {{u[j] : j \in 1 .. Len(u)} : u \in Text}
    <2>1. t[k] \in U
      OBVIOUS
    <2>2. Glyph = U \ Control
      BY DEF Glyph
    <2> HIDE DEF U
    <2> QED
      BY <2>1, <2>2 DEF Char
  <1> QED
    BY <1>1, <1>2, SeqMonotonic

\* Moving the first character of a string to what has been said changes
\* neither of the two put together.
LEMMA PutMoves ==
    ASSUME NEW S, NEW s \in Seq(S), NEW b \in Seq(S), b # <<>>
    PROVE  /\ Head(b) \in S /\ Tail(b) \in Seq(S) /\ Append(s, Head(b)) \in Seq(S)
           /\ Append(s, Head(b)) \o Tail(b) = s \o b
  <1>1. Head(b) \in S /\ Tail(b) \in Seq(S)
    BY HeadTailProperties
  <1>2. Append(s, Head(b)) \in Seq(S)
    BY <1>1
  <1>3. <<Head(b)>> \o Tail(b) = b
    BY <1>1
  <1>4. Append(s, Head(b)) = s \o <<Head(b)>>
    BY <1>1
  <1>5. <<Head(b)>> \in Seq(S)
    BY <1>1
  <1>6. (s \o <<Head(b)>>) \o Tail(b) = s \o (<<Head(b)>> \o Tail(b))
    BY <1>1, <1>5, ConcatAssociative
  <1> QED
    BY <1>1, <1>2, <1>3, <1>4, <1>6

\* The parts of IInv that speak of processors and of what they say.
TalkInv ==
    /\ lock \in {0, 1} /\ console_cleared \in BOOLEAN
    /\ pc \in [Cpu -> {"idle", "spin", "clear", "loop"}]
    /\ buf \in [Cpu -> Seq(Char)]
    /\ calls \in [Cpu -> 0 .. MaxCalls]
    /\ due \in Seq(Char) /\ said \in Seq(Char)
    /\ LockInv
    /\ \A c \in Cpu : pc[c] = "loop" => console_cleared
    /\ StringsWhole

\* The parts of IInv that speak of the screen.
ViewInv ==
    /\ vga \in Cells
    /\ cur_x \in 0 .. COLUMNS - 1 /\ cur_y \in 0 .. ROWS - 1
    /\ gone \in Seq(Line)
    /\ console_cleared => BlankBelow(vga, cur_y)
    /\ ~console_cleared => cur_x = 0 /\ cur_y = 0 /\ gone = <<>>

\* IInv is its two halves.
LEMMA Halves == IInv <=> TalkInv /\ ViewInv
  BY DEF IInv, TalkInv, ViewInv, TypeOK, HistoryType, ClearedInv, Cells, Char, Control

\* The initial state satisfies the invariant.
LEMMA InitInv == Init => IInv
  <1> SUFFICES ASSUME Init PROVE TalkInv /\ ViewInv
    BY Halves
  <1>1. ROWS \in Nat \ {0} /\ COLUMNS \in Nat \ {0} /\ MaxCalls \in Nat
    BY ConsoleAssumption
  <1>2. TalkInv
    <2>1. lock \in {0, 1} /\ calls \in [Cpu -> 0 .. MaxCalls]
      BY <1>1 DEF Init
    <2>4. console_cleared \in BOOLEAN /\ pc \in [Cpu -> {"idle", "spin", "clear", "loop"}]
      BY DEF Init
    <2>2. buf \in [Cpu -> Seq(Char)] /\ due \in Seq(Char) /\ said \in Seq(Char)
      BY DEF Init
    <2>3. (\A c \in Cpu : pc[c] = "idle") /\ said = due
      BY DEF Init
    <2> QED
      BY <2>1, <2>2, <2>3, <2>4 DEF TalkInv, LockInv, StringsWhole, Holding
  <1>3. ViewInv
    BY <1>1 DEF Init, ViewInv, Cells
  <1> QED
    BY <1>2, <1>3

\* No step disturbs the half about the processors: only spin_lock() lets one
\* in, and it waits for the lock.
LEMMA TalkStep == TalkInv /\ [Next]_vars => TalkInv'
  <1> SUFFICES ASSUME TalkInv, [Next]_vars PROVE TalkInv'
    OBVIOUS
  <1> USE DEF TalkInv, LockInv, StringsWhole, Holding
  <1>1. ASSUME NEW c \in Cpu, Call(c) PROVE TalkInv'
    <2>1. PICK t \in Text : buf' = [buf EXCEPT ![c] = t]
      BY <1>1 DEF Call
    <2>2. t \in Seq(Char)
      BY TextType
    <2>3. buf' \in [Cpu -> Seq(Char)]
      BY <2>1, <2>2
    <2>4. calls' \in [Cpu -> 0 .. MaxCalls]
      <3>1. calls[c] \in 0 .. MaxCalls /\ calls[c] < MaxCalls /\ MaxCalls \in Nat
        BY <1>1, ConsoleAssumption DEF Call
      <3>2. calls[c] + 1 \in 0 .. MaxCalls
        BY <3>1
      <3> QED
        BY <1>1, <3>2 DEF Call
    <2>5. /\ pc[c] = "idle" /\ pc' = [pc EXCEPT ![c] = "spin"]
          /\ UNCHANGED <<lock, console_cleared, due, said>>
      BY <1>1 DEF Call, Step
    <2> QED
      BY <2>1, <2>3, <2>4, <2>5
  <1>2. ASSUME NEW c \in Cpu, SpinLock(c) PROVE TalkInv'
    <2>1. /\ pc[c] = "spin" /\ pc' = [pc EXCEPT ![c] = "clear"] /\ lock = 0 /\ lock' = 1
          /\ due' = due \o buf[c] /\ UNCHANGED <<console_cleared, buf, calls, said>>
      BY <1>2 DEF SpinLock, Step, spin_lock
    <2>2. \A d \in Cpu : pc[d] \notin Holding
      BY <2>1
    <2>3. due' \in Seq(Char)
      BY <2>1
    <2>4. said = due
      BY <2>1
    <2>5. \A d \in Cpu : pc'[d] \in Holding => d = c
      BY <2>1, <2>2
    <2>6. pc' \in [Cpu -> {"idle", "spin", "clear", "loop"}]
      BY <2>1
    <2>7. LockInv'
      BY <2>1, <2>5
    <2>8. StringsWhole'
      <3>1. said' \o buf'[c] = due'
        BY <2>1, <2>4
      <3>2. lock' # 0
        BY <2>1
      <3> QED
        BY <2>5, <3>1, <3>2, Zenon
    <2> QED
      BY <2>1, <2>3, <2>6, <2>7, <2>8
  <1>3. ASSUME NEW c \in Cpu, ClearOnce(c) PROVE TalkInv'
    <2>1. /\ pc[c] = "clear" /\ pc' = [pc EXCEPT ![c] = "loop"] /\ console_cleared'
          /\ console_cleared' \in BOOLEAN
          /\ UNCHANGED <<lock, buf, calls, due, said>>
      BY <1>3 DEF ClearOnce, Step
    <2> QED
      BY <2>1
  <1>4. ASSUME NEW c \in Cpu, Putc(c) PROVE TalkInv'
    <2>1. /\ pc[c] = "loop" /\ pc' = [pc EXCEPT ![c] = "loop"] /\ buf[c] # <<>>
          /\ buf' = [buf EXCEPT ![c] = Tail(@)]
          /\ said' = Append(said, Head(buf[c]))
          /\ UNCHANGED <<lock, console_cleared, calls, due>>
      BY <1>4 DEF Putc, Step
    <2>2. pc' = pc
      BY <2>1
    <2>3. /\ Tail(buf[c]) \in Seq(Char) /\ said' \in Seq(Char)
          /\ said' \o Tail(buf[c]) = said \o buf[c]
      <3>1. said \in Seq(Char) /\ buf[c] \in Seq(Char)
        OBVIOUS
      <3> HIDE DEF TalkInv, LockInv, StringsWhole, Holding
      <3>2. /\ Tail(buf[c]) \in Seq(Char) /\ Append(said, Head(buf[c])) \in Seq(Char)
            /\ Append(said, Head(buf[c])) \o Tail(buf[c]) = said \o buf[c]
        BY <2>1, <3>1, PutMoves
      <3> QED
        BY <2>1, <3>2, Zenon
    <2>4. buf' \in [Cpu -> Seq(Char)] /\ buf'[c] = Tail(buf[c])
      BY <2>1, <2>3
    <2>5. said' \o buf'[c] = due'
      BY <2>1, <2>3, <2>4
    <2>6. lock = 1 /\ \A d \in Cpu : pc[d] \in Holding => d = c
      BY <2>1
    <2>7. LockInv'
      BY <2>1, <2>2
    <2>8. StringsWhole'
      <3>1. lock' # 0 /\ \A d \in Cpu : pc'[d] \in Holding => d = c
        BY <2>1, <2>2, <2>6
      <3> QED
        BY <2>5, <3>1, Zenon
    <2> HIDE DEF LockInv, StringsWhole
    <2> QED
      BY <2>1, <2>2, <2>3, <2>4, <2>7, <2>8
  <1>5. ASSUME NEW c \in Cpu, SpinUnlock(c) PROVE TalkInv'
    <2>1. /\ pc[c] = "loop" /\ pc' = [pc EXCEPT ![c] = "idle"] /\ buf[c] = <<>> /\ lock' = 0
          /\ UNCHANGED <<console_cleared, buf, calls, due, said>>
      BY <1>5 DEF SpinUnlock, Step, spin_unlock
    <2>2. said \o <<>> = due
      BY <2>1
    <2>3. said = due
      BY <2>2
    <2>4. \A d \in Cpu : pc[d] \in Holding => d = c
      BY <2>1
    <2> QED
      BY <2>1, <2>3, <2>4
  <1>6. ASSUME UNCHANGED vars PROVE TalkInv'
    BY <1>6 DEF vars, cpuVars
  <1> QED
    BY <1>1, <1>2, <1>3, <1>4, <1>5, <1>6 DEF Next, Puts, Spin, Quiet

\* What a cleared screen looks like: blank all over, and so is its first row.
LEMMA Cleared ==
    ASSUME vga \in Cells, console_clear
    PROVE  /\ vga' \in Cells /\ cur_x' = 0 /\ cur_y' = 0
           /\ BlankBelow(vga', 0)
           /\ Row(vga', 0) = BlankLine
  <1>1. ROWS \in Nat \ {0} /\ COLUMNS \in Nat \ {0} /\ 0 \in 0 .. ROWS - 1
    BY ConsoleAssumption
  <1>2. DOMAIN vga = Cell \cup {Null}
    BY DEF Cells
  <1>3. vga' \in Cells /\ \A s \in Cell : s # Null => vga'[s] = Blank
    BY <1>2 DEF console_clear, Cells
  <1>4. ASSUME NEW x \in 0 .. COLUMNS - 1, NEW y \in 0 .. ROWS - 1
        PROVE  vga'[slot_from_xy(x, y)] = Blank
    BY <1>3, SlotCell
  <1>5. BlankBelow(vga', 0)
    BY <1>1, <1>4 DEF BlankBelow
  <1>6. Row(vga', 0) = BlankLine
    <2>1. \A x \in 0 .. COLUMNS - 1 : Row(vga', 0)[x] = BlankLine[x]
      <3> TAKE x \in 0 .. COLUMNS - 1
      <3>1. Row(vga', 0)[x] = vga'[slot_from_xy(x, 0)]
        BY <1>1, <1>3, RowType
      <3> QED
        BY <1>1, <1>4, <3>1, BlankLineType
    <2> QED
      BY <1>1, <1>3, <2>1, RowType, BlankLineType, LineEqual
  <1> QED
    BY <1>3, <1>5, <1>6 DEF console_clear

\* No step disturbs the half about the screen, and every step does to the
\* paper what a teletype does, or nothing.
LEMMA ViewStep ==
    TalkInv /\ ViewInv /\ [Next]_vars => ViewInv' /\ [Roll!Next]_<<OnPaper, cur_x>>
  <1> SUFFICES ASSUME TalkInv, ViewInv, [Next]_vars
               PROVE  ViewInv' /\ [Roll!Next]_<<OnPaper, cur_x>>
    OBVIOUS
  <1>1. ASSUME UNCHANGED <<vga, cur_x, cur_y, gone, console_cleared>>
        PROVE  ViewInv' /\ UNCHANGED <<OnPaper, cur_x>>
    BY <1>1 DEF ViewInv, BlankBelow, OnPaper, Row
  <1>2. ASSUME NEW c \in Cpu, ClearOnce(c)
        PROVE  ViewInv' /\ UNCHANGED <<OnPaper, cur_x>>
    <2>1. CASE console_cleared
      <3>1. console_cleared'
        BY <1>2 DEF ClearOnce
      <3>2. UNCHANGED <<vga, cur_x, cur_y, gone>>
        BY <1>2, <2>1 DEF ClearOnce, screen
      <3>3. ViewInv'
        BY <2>1, <3>1, <3>2 DEF ViewInv, BlankBelow
      <3>4. OnPaper' = OnPaper
        BY <2>1, <3>1, <3>2 DEF OnPaper, Row
      <3> QED
        BY <3>2, <3>3, <3>4
    <2>2. CASE ~console_cleared
      <3>1. console_cleared' /\ gone' = gone /\ console_clear
        BY <1>2, <2>2 DEF ClearOnce
      <3>2. cur_x = 0 /\ cur_y = 0 /\ gone = <<>> /\ vga \in Cells
        BY <2>2 DEF ViewInv
      <3>3. /\ vga' \in Cells /\ cur_x' = 0 /\ cur_y' = 0
            /\ BlankBelow(vga', 0) /\ Row(vga', 0) = BlankLine
        BY <3>1, <3>2, Cleared
      <3>4. ViewInv'
        <4>1. cur_x' \in 0 .. COLUMNS - 1 /\ cur_y' \in 0 .. ROWS - 1
          BY <3>3, ConsoleAssumption
        <4> QED
          BY <3>1, <3>2, <3>3, <4>1 DEF ViewInv
      <3>5. OnPaper = <<BlankLine>>
        BY <2>2 DEF OnPaper, BlankLine
      <3>6. OnPaper' = <<>> \o Rows(vga', 0)
        BY <3>1, <3>2, <3>3, PaperOfScreen
      <3>7. Rows(vga', 0) = <<BlankLine>>
        <4>1. 0 \in 0 .. ROWS - 1
          BY ConsoleAssumption
        <4>2. /\ Rows(vga', 0) \in Seq(Line) /\ Len(Rows(vga', 0)) = 1
              /\ Rows(vga', 0)[1] = BlankLine
          <5>1. /\ Rows(vga', 0) \in Seq(Line) /\ Len(Rows(vga', 0)) = 0 + 1
                /\ \A k \in 1 .. 0 + 1 : Rows(vga', 0)[k] = Row(vga', k - 1)
            BY <3>3, <4>1, RowsType
          <5>2. Rows(vga', 0)[1] = Row(vga', 1 - 1) /\ 1 - 1 = 0
            BY <5>1
          <5> QED
            BY <3>3, <5>1, <5>2
        <4>3. <<BlankLine>> \in Seq(Line) /\ Len(<<BlankLine>>) = 1 /\ <<BlankLine>>[1] = BlankLine
          BY BlankLineType
        <4> DEFINE b == <<BlankLine>>
        <4>4. \A k \in 1 .. Len(Rows(vga', 0)) : Rows(vga', 0)[k] = b[k]
          BY <4>2, <4>3
        <4>5. b \in Seq(Line) /\ Len(Rows(vga', 0)) = Len(b)
          BY <4>2, <4>3
        <4> HIDE DEF b
        <4>6. Rows(vga', 0) = b
          BY <4>2, <4>4, <4>5, SeqEqual
        <4> QED
          BY <4>6 DEF b
      <3>8. OnPaper' = <<BlankLine>>
        BY <3>6, <3>7, BlankLineType
      <3> QED
        BY <3>2, <3>3, <3>4, <3>5, <3>8
    <2> QED
      BY <2>1, <2>2
  <1>3. ASSUME NEW c \in Cpu, Putc(c)
        PROVE  ViewInv' /\ Roll!Next
    <2>1. /\ pc[c] = "loop" /\ buf[c] # <<>> /\ console_putc(Head(buf[c]))
          /\ console_cleared' = console_cleared
      BY <1>3 DEF Putc, Step
    <2>2. console_cleared /\ console_cleared'
      BY <2>1 DEF TalkInv
    <2>3. Head(buf[c]) \in Char
      BY <2>1 DEF TalkInv
    <2>4. ScreenInv
      BY <2>2 DEF ViewInv, ScreenInv
    <2>5. ScreenInv' /\ Roll!Next
      BY <2>1, <2>2, <2>3, <2>4, PutcOnPaper
    <2> QED
      BY <2>2, <2>5 DEF ViewInv, ScreenInv
  <1>4. ASSUME NEW c \in Cpu, Call(c) \/ SpinLock(c) \/ SpinUnlock(c)
        PROVE  UNCHANGED <<vga, cur_x, cur_y, gone, console_cleared>>
    BY <1>4 DEF Call, SpinLock, SpinUnlock, screen
  <1>5. ASSUME UNCHANGED vars
        PROVE  UNCHANGED <<vga, cur_x, cur_y, gone, console_cleared>>
    BY <1>5 DEF vars, screen
  <1> QED
    BY <1>1, <1>2, <1>3, <1>4, <1>5 DEF Next, Puts, Spin, Quiet

\* The invariant is inductive.
LEMMA NextInv == IInv /\ [Next]_vars => IInv' /\ [Roll!Next]_<<OnPaper, cur_x>>
  <1>1. ASSUME TalkInv', ViewInv' PROVE IInv'
    BY <1>1, Halves, PTL
  <1> QED
    BY <1>1, Halves, TalkStep, ViewStep

\* IInv holds in every reachable state.
LEMMA Invariance == Spec => []IInv
  <1>1. IInv /\ [Next]_vars => IInv'
    BY NextInv
  <1> QED
    BY InitInv, <1>1, PTL DEF Spec

-----------------------------------------------------------------------------
(* The theorems. *)

\* For every screen and every string, all variables keep their types: the
\* cursor stays on the screen, so slot_from_xy() never answers with a null
\* pointer that console_putc() would write through.
THEOREM ConsoleTypeOK == Spec => []TypeOK
  <1>1. IInv => TypeOK
    BY DEF IInv
  <1> QED
    BY <1>1, Invariance, PTL

\* However many processors print, their strings are put whole and in the order
\* in which console_puts() got the lock.
THEOREM ConsoleStringsWhole == Spec => []StringsWhole
  <1>1. IInv => StringsWhole
    BY DEF IInv
  <1> QED
    BY <1>1, Invariance, PTL

\* The console implements the teletype: wrapping, scrolling and the first
\* caller's clear lose, repeat or move no glyph on a screen of any size.
THEOREM ConsoleRefinesTeletype == Spec => PrintsOnPaper
  <1>1. Init => Roll!Init
    BY DEF Init, Roll!Init, OnPaper, Roll!BlankLine, Roll!Blank, Blank
  <1>2. IInv /\ [Next]_vars => [Roll!Next]_<<OnPaper, cur_x>>
    BY NextInv
  <1> QED
    BY <1>1, <1>2, Invariance, PTL DEF Spec, PrintsOnPaper, Roll!Spec

=============================================================================
