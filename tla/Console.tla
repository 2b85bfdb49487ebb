------------------------------ MODULE Console ------------------------------
(***************************************************************************)
(* The console of a bare-metal build: printf() hands its text to            *)
(* console_puts(), which writes it to the VGA text buffer under a spin lock *)
(* shared by all processors.  The first caller clears the screen.  A cell   *)
(* of the buffer is its glyph; the attribute is always 7.                   *)
(***************************************************************************)
EXTENDS Integers, Sequences

CONSTANTS
    ROWS, COLUMNS,   \* 25 and 80
    Cpu,             \* processors that print
    Text,            \* strings they print: sequences of glyphs, "\n" and "\r"
    MaxCalls         \* calls of console_puts() by one processor

ASSUME ConsoleAssumption ==
    /\ ROWS \in Nat \ {0} /\ COLUMNS \in Nat \ {0}
    /\ MaxCalls \in Nat
    /\ \A t \in Text : t \in Seq({t[k] : k \in 1 .. Len(t)})

Control == {"\n", "\r"}
Glyph == (UNION {{t[k] : k \in 1 .. Len(t)} : t \in Text}) \ Control

Blank == "blank"
Null == -1
Cell == 0 .. ROWS * COLUMNS - 1

VARIABLES
    vga,             \* the text buffer; vga[Null] is the word at address 0
    cur_x, cur_y,    \* the cursor
    lock,
    console_cleared,
    pc, buf,         \* per processor: control point, rest of its string
    calls,           \* calls it has begun
    gone,            \* history: rows that have left the screen
    due, said        \* history: the strings of those who got the lock, in that
                     \* order, and the characters put

screen == <<vga, cur_x, cur_y, gone>>
cpuVars == <<pc, buf, calls>>
vars == <<screen, lock, console_cleared, cpuVars, due, said>>

Init ==
    /\ vga = [s \in Cell \cup {Null} |-> "bios"]    \* whatever the BIOS left
    /\ cur_x = 0 /\ cur_y = 0
    /\ lock = 0
    /\ console_cleared = FALSE
    /\ pc = [c \in Cpu |-> "idle"]
    /\ buf = [c \in Cpu |-> <<>>]
    /\ calls = [c \in Cpu |-> 0]
    /\ gone = <<>> /\ due = <<>> /\ said = <<>>

-----------------------------------------------------------------------------
(* The screen. *)

slot_from_xy(x, y) ==
    IF x >= COLUMNS \/ y >= ROWS THEN Null ELSE x + y * COLUMNS

Row(screen_, y) == [x \in 0 .. COLUMNS - 1 |-> screen_[slot_from_xy(x, y)]]

console_clear ==
    /\ vga' = [s \in DOMAIN vga |-> IF s = Null THEN vga[s] ELSE Blank]
    /\ cur_x' = 0 /\ cur_y' = 0

\* Mutant: the last row keeps what it showed.
ScrolledNoClear(screen_) ==
    [s \in DOMAIN screen_ |->
        IF s + COLUMNS \in Cell /\ s # Null THEN screen_[s + COLUMNS] ELSE screen_[s]]

\* Every row moves up by one, row by row from the top; the last one is cleared.
Scrolled(screen_) ==
    [s \in DOMAIN screen_ |->
        IF s = Null THEN screen_[s]
        ELSE IF s + COLUMNS \in Cell THEN screen_[s + COLUMNS] ELSE Blank]

\* Mutant: scroll one row late.
new_line_late(screen_) ==
    /\ cur_x' = 0
    /\ IF cur_y + 1 > ROWS
       THEN /\ cur_y' = ROWS - 1
            /\ vga' = Scrolled(screen_)
            /\ gone' = Append(gone, Row(screen_, 0))
       ELSE /\ cur_y' = cur_y + 1
            /\ vga' = screen_
            /\ UNCHANGED gone

new_line(screen_) ==
    /\ cur_x' = 0
    /\ IF cur_y + 1 >= ROWS
       THEN /\ cur_y' = ROWS - 1
            /\ vga' = Scrolled(screen_)
            /\ gone' = Append(gone, Row(screen_, 0))
       ELSE /\ cur_y' = cur_y + 1
            /\ vga' = screen_
            /\ UNCHANGED gone

\* A glyph in the last column is followed by a new line at once.
console_putc(ch) ==
    CASE ch = "\n" -> new_line(vga)
      [] ch = "\r" -> cur_x' = 0 /\ UNCHANGED <<vga, cur_y, gone>>
      [] OTHER ->
            LET written == [vga EXCEPT ![slot_from_xy(cur_x, cur_y)] = ch]
            IN  IF cur_x + 1 >= COLUMNS
                THEN new_line(written)
                ELSE cur_x' = cur_x + 1 /\ vga' = written /\ UNCHANGED <<cur_y, gone>>

-----------------------------------------------------------------------------
(* console_puts(). *)

Step(c, from, to) == pc[c] = from /\ pc' = [pc EXCEPT ![c] = to]

Call(c) ==
    /\ Step(c, "idle", "spin")
    /\ calls[c] < MaxCalls
    /\ calls' = [calls EXCEPT ![c] = @ + 1]
    /\ \E t \in Text : buf' = [buf EXCEPT ![c] = t]
    /\ UNCHANGED <<screen, lock, console_cleared, due, said>>

\* Mutant: the lock is not waited for.
spin_lock_not == lock' = 1

spin_lock == lock = 0 /\ lock' = 1

SpinLock(c) ==
    /\ Step(c, "spin", "clear")
    /\ spin_lock
    /\ due' = due \o buf[c]
    /\ UNCHANGED <<screen, console_cleared, buf, calls, said>>

ClearOnce(c) ==
    /\ Step(c, "clear", "loop")
    /\ IF console_cleared THEN UNCHANGED screen ELSE console_clear /\ UNCHANGED gone
    /\ console_cleared' = TRUE
    /\ UNCHANGED <<lock, buf, calls, due, said>>

Putc(c) ==
    /\ Step(c, "loop", "loop")
    /\ buf[c] # <<>>
    /\ console_putc(Head(buf[c]))
    /\ buf' = [buf EXCEPT ![c] = Tail(@)]
    /\ said' = Append(said, Head(buf[c]))
    /\ UNCHANGED <<lock, console_cleared, calls, due>>

spin_unlock == lock' = 0

SpinUnlock(c) ==
    /\ Step(c, "loop", "idle")
    /\ buf[c] = <<>>
    /\ spin_unlock
    /\ UNCHANGED <<screen, console_cleared, buf, calls, due, said>>

Puts(c) == SpinLock(c) \/ ClearOnce(c) \/ Putc(c) \/ SpinUnlock(c)

\* while (__sync_lock_test_and_set(...)): 1 is stored over 1.
Spin(c) == pc[c] = "spin" /\ lock = 1 /\ UNCHANGED vars

\* Nothing is left to print.
Quiet == (\A c \in Cpu : pc[c] = "idle" /\ calls[c] = MaxCalls) /\ UNCHANGED vars

Next == (\E c \in Cpu : Call(c) \/ Puts(c) \/ Spin(c)) \/ Quiet

Spec == Init /\ [][Next]_vars

-----------------------------------------------------------------------------
(* Properties. *)

\* Every variable keeps its type; in particular the cursor never leaves the
\* screen, so that slot_from_xy() never answers with a null pointer.
TypeOK ==
    /\ vga \in [Cell \cup {Null} -> Glyph \cup {Blank, "bios"}]
    /\ cur_x \in 0 .. COLUMNS - 1 /\ cur_y \in 0 .. ROWS - 1
    /\ lock \in {0, 1} /\ console_cleared \in BOOLEAN
    /\ pc \in [Cpu -> {"idle", "spin", "clear", "loop"}]
    /\ buf \in [Cpu -> Seq(Glyph \cup Control)]
    /\ calls \in [Cpu -> 0 .. MaxCalls]

\* What has been printed: the rows that scrolled away and the rows of the
\* screen down to the cursor.
OnPaper ==
    IF console_cleared
    THEN gone \o [k \in 1 .. cur_y + 1 |-> Row(vga, k - 1)]
    ELSE <<[x \in 0 .. COLUMNS - 1 |-> Blank]>>

\* The screen and the rows that have left it are the paper of a teletype:
\* wrapping, scrolling and clearing lose, repeat or move no glyph, also at
\* the last column of the last row.
Roll == INSTANCE Teletype WITH paper <- OnPaper, head <- cur_x
PrintsOnPaper == Roll!Spec

\* Strings printed by several processors are never mixed: what has been put,
\* followed by the rest of the string of the one that has the lock, is the
\* strings in the order their callers got it.
StringsWhole ==
    /\ \A c \in Cpu : pc[c] \in {"clear", "loop"} => said \o buf[c] = due
    /\ lock = 0 => said = due

=============================================================================
