------------------------------- MODULE Screen -------------------------------
(***************************************************************************)
(* Console output (console.c): cprintf and consolewrite print under        *)
(* cons.lock, the echo of typed characters prints under input.lock, and    *)
(* both end in cgaputc, which reads the cursor from two registers of the   *)
(* display controller through one index register, changes the screen and   *)
(* writes the cursor back.  Each access to the controller is a step.       *)
(***************************************************************************)
EXTENDS Integers, Sequences, FiniteSets, SequencesExt

CONSTANTS
    COLS,       \* characters in a row (80)
    ROWS,       \* rows of text (24)
    BASE,       \* values of a register of the controller (256)
    Texts,      \* what is printed at a time: sequences of characters
    SMP         \* is there more than one CPU?

\* What the constants have to satisfy.
ScreenAssumption == COLS > 0 /\ ROWS > 0 /\ COLS * ROWS < BASE * BASE

VARIABLES
    crt,        \* the screen memory
    reg,        \* reg[14], reg[15]: high and low part of the cursor position
    idx,        \* the index register
    todo,       \* todo[a]: what actor a still has to print
    pc,         \* pc[a]: where a is in cgaputc, 0 when it is not
    pos,        \* pos[a]: cgaputc's variable pos
    text        \* history: what a terminal of this size would show

vars == <<crt, reg, idx, todo, pc, pos, text>>

Actors == {"cons_lock", "input_lock"}   \* the holder of each lock
NL == "newline"
BACKSPACE == "backspace"
Blank == "blank"
Cells == 0..(ROWS + 1) * COLS - 1

\* A new text to print.  On one CPU the holder of a lock has interrupts off, so
\* nobody else prints; with SMP the holder of the other lock may.
Printing(a, s) ==
    /\ todo[a] = <<>> /\ (SMP \/ \A b \in Actors : todo[b] = <<>>)
    /\ todo' = [todo EXCEPT ![a] = s]
    /\ UNCHANGED <<crt, reg, idx, pc, pos, text>>

\* consolewrite and cprintf print a whole text under cons.lock; consoleintr echoes
\* a character under input.lock.
print == \E s \in Texts : Printing("cons_lock", s)
echo == \E c \in {"a", BACKSPACE} : Printing("input_lock", <<c>>)

\* The accesses of cgaputc to the controller, in order.
At(a, i) == pc[a] = i /\ todo[a] # <<>>
To(a, i) == pc' = [pc EXCEPT ![a] = i]
outb_index(a) ==
    /\ \E i \in {0, 2, 5, 7} :
           At(a, i) /\ To(a, i + 1) /\ idx' = (IF i \in {0, 5} THEN 14 ELSE 15)
    /\ UNCHANGED <<crt, reg, todo, pos, text>>
inb_cursor(a) ==
    /\ \/ At(a, 1) /\ To(a, 2) /\ pos' = [pos EXCEPT ![a] = reg[idx] * BASE]
       \/ At(a, 3) /\ To(a, 4) /\ pos' = [pos EXCEPT ![a] = @ + reg[idx]]
    /\ UNCHANGED <<crt, reg, idx, todo, text>>

\* Mutant of Moved: backspace does not stop at the start of the screen.
Moved_free(p, c) ==
    CASE c = NL -> p + COLS - (p % COLS) [] c = BACKSPACE -> (p - 1) % (BASE * BASE) [] OTHER -> p + 1

\* Where the cursor goes before scrolling.
Moved(p, c) ==
    CASE c = NL -> p + COLS - (p % COLS)
      [] c = BACKSPACE -> IF p > 0 THEN p - 1 ELSE p
      [] OTHER -> p + 1

\* Mutant of Scroll: the rows that move up are not cleared behind them.
Scroll_uncleared(m, p) ==
    [i \in Cells |-> IF i < (ROWS - 1) * COLS THEN m[i + COLS] ELSE m[i]]

\* Scroll up one row: memmove of ROWS - 1 rows, memset from the cursor on.
Scroll(m, p) ==
    [i \in Cells |-> CASE i >= p - COLS /\ i < ROWS * COLS -> Blank
                       [] i < (ROWS - 1) * COLS -> m[i + COLS]
                       [] OTHER -> m[i]]

put(a) ==
    /\ At(a, 4) /\ To(a, 5)
    /\ LET c == Head(todo[a])
           m == IF c \in {NL, BACKSPACE} THEN crt ELSE [crt EXCEPT ![pos[a]] = c]
           p == Moved(pos[a], c)
       IN IF p >= ROWS * COLS
          THEN crt' = Scroll(m, p) /\ pos' = [pos EXCEPT ![a] = p - COLS]
          ELSE crt' = m /\ pos' = [pos EXCEPT ![a] = p]
    /\ UNCHANGED <<reg, idx, todo, text>>

outb_cursor(a) ==
    /\ \/ At(a, 6) /\ To(a, 7) /\ reg' = [reg EXCEPT ![idx] = pos[a] \div BASE]
       \/ At(a, 8) /\ To(a, 9) /\ reg' = [reg EXCEPT ![idx] = pos[a] % BASE]
    /\ UNCHANGED <<crt, idx, todo, pos, text>>

\* What a terminal shows after one more character, from the text alone.
Shown(t, c) ==
    LET u == CASE c = NL -> t \o [i \in 1..COLS - (Len(t) % COLS) |-> Blank]
               [] c = BACKSPACE -> IF t = <<>> THEN t ELSE Front(t)
               [] OTHER -> Append(t, c)
    IN IF Len(u) >= ROWS * COLS THEN SubSeq(u, COLS + 1, Len(u)) ELSE u

\* The last step of cgaputc blanks the cell under the cursor; consputc returns.
putc_done(a) ==
    /\ At(a, 9) /\ To(a, 0)
    /\ crt' = [crt EXCEPT ![pos[a]] = Blank]
    /\ text' = Shown(text, Head(todo[a]))
    /\ todo' = [todo EXCEPT ![a] = Tail(@)]
    /\ pos' = [pos EXCEPT ![a] = 0]
    /\ UNCHANGED <<reg, idx>>

Init ==
    /\ crt = [i \in Cells |-> Blank] /\ reg = [i \in {14, 15} |-> 0] /\ idx = 14
    /\ todo = [a \in Actors |-> <<>>] /\ pc = [a \in Actors |-> 0] /\ pos = [a \in Actors |-> 0]
    /\ text = <<>>

cgaputc(a) == outb_index(a) \/ inb_cursor(a) \/ put(a) \/ outb_cursor(a) \/ putc_done(a)
Next == print \/ echo \/ \E a \in Actors : cgaputc(a)
Spec == Init /\ [][Next]_vars

-----------------------------------------------------------------------------
(* Properties *)

\* Between characters the screen memory shows what a terminal would show, the
\* cells behind the cursor are blank, and the registers hold the cursor.
ScreenShows ==
    (\A a \in Actors : pc[a] = 0) =>
        /\ reg[14] * BASE + reg[15] = Len(text)
        /\ \A i \in 0..ROWS * COLS - 1 :
               crt[i] = IF i < Len(text) THEN text[i + 1] ELSE Blank

\* cgaputc's pos is "col + 80*row" of a cell of the screen whenever it is used.
CursorOnScreen == \A a \in Actors : pc[a] > 3 => pos[a] < ROWS * COLS
=============================================================================
