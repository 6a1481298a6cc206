-------------------------------- MODULE Grep --------------------------------
(***************************************************************************)
(* The program grep (user/grep.c): a buffer that is filled by read, cut    *)
(* into lines with strchr and matched against a pattern by backtracking.   *)
(* The reference is a declarative meaning of patterns.                     *)
(***************************************************************************)
EXTENDS Integers, Sequences, SequencesExt

CONSTANTS
    ReChars, TextChars,     \* characters of patterns and of texts
    MaxRe, MaxInput,        \* bounds on their lengths
    MaxLine,                \* no line of the input is longer, its newline not counted
    BUF,                    \* sizeof(buf)
    Pieces                  \* may read return less than is there (a pipe, the console)?

NL == "\n"
NUL == "\\0"

VARIABLES
    re, input,              \* the pattern and what there is to read
    buf, m, p,              \* the buffer (addresses from 0), and the program's m and p
    pos, out, at,           \* what was read, the lines written, where the program is
    clean                   \* history: did strchr stop in time, whatever it was given?

vars == <<re, input, buf, m, p, pos, out, at, clean>>

-----------------------------------------------------------------------------
(* The matcher; a string is a sequence without its NUL. *)

Char(s, i) == IF i < Len(s) THEN s[i + 1] ELSE NUL
From(s, n) == IF n >= Len(s) THEN << >> ELSE SubSeq(s, n + 1, Len(s))

RECURSIVE matchhere(_, _)

\* Mutant of Stops: c must occur.
Stops_plus(c, text) == {n \in 1 .. Len(text) : \A k \in 0 .. n - 1 : c \in {".", Char(text, k)}}

\* How many characters the loop of matchstar may skip: n of them, all matched by c.
Stops(c, text) == {n \in 0 .. Len(text) : \A k \in 0 .. n - 1 : c \in {".", Char(text, k)}}
matchstar(c, r, text) == \E n \in Stops(c, text) : matchhere(r, From(text, n))

matchhere(r, text) ==
    CASE r = << >> -> TRUE
      [] Char(r, 1) = "*" -> matchstar(Char(r, 0), From(r, 2), text)
      [] r = <<"$">> -> text = << >>
      [] OTHER -> /\ text # << >> /\ Char(r, 0) \in {".", Char(text, 0)}
                  /\ matchhere(From(r, 1), From(text, 1))

match(r, text) ==
    IF Char(r, 0) = "^" THEN matchhere(From(r, 1), text)
    ELSE \E n \in 0 .. Len(text) : matchhere(r, From(text, n))

-----------------------------------------------------------------------------
(* The loop over the input. *)

\* strchr(p, '\n'): the address of the first newline before a NUL, BUF if there is none
\* (the data after buf are NULs).
strchr(a) ==
    LET found == {q \in a .. BUF - 1 : buf[q] = NL /\ \A k \in a .. q : buf[k] # NUL}
    IN IF found = {} THEN BUF ELSE CHOOSE q \in found : \A k \in found : q <= k

\* read(fd, buf+m, sizeof(buf)-m) into the buffer.  What was in the buffer behind the
\* new text stays there, and nothing but a NUL ends the text: clean records whether one
\* follows it, or the end of the buffer.  With a negative m read writes before buf: that
\* is not followed, unless nothing is left to read.
read ==
    /\ at = "read" /\ (m >= 0 \/ pos = Len(input))
    /\ LET left == Len(input) - pos
           room == BUF - m
           full == IF left < room THEN left ELSE room
       IN \E n \in IF Pieces /\ full > 0 THEN 1 .. full ELSE {full} :
              /\ buf' = [a \in 0 .. BUF - 1 |-> IF a \in m .. m + n - 1 THEN input[pos + a - m + 1] ELSE buf[a]]
              /\ m' = m + n /\ pos' = pos + n /\ p' = 0
              /\ at' = IF n > 0 THEN "lines" ELSE "exit"
              /\ clean' = (clean /\ (n > 0 => m' = BUF \/ buf'[m'] = NUL))
    /\ UNCHANGED <<re, input, out>>

\* One turn of the inner loop; the newline of a line that does not match stays NUL.
line ==
    LET q == strchr(p)
        text == [k \in 1 .. q - p |-> buf[p + k - 1]]
    IN /\ at = "lines" /\ q < BUF
       /\ IF match(re, text) THEN out' = Append(out, text) /\ UNCHANGED buf
          ELSE buf' = [buf EXCEPT ![q] = NUL] /\ UNCHANGED out
       /\ p' = q + 1 /\ UNCHANGED <<re, input, m, pos, at, clean>>

\* Mutant of rest: the beginning of the next line is not counted.
rest_lost ==
    /\ at = "lines" /\ strchr(p) = BUF /\ at' = "read" /\ m' = 0
    /\ UNCHANGED <<re, input, buf, p, pos, out, clean>>

\* No line is left: the beginning of the next is moved to the front.
rest ==
    /\ at = "lines" /\ strchr(p) = BUF /\ at' = "read"
    /\ IF p = 0 THEN m' = 0 /\ UNCHANGED buf
       ELSE /\ m' = m - p
            /\ buf' = [a \in 0 .. BUF - 1 |-> IF a < m - p THEN buf[p + a] ELSE buf[a]]
    /\ UNCHANGED <<re, input, p, pos, out, clean>>

Init ==
    /\ re \in BoundedSeq(ReChars, MaxRe) /\ input \in BoundedSeq(TextChars \cup {NL}, MaxInput)
    /\ \A i \in 1 .. Len(input) - MaxLine : \E j \in i .. i + MaxLine : input[j] = NL
    /\ buf = [a \in 0 .. BUF - 1 |-> NUL] /\ m = 0 /\ p = 0 /\ pos = 0 /\ out = << >> /\ at = "read" /\ clean = TRUE
Next == read \/ line \/ rest
Spec == Init /\ [][Next]_vars

-----------------------------------------------------------------------------
(* What is promised *)

\* The items of a pattern, from left to right: a character, and is it starred?
Items(r) ==
    LET from[i \in 0 .. Len(r) + 1] ==
            IF i >= Len(r) THEN << >>
            ELSE IF Char(r, i + 1) = "*" THEN <<[c |-> Char(r, i), star |-> TRUE]>> \o from[i + 2]
            ELSE <<[c |-> Char(r, i), star |-> FALSE]>> \o from[i + 1]
    IN from[0]

\* The text can be cut so that the items cover consecutive parts of it, from its
\* start after ^, and up to its end before $.
Accepts(r, text) ==
    LET first == Char(r, 0) = "^"
        items == Items(IF first THEN From(r, 1) ELSE r)
        last == items # << >> /\ items[Len(items)] = [c |-> "$", star |-> FALSE]
        k == IF last THEN Len(items) - 1 ELSE Len(items)
        Covers(item, a, b) == /\ a <= b /\ (~item.star => b = a + 1)
                              /\ \A n \in a .. b - 1 : item.c \in {".", Char(text, n)}
    IN \E cut \in [0 .. k -> 0 .. Len(text)] :
           /\ first => cut[0] = 0
           /\ last => cut[k] = Len(text)
           /\ \A i \in 1 .. k : Covers(items[i], cut[i - 1], cut[i])

\* The lines of the first k characters of the input, a last one without its newline
\* left out.
Lines(k) ==
    LET upto[n \in 0 .. k] ==
            IF n = 0 THEN [done |-> << >>, part |-> << >>]
            ELSE IF input[n] = NL THEN [done |-> Append(upto[n - 1].done, upto[n - 1].part), part |-> << >>]
            ELSE [done |-> upto[n - 1].done, part |-> Append(upto[n - 1].part, input[n])]
    IN upto[k].done

\* When all of what was read is dealt with, grep has written exactly the lines of it that
\* the pattern accepts, in their order, those included that came in two reads, as long as
\* each read ended at the end of buf or before a NUL. grep does not see to that: after a
\* short read that follows a longer one it takes old text for new.
PrintsMatches ==
    at \in {"read", "exit"} /\ clean => out = SelectSeq(Lines(pos), LAMBDA text : Accepts(re, text))
=============================================================================
