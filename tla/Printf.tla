------------------------------- MODULE Printf -------------------------------
(***************************************************************************)
(* The two formatters: printf of the user library (user/printf.c), a state *)
(* machine with one step for each character of the format, and cprintf of  *)
(* the kernel (console.c), which looks ahead.  The k-th argument is what   *)
(* the word ap points to would mean as a number and as a string.           *)
(***************************************************************************)
EXTENDS Integers, Sequences, SequencesExt

CONSTANTS
    Word,       \* values of a uint
    FmtChars,   \* characters a format is made of
    MaxFmt      \* length of the longest format

\* What the constants have to satisfy.
PrintfAssumption == Word \in Nat /\ Word % 2 = 0 /\ MaxFmt \in Nat

VARIABLES fmt, num, i, state, ap, out

vars == <<fmt, num, i, state, ap, out>>

Ints == -(Word \div 2)..Word \div 2 - 1
Arg(k) == [int |-> IF num + k \in Ints THEN num + k ELSE num - k, str |-> [j \in 1..k |-> "s"]]

\* The digits of the two printints: the kernel's are lower case, the library's upper case.
digits == <<"0", "1", "2", "3", "4", "5", "6", "7", "8", "9", "a", "b", "c", "d", "e", "f">>
DIGITS == SubSeq(digits, 1, 10) \o <<"A", "B", "C", "D", "E", "F">>

\* Mutant of Magnitude: the magnitude is kept in an int.
Magnitude_signed(xx, sgn) == IF sgn /\ xx < 0 THEN (-xx) % (Word \div 2) ELSE xx % Word

\* printint's uint x: the magnitude of a negative number, or the bits.
Magnitude(xx, sgn) == IF sgn /\ xx < 0 THEN (-xx) % Word ELSE xx % Word

\* printint: the digits of x from the table, most significant first, behind the sign.
printint(table, xx, base, sgn) ==
    LET buf[x \in 0..Word - 1] ==
            Append(IF x < base THEN <<>> ELSE buf[x \div base], table[1 + (x % base)])
    IN (IF sgn /\ xx < 0 THEN <<"-">> ELSE <<>>) \o buf[Magnitude(xx, sgn)]

\* The argument a directive prints.
Conversion(table, c, arg) ==
    CASE c = "d" -> printint(table, arg.int, 10, TRUE)
      [] c \in {"x", "p"} -> printint(table, arg.int, 16, FALSE)
      [] c = "s" -> arg.str

\* cprintf: from position k on, with the j-th argument next.
RECURSIVE cprintf(_, _)
cprintf(k, j) ==
    IF k > Len(fmt) THEN <<>>
    ELSE IF fmt[k] # "%" THEN <<fmt[k]>> \o cprintf(k + 1, j)
    ELSE IF k = Len(fmt) THEN <<>>
    ELSE LET c == fmt[k + 1]
         IN IF c \in {"d", "x", "p", "s"} THEN Conversion(digits, c, Arg(j)) \o cprintf(k + 2, j + 1)
            ELSE (IF c = "%" THEN <<"%">> ELSE <<"%", c>>) \o cprintf(k + 2, j)

\* Mutant of printf: the state is not reset after a directive.
printf_stays ==
    /\ i <= Len(fmt) /\ i' = i + 1
    /\ LET c == fmt[i]
       IN \/ state = 0 /\ c # "%" /\ out' = Append(out, c) /\ UNCHANGED <<state, ap>>
          \/ state = 0 /\ c = "%" /\ state' = 1 /\ UNCHANGED <<out, ap>>
          \/ state = 1 /\ out' = Append(out, c) /\ UNCHANGED <<state, ap>>
    /\ UNCHANGED <<fmt, num>>

\* One turn of printf's loop.
printf ==
    /\ i <= Len(fmt) /\ i' = i + 1
    /\ LET c == fmt[i]
       IN \/ state = 0 /\ c # "%" /\ out' = Append(out, c) /\ UNCHANGED <<state, ap>>
          \/ state = 0 /\ c = "%" /\ state' = 1 /\ UNCHANGED <<out, ap>>
          \/ /\ state = 1 /\ state' = 0
             /\ \/ /\ c \in {"d", "x", "p", "s"}
                   /\ out' = out \o Conversion(DIGITS, c, Arg(ap)) /\ ap' = ap + 1
                \/ c = "c" /\ out' = Append(out, Arg(ap).str[1]) /\ ap' = ap + 1
                \/ c = "%" /\ out' = Append(out, "%") /\ UNCHANGED ap
                \/ /\ c \notin {"d", "x", "p", "s", "c", "%"}
                   /\ out' = out \o <<"%", c>> /\ UNCHANGED ap
    /\ UNCHANGED <<fmt, num>>

Init ==
    /\ fmt \in BoundedSeq(FmtChars, MaxFmt) /\ num \in Ints
    /\ i = 1 /\ state = 0 /\ ap = 1 /\ out = <<>>

Done == i > Len(fmt) /\ UNCHANGED vars
Next == printf \/ Done
Spec == Init /\ [][Next]_vars

-----------------------------------------------------------------------------
(* Properties *)

\* The same character, or the same digit above 9 of the two tables.
SameDigit(a, b) == a = b \/ \E k \in 11..16 : a = DIGITS[k] /\ b = digits[k]

\* The library and the kernel print the same text, but for the case of hexadecimal
\* digits, for every format and arguments that use the directives both know (the
\* comments over both: "only understands %d, %x, %p, %s").
SameText ==
    i > Len(fmt) /\ (\A k \in 1..Len(fmt) - 1 : <<fmt[k], fmt[k + 1]>> # <<"%", "c">>)
        => LET text == cprintf(1, 1)
           IN Len(out) = Len(text) /\ \A k \in 1..Len(text) : SameDigit(out[k], text[k])

Value(table, ds, base) ==
    FoldLeft(LAMBDA v, d : base * v + SelectInSeq(table, LAMBDA x : x = d) - 1, 0, ds)

\* What printint prints reads back as the number: signed for %d, the smallest int
\* included, and as the bits of the word for %x; with the table of either.
ReadsBack ==
    \A table \in {digits, DIGITS} :
        /\ Value(table, printint(table, num, 16, FALSE), 16) = num % Word
        /\ LET d == printint(table, num, 10, TRUE)
           IN IF num < 0 THEN Head(d) = "-" /\ -Value(table, Tail(d), 10) = num
              ELSE Value(table, d, 10) = num
=============================================================================
