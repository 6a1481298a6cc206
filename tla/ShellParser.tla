---------------------------- MODULE ShellParser ----------------------------
(***************************************************************************)
(* The command parser of the shell (user/sh.c): gettoken, the recursive    *)
(* descent of parsecmd, and nulterminate, which cuts the line into strings *)
(* in place.  Strings of the tree are <<q, eq>>, places in the line.       *)
(***************************************************************************)
EXTENDS Naturals, Sequences, FiniteSetsExt, SequencesExt

CONSTANTS
    Chars,      \* characters typed: symbols, " " for whitespace, others are letters
    MaxLine,    \* longest line
    MAXARGS     \* room in argv, its terminator included

\* What the constants have to satisfy.
ShellParserAssumption == MaxLine \in Nat /\ MAXARGS \in Nat \ {0}

NUL == "nul"
symbols == {"<", "|", ">", "&", ";", "(", ")"}

VARIABLES
    line,       \* the line as getcmd read it
    buf,        \* the buffer, which nulterminate changes
    cmd         \* what parsecmd returned

vars == <<line, buf, cmd>>

NoCmd == [type |-> "none"]
Panic == [cmd |-> [type |-> "panic"], s |-> 0]   \* panic(): no place to go on from

execcmd(argv) == [type |-> "EXEC", argv |-> argv]
redircmd(c, r) == [type |-> "REDIR", cmd |-> c, file |-> r.file, mode |-> r.mode, fd |-> r.fd]
backcmd(c) == [type |-> "BACK", cmd |-> c]

At(b, i) == IF i \in DOMAIN b THEN b[i] ELSE NUL
SkipBlanks(b, s) == Min({i \in s .. Len(b) + 1 : At(b, i) # " "})
WordEnd(b, s) == Min({i \in s .. Len(b) + 1 : At(b, i) \in symbols \cup {" ", NUL}})

\* The next token, the text it spans and the place after it.
gettoken(b, s) ==
    LET q == SkipBlanks(b, s)
        c == At(b, q)
        append == c = ">" /\ At(b, q + 1) = ">"
        eq == CASE c = NUL -> q
                [] append -> q + 2
                [] c \in symbols -> q + 1
                [] OTHER -> WordEnd(b, q)
    IN [tok |-> IF append THEN "+" ELSE IF c \in symbols \cup {NUL} THEN c ELSE "a",
        q |-> q, eq |-> eq, s |-> SkipBlanks(b, eq)]

peek(b, s, toks) == At(b, SkipBlanks(b, s)) \in toks

\* Redirections from s on, wrapped around c, the first one innermost; t is the
\* operator and f the file name after it.
RECURSIVE parseredirs(_, _, _)
Redirect(c, b, t, f) ==
    IF f.tok # "a" THEN Panic
    ELSE parseredirs(redircmd(c, [file |-> <<f.q, f.eq>>,
                                  mode |-> IF t.tok = "<" THEN "O_RDONLY" ELSE "O_WRONLY|O_CREATE",
                                  fd |-> IF t.tok = "<" THEN 0 ELSE 1]), b, f.s)
RedirectBy(c, b, t) == Redirect(c, b, t, gettoken(b, t.s))
parseredirs(c, b, s) ==
    IF ~peek(b, s, {"<", ">"}) THEN [cmd |-> c, s |-> s] ELSE RedirectBy(c, b, gettoken(b, s))

\* ret with argv added to the execcmd inside the redirections.
RECURSIVE AddArg(_, _)
AddArg(c, arg) ==
    IF c.type = "EXEC" THEN execcmd(Append(c.argv, arg)) ELSE [c EXCEPT !.cmd = AddArg(@, arg)]

\* The loop of parseexec; n is argc, r the command so far and t the next token.
RECURSIVE parseargs(_, _, _)
Argument(r, n, b, t) ==
    IF peek(b, r.s, {"|", ")", "&", ";"}) \/ t.tok = NUL THEN r
    ELSE IF t.tok # "a" \/ n + 1 >= MAXARGS THEN Panic
    ELSE parseargs(parseredirs(AddArg(r.cmd, <<t.q, t.eq>>), b, t.s), n + 1, b)
parseargs(r, n, b) == IF r.s = 0 THEN Panic ELSE Argument(r, n, b, gettoken(b, r.s))

RECURSIVE parseline(_, _)
RECURSIVE parsepipe(_, _)

\* What follows the list l in parentheses.
BlockEnd(l, b) ==
    IF l.s = 0 \/ ~peek(b, l.s, {")"}) THEN Panic ELSE parseredirs(l.cmd, b, gettoken(b, l.s).s)
parseblock(b, s) == BlockEnd(parseline(b, gettoken(b, s).s), b)

parseexec(b, s) ==
    IF peek(b, s, {"("}) THEN parseblock(b, s) ELSE parseargs(parseredirs(execcmd(<<>>), b, s), 0, b)

\* The command of type t from its two parts.
Join(t, l, r) == IF r.s = 0 THEN Panic ELSE [cmd |-> [type |-> t, left |-> l.cmd, right |-> r.cmd], s |-> r.s]

\* What follows the left part l of a pipe.
PipeEnd(l, b) ==
    IF l.s = 0 \/ ~peek(b, l.s, {"|"}) THEN l ELSE Join("PIPE", l, parsepipe(b, gettoken(b, l.s).s))
parsepipe(b, s) == PipeEnd(parseexec(b, s), b)

RECURSIVE parsebacks(_, _)
parsebacks(r, b) ==
    IF r.s # 0 /\ peek(b, r.s, {"&"})
    THEN parsebacks([cmd |-> backcmd(r.cmd), s |-> gettoken(b, r.s).s], b)
    ELSE r

\* What follows the first part l of a list.
ListEnd(l, b) ==
    IF l.s = 0 \/ ~peek(b, l.s, {";"}) THEN l ELSE Join("LIST", l, parseline(b, gettoken(b, l.s).s))

\* Mutant of parseline: a list is read before the & that ends its first part.
parseline_late(b, s) == parsebacks(ListEnd(parsepipe(b, s), b), b)

parseline(b, s) == ListEnd(parsebacks(parsepipe(b, s), b), b)

\* The places nulterminate writes to.
RECURSIVE Ends(_)
Ends(c) ==
    CASE c.type = "EXEC" -> {c.argv[i][2] : i \in DOMAIN c.argv}
      [] c.type = "REDIR" -> Ends(c.cmd) \cup {c.file[2]}
      [] c.type = "BACK" -> Ends(c.cmd)
      [] OTHER -> Ends(c.left) \cup Ends(c.right)

\* Mutant of nulterminate: the names of redirections are not terminated.
nulterminate_args(c) ==
    [i \in DOMAIN line |-> IF i \in Ends(IF c.type = "REDIR" THEN c.cmd ELSE c) THEN NUL ELSE line[i]]

nulterminate(c) == [i \in DOMAIN line |-> IF i \in Ends(c) THEN NUL ELSE line[i]]

\* parsecmd; what is left over is an error too.
parsecmd ==
    LET r == parseline(line, 1) IN
    /\ cmd = NoCmd
    /\ IF r.s = 0 \/ SkipBlanks(line, r.s) # Len(line) + 1
       THEN cmd' = Panic.cmd /\ UNCHANGED buf
       ELSE cmd' = r.cmd /\ buf' = nulterminate(r.cmd)
    /\ UNCHANGED line

Init == line \in BoundedSeq(Chars, MaxLine) /\ buf = line /\ cmd = NoCmd
Done == cmd # NoCmd /\ UNCHANGED vars
Next == parsecmd \/ Done
Spec == Init /\ [][Next]_vars

----------------------------------------------------------------------------
(* Reference: the grammar, by cutting the line at its operators *)

Letters == Chars \ (symbols \cup {" "})
Nesting(i) == Cardinality({j \in 1 .. i - 1 : line[j] = "("}) - Cardinality({j \in 1 .. i - 1 : line[j] = ")"})
Cuts(c, i, j) == {p \in i .. j : line[p] = c /\ Nesting(p) = Nesting(i)}
Text(i, j) == {p \in i .. j : line[p] # " "}
Bad == Panic.cmd

\* The words of line[i..j], the operator before each (for a redirection), in order.
WordsIn(i, j) ==
    {<<p, q>> \in (i .. j) \X (i + 1 .. j + 1) :
        /\ p < q /\ \A x \in p .. q - 1 : line[x] \in Letters
        /\ p = i \/ line[p - 1] \notin Letters
        /\ q = j + 1 \/ line[q] \notin Letters}
Operator(i, w) ==
    LET before == Text(i, w[1] - 1)
        p == Max(before)
    IN IF before = {} \/ line[p] \notin {"<", ">"} THEN {}
       ELSE IF p > i /\ line[p] = ">" /\ line[p - 1] = ">" THEN {p - 1, p} ELSE {p}
InOrder(ws) == SetToSortSeq(ws, LAMBDA v, w : v[1] < w[1])
Redirected(c, i, ws) ==
    FoldLeft(LAMBDA d, w : LET in == line[Max(Operator(i, w))] = "<" IN
                 redircmd(d, [file |-> w, mode |-> IF in THEN "O_RDONLY" ELSE "O_WRONLY|O_CREATE", fd |-> IF in THEN 0 ELSE 1]),
             c, InOrder(ws))

\* One command without operators: its arguments are the words that no < or > precedes.
Simple(i, j) ==
    LET ws == WordsIn(i, j)
        files == {w \in ws : Operator(i, w) # {}}
        args == InOrder(ws \ files)
        spanned == UNION {w[1] .. w[2] - 1 : w \in ws} \cup UNION {Operator(i, w) : w \in ws}
    IN IF Text(i, j) = spanned /\ Len(args) < MAXARGS THEN Redirected(execcmd(args), i, files) ELSE Bad

\* A tree of type t from its parts, unless one of them is no command.
Both(t, l, r) == IF l = Bad \/ r = Bad THEN Bad ELSE [type |-> t, left |-> l, right |-> r]
InBack(c) == IF c = Bad THEN Bad ELSE backcmd(c)

RECURSIVE Line(_, _)
\* A list in parentheses and the redirections behind it.
Inside(inner, i, j) ==
    IF inner = Bad \/ Simple(i, j) = Bad \/ \E w \in WordsIn(i, j) : Operator(i, w) = {} THEN Bad
    ELSE Redirected(inner, i, WordsIn(i, j))
Block(open, j) ==
    LET closes == {p \in open + 1 .. j : line[p] = ")" /\ Nesting(p + 1) = Nesting(open)}
    IN IF closes = {} THEN Bad ELSE Inside(Line(open + 1, Min(closes) - 1), Min(closes) + 1, j)
Part(i, j) ==
    IF Text(i, j) # {} /\ line[Min(Text(i, j))] = "(" THEN Block(Min(Text(i, j)), j) ELSE Simple(i, j)
RECURSIVE Pipeline(_, _)
PipeAt(bars, i, j) ==
    IF bars = {} THEN Part(i, j) ELSE Both("PIPE", Part(i, Min(bars) - 1), Pipeline(Min(bars) + 1, j))
Pipeline(i, j) == PipeAt(Cuts("|", i, j), i, j)
RECURSIVE Background(_, _)
Background(i, j) ==
    IF Text(i, j) = {} \/ line[Max(Text(i, j))] # "&" THEN Pipeline(i, j)
    ELSE InBack(Background(i, Max(Text(i, j)) - 1))
ListAt(semis, i, j) ==
    IF semis = {} THEN Background(i, j) ELSE Both("LIST", Background(i, Min(semis) - 1), Line(Min(semis) + 1, j))
Line(i, j) == ListAt(Cuts(";", i, j), i, j)

\* parsecmd accepts the lines of the grammar and builds their tree: ; binds less
\* than &, & less than |, lists and pipes group to the right, parentheses override,
\* and redirections nest in the order in which they are written.
IsGrammar == cmd # NoCmd => cmd = Line(1, Len(line))

RECURSIVE Starts(_)
Starts(c) ==
    CASE c.type = "EXEC" -> {c.argv[i][1] : i \in DOMAIN c.argv}
      [] c.type = "REDIR" -> Starts(c.cmd) \cup {c.file[1]}
      [] c.type = "BACK" -> Starts(c.cmd)
      [] OTHER -> Starts(c.left) \cup Starts(c.right)
StringAt(i) == SubSeq(buf, i, Min({j \in i .. Len(buf) + 1 : At(buf, j) = NUL}) - 1)

\* In the buffer that nulterminate cut up, every string of the tree reads as its
\* word of the line: no terminator falls inside another word.
StringsAreWords ==
    cmd \notin {NoCmd, Bad} =>
        \A w \in WordsIn(1, Len(line)) : w[1] \in Starts(cmd) /\ StringAt(w[1]) = SubSeq(line, w[1], w[2] - 1)
============================================================================
