------------------------------- MODULE Console -------------------------------
(***************************************************************************)
(* Console input (console.c): consoleintr puts what is typed into a ring   *)
(* with three free-running indices, consoleread takes it out.  input.lock  *)
(* is a variable because consoleread copies a character at a time under    *)
(* it; consoleintr is atomic for each character.  The lock of the console  *)
(* inode, given up during the read, plays no part here.                    *)
(***************************************************************************)
EXTENDS Integers, Sequences, FiniteSets

CONSTANTS
    Procs,      \* processes that read the console
    Letters,    \* ordinary characters
    INPUT_BUF,  \* size of the ring
    Word,       \* number of values of a uint, a multiple of INPUT_BUF
    MaxRead,    \* largest count passed to read
    NoOne       \* not a process

\* What the constants have to satisfy.
ConsoleAssumption ==
    /\ INPUT_BUF \in Nat \ {0} /\ Word \in Nat /\ Word > INPUT_BUF /\ Word % INPUT_BUF = 0
    /\ NoOne \notin Procs

VARIABLES
    buf,        \* input.buf
    r, w, e,    \* input.r, input.w, input.e
    lock,       \* the process that holds input.lock, or NoOne
    place,      \* place[p]: where p is in consoleread
    n,          \* n[p]: characters p still wants
    copied,     \* copied[p]: characters p has got in this call
    killed,     \* killed[p]: proc->killed
    result      \* the last call that returned: its process, count and reason

ring == <<buf, r, w, e>>
vars == <<ring, lock, place, n, copied, killed, result>>

NL == "newline"
EOT == "ctrl_d"
Chars == Letters \cup {NL, EOT}
Keys == Chars \cup {"return", "ctrl_u", "backspace"}
None == [by |-> NoOne, count |-> 0, why |-> "none"]

Plus(i, d) == (i + d) % Word
Minus(i, j) == (i - j) % Word
At(i) == buf[i % INPUT_BUF]

\* Mutant of Wakeup: the readers are not woken.
Wakeup_not == place

\* wakeup(&input.r)
Wakeup == [p \in Procs |-> IF place[p] = "sleep" THEN "woken" ELSE place[p]]

\* ^U: back to the start of the line, or to a newline before it.
KillLine ==
    LET Stop(d) == Minus(e, d) = w \/ At(Minus(e, d + 1)) = NL
    IN e' = Minus(e, CHOOSE d \in 0..INPUT_BUF : Stop(d) /\ \A c \in 0..d - 1 : ~Stop(c))

Room == Minus(e, r) < INPUT_BUF

\* A newline, ^D or a full ring hands the line over to the readers.
Completes(c) == c \in {NL, EOT} \/ Plus(e, 1) = Plus(r, INPUT_BUF)

\* Mutant of Store: the character is stored at the start of the line.
Store_start(c) ==
    /\ buf' = [buf EXCEPT ![w % INPUT_BUF] = c]
    /\ e' = Plus(e, 1)
    /\ IF Completes(c) THEN w' = e' /\ place' = Wakeup ELSE UNCHANGED <<w, place>>
    /\ UNCHANGED r

\* A character goes into the ring.
Store(c) ==
    /\ buf' = [buf EXCEPT ![e % INPUT_BUF] = c]
    /\ e' = Plus(e, 1)
    /\ IF Completes(c)
       THEN w' = e' /\ place' = Wakeup
       ELSE UNCHANGED <<w, place>>
    /\ UNCHANGED r

\* One character through consoleintr's loop.
consoleintr(k) ==
    /\ lock = NoOne
    /\ \/ k = "ctrl_u" /\ KillLine /\ UNCHANGED <<buf, r, w, place>>
       \/ k = "backspace" /\ e # w /\ e' = Minus(e, 1) /\ UNCHANGED <<buf, r, w, place>>
       \/ k \in Chars \cup {"return"} /\ Room /\ Store(IF k = "return" THEN NL ELSE k)
    /\ UNCHANGED <<lock, n, copied, killed, result>>

consoleread(p, count) ==
    /\ place[p] = "user" /\ ~killed[p] /\ lock = NoOne
    /\ lock' = p
    /\ place' = [place EXCEPT ![p] = "copy"]
    /\ n' = [n EXCEPT ![p] = count]
    /\ UNCHANGED <<ring, copied, killed, result>>

\* The call returns; the variables of the call are reset.
Return(p, count, why) ==
    /\ lock' = NoOne
    /\ place' = [place EXCEPT ![p] = "user"]
    /\ n' = [n EXCEPT ![p] = 0] /\ copied' = [copied EXCEPT ![p] = 0]
    /\ result' = [by |-> p, count |-> count, why |-> why]

\* Nothing to read: return -1 if killed, else sleep on &input.r.
read_killed(p) ==
    /\ place[p] = "copy" /\ r = w /\ killed[p]
    /\ Return(p, -1, "killed")
    /\ UNCHANGED <<ring, killed>>
read_empty(p) ==
    /\ place[p] = "copy" /\ r = w /\ ~killed[p]
    /\ place' = [place EXCEPT ![p] = "tested"]
    /\ UNCHANGED <<ring, lock, n, copied, killed, result>>
read_sleep(p) ==
    /\ place[p] = "tested"
    /\ place' = [place EXCEPT ![p] = "sleep"]
    /\ lock' = NoOne
    /\ UNCHANGED <<ring, n, copied, killed, result>>
read_woken(p) ==
    /\ place[p] = "woken" /\ lock = NoOne
    /\ place' = [place EXCEPT ![p] = "copy"]
    /\ lock' = p
    /\ UNCHANGED <<ring, n, copied, killed, result>>

\* Mutant of read_eof: ^D is consumed even when the call has read something.
read_eof_taken(p) ==
    /\ place[p] = "copy" /\ r # w /\ At(r) = EOT
    /\ r' = Plus(r, 1)
    /\ Return(p, copied[p], "eof")
    /\ UNCHANGED <<buf, w, e, killed>>

\* ^D ends the call.  It stays in the ring when the call has read something, so
\* that the next call returns 0.
read_eof(p) ==
    /\ place[p] = "copy" /\ r # w /\ At(r) = EOT
    /\ r' = IF copied[p] = 0 THEN Plus(r, 1) ELSE r
    /\ Return(p, copied[p], "eof")
    /\ UNCHANGED <<buf, w, e, killed>>

read_char(p) ==
    /\ place[p] = "copy" /\ r # w /\ At(r) # EOT
    /\ r' = Plus(r, 1)
    /\ IF n[p] = 1 \/ At(r) = NL
       THEN Return(p, copied[p] + 1, "line")
       ELSE /\ n' = [n EXCEPT ![p] = @ - 1] /\ copied' = [copied EXCEPT ![p] = @ + 1]
            /\ UNCHANGED <<lock, place, result>>
    /\ UNCHANGED <<buf, w, e, killed>>

\* kill takes only ptable.lock: it marks the process and wakes it if it sleeps.
kill(p) ==
    /\ place[p] # "user" /\ ~killed[p]
    /\ killed' = [killed EXCEPT ![p] = TRUE]
    /\ place' = [place EXCEPT ![p] = IF @ = "sleep" THEN "woken" ELSE @]
    /\ UNCHANGED <<ring, lock, n, copied, result>>

Init ==
    /\ buf = [i \in 0..INPUT_BUF - 1 |-> "nul"] /\ r = 0 /\ w = 0 /\ e = 0
    /\ lock = NoOne /\ place = [p \in Procs |-> "user"]
    /\ n = [p \in Procs |-> 0] /\ copied = [p \in Procs |-> 0]
    /\ killed = [p \in Procs |-> FALSE] /\ result = None

Reader(p) ==
    \/ read_killed(p) \/ read_empty(p) \/ read_sleep(p) \/ read_woken(p)
    \/ read_eof(p) \/ read_char(p)
Next ==
    \/ \E k \in Keys : consoleintr(k)
    \/ \E p \in Procs : Reader(p) \/ kill(p) \/ \E count \in 1..MaxRead : consoleread(p, count)

Spec == Init /\ [][Next]_vars

------------------------------------------------------------------------------
(* Properties *)

Span(i, j) == [k \in 1..Minus(j, i) |-> At(Plus(i, k - 1))]
ready == Span(r, w)
line == Span(w, e)

Abstract == INSTANCE LineQueue

\* Across wrap-around of the ring and of the indices, editing touches only the
\* line being typed, and complete input reaches the readers once and in order.
IsLineQueue == Abstract!Spec

\* A reader sleeps only while there is nothing to read: no wakeup is lost between
\* the test under input.lock and the sleep.
SleeperHasReason == \A p \in Procs : place[p] = "sleep" => r = w

\* Each ^D typed makes exactly one call return 0: a call that has characters
\* leaves the ^D in the ring, a call that has none consumes it.
EofOnce ==
    \A p \in Procs : place[p] = "copy" /\ place'[p] = "user" /\ result'.why = "eof"
        => (result'.count = 0 <=> r' = Plus(r, 1)) /\ (result'.count > 0 <=> r' = r)

HasLine == \E i \in 1..Len(ready) : ready[i] \in {NL, EOT}

\* A reader returns once a complete line waits for it, unless another takes it.
LineReturns == \A p \in Procs : (place[p] # "user" /\ HasLine) ~> (place[p] = "user" \/ ~HasLine)
==============================================================================
