------------------------------- MODULE Ticks --------------------------------
(***************************************************************************)
(* The clock and sys_sleep (trap.c, sysproc.c): ticks is an unsigned       *)
(* counter that goes round, a sleeper compares the ticks gone by with its  *)
(* argument, and kill, which does not take tickslock, may come between its *)
(* test of killed and its sleep.                                           *)
(***************************************************************************)
EXTENDS Naturals

CONSTANTS
    Procs, Null,
    Word        \* the number of values of an unsigned int

\* What the constants have to satisfy.
TicksAssumption == Null \notin Procs /\ Word \in Nat \ {0, 1}

VARIABLES
    ticks, tickslock,   \* the counter and the holder of its lock
    c,                  \* each process: where it is, its n and its ticks0
    killed,             \* proc->killed
    gone, since         \* history: ticks since the call and since the kill

vars == <<ticks, tickslock, c, killed, gone, since>>
history == <<gone, since>>

At(p, place) == c[p].at = place
Go(p, place) == c' = [c EXCEPT ![p].at = place]
Woken(ps) == [p \in Procs |-> IF p \in ps /\ At(p, "asleep") THEN [c[p] EXCEPT !.at = "woken"] ELSE c[p]]
InCall(p) == c[p].at \notin {"user", "exited"}
\* The histories count up to Word.
Count(h, ps) == [p \in Procs |-> IF p \in ps /\ h[p] < Word THEN h[p] + 1 ELSE h[p]]

\* Mutant of Over: the end of the sleep is computed and compared.
Over_end(p) == ticks >= (c[p].ticks0 + c[p].n) % Word

\* ~(ticks - ticks0 < n), in unsigned arithmetic (n is converted).
Over(p) == (ticks + Word - c[p].ticks0) % Word >= c[p].n

\* Mutant of timer: the sleepers are not woken.
timer_quiet ==
    /\ tickslock = Null /\ \A p \in Procs : At(p, "woken") => gone[p] < Word - 1
    /\ ticks' = (ticks + 1) % Word
    /\ gone' = Count(gone, {p \in Procs : InCall(p)})
    /\ UNCHANGED <<tickslock, c, killed, since>>

\* trap: the clock interrupt on CPU 0.
\* Bound: a process that was woken runs again before the counter goes round.
timer ==
    /\ tickslock = Null /\ \A p \in Procs : At(p, "woken") => gone[p] < Word - 1
    /\ ticks' = (ticks + 1) % Word /\ c' = Woken(Procs)
    /\ gone' = Count(gone, {p \in Procs : InCall(p)})
    /\ since' = Count(since, {p \in Procs : InCall(p) /\ killed[p]})
    /\ UNCHANGED <<tickslock, killed>>

sys_sleep(p, n) ==
    /\ At(p, "user") /\ ~killed[p] /\ tickslock = Null
    /\ tickslock' = p /\ c' = [c EXCEPT ![p] = [at |-> "test", n |-> n, ticks0 |-> ticks]]
    /\ gone' = [gone EXCEPT ![p] = 0] /\ UNCHANGED <<ticks, killed, since>>

\* Mutant of sleep_test: killed is not looked at.
sleep_test_deaf(p) ==
    /\ At(p, "test")
    /\ IF Over(p) THEN Go(p, IF killed[p] THEN "exited" ELSE "user") /\ tickslock' = Null
       ELSE Go(p, "sleep") /\ UNCHANGED tickslock
    /\ UNCHANGED <<ticks, killed, history>>

\* The loop of sys_sleep; on the way out trap makes a killed process exit.
sleep_test(p) ==
    /\ At(p, "test")
    /\ IF Over(p) \/ killed[p] THEN Go(p, IF killed[p] THEN "exited" ELSE "user") /\ tickslock' = Null
       ELSE Go(p, "sleep") /\ UNCHANGED tickslock
    /\ UNCHANGED <<ticks, killed, history>>

\* sleep, which gives up tickslock, and takes it again once woken.
sleep(p) ==
    /\ At(p, "sleep") /\ Go(p, "asleep") /\ tickslock' = Null /\ UNCHANGED <<ticks, killed, history>>
sleep_again(p) ==
    /\ At(p, "woken") /\ tickslock = Null
    /\ Go(p, "test") /\ tickslock' = p /\ UNCHANGED <<ticks, killed, history>>

\* kill, of a process that is in its call.
kill(p) ==
    /\ InCall(p) /\ ~killed[p]
    /\ killed' = [killed EXCEPT ![p] = TRUE] /\ since' = [since EXCEPT ![p] = 0]
    /\ c' = Woken({p}) /\ UNCHANGED <<ticks, tickslock, gone>>

Init ==
    /\ ticks = 0 /\ tickslock = Null /\ killed = [p \in Procs |-> FALSE]
    /\ c = [p \in Procs |-> [at |-> "user", n |-> 0, ticks0 |-> 0]]
    /\ gone = [p \in Procs |-> 0] /\ since = [p \in Procs |-> 0]
Step(p) == sleep_test(p) \/ sleep(p) \/ sleep_again(p)
Next == timer \/ \E p \in Procs : Step(p) \/ kill(p) \/ \E n \in 0 .. Word - 1 : sys_sleep(p, n)
Spec == Init /\ [][Next]_vars

-----------------------------------------------------------------------------
(* Properties *)

\* sys_sleep(n) returns 0 exactly when it is due: not before n ticks have gone
\* by, even if the counter went round in between, and not in a test that comes
\* after them (a negative n is the unsigned number it converts to).
ReturnsWhenDue ==
    \A p \in Procs : At(p, "test") /\ ~killed[p] /\ c'[p].at # "test" => (c'[p].at = "user") = (gone[p] >= c[p].n)

\* A killed process does not sleep through a tick: when kill comes between the
\* test of killed and the sleep, it finds nobody to wake, but the clock does.
KillSeen == \A p \in Procs : killed[p] /\ At(p, "asleep") => since[p] = 0

\* Every sleep ends.
SleepEnds == \A p \in Procs : InCall(p) ~> ~InCall(p)
=============================================================================
