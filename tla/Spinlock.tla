------------------------------ MODULE Spinlock ------------------------------
(***************************************************************************)
(* Spinlocks, interrupt masking and the kernel threads that use them       *)
(* (spinlock.c, sched and scheduler of proc.c, the gate of trap.c).  A     *)
(* thread is a process in the kernel or the scheduler of a CPU.  It takes  *)
(* locks in their order, may be interrupted whenever the interrupt flag is *)
(* on, also halfway through acquire, and the interrupt handler takes locks *)
(* of its own.  A process that holds only ptable.lock may call sched and   *)
(* go on later on another CPU.                                             *)
(***************************************************************************)
EXTENDS Naturals, FiniteSets

CONSTANTS
    Cpus,       \* the CPUs; the scheduler thread of CPU c is c
    Procs,      \* processes
    Locks,      \* the locks, as numbers: taken in increasing order
    ptable      \* ptable.lock, the last in the order

Threads == Cpus \cup Procs
NoCpu == 0
NoLock == 0

\* What the constants have to satisfy.
SpinlockAssumption ==
    /\ Locks \subseteq Nat \ {0} /\ ptable \in Locks /\ \A l \in Locks : l <= ptable
    /\ Cpus \cap Procs = {} /\ NoCpu \notin Cpus

VARIABLES
    eflags,     \* eflags[c]: is FL_IF on?
    ncli,       \* ncli[c]: depth of pushcli
    intena,     \* intena[c]: was FL_IF on before pushcli?
    locked,     \* locked[l]: lk->locked
    cpu,        \* cpu[l]: lk->cpu
    run,        \* run[c]: the thread that runs on c
    th          \* th[t]: where t is, its locks, its saved flags

vars == <<eflags, ncli, intena, locked, cpu, run, th>>

\* at: the step of acquire or release t is in, and lk the lock; if: eflags as read
\* by pushcli; held: its locks; was: FL_IF before its first lock; saved: sched's
\* variable intena, empty before the first sched; intr: the step an interrupt
\* handler suspended, if one runs.
NewThread ==
    [at |-> "run", lk |-> NoLock, if |-> FALSE, held |-> {}, was |-> {}, saved |-> {}, intr |-> {}]

On(c, t, step) == run[c] = t /\ th[t].at = step
holding(c, l) == locked[l] /\ cpu[l] = c

\* acquire, first half of pushcli: eflags = readeflags().
acquire(c, t, l) ==
    /\ On(c, t, "run") /\ \A k \in th[t].held : k < l
    /\ th' = [th EXCEPT ![t].at = "pushcli", ![t].lk = l, ![t].if = eflags[c]]
    /\ UNCHANGED <<eflags, ncli, intena, locked, cpu, run>>

\* Mutant of pushcli: interrupts stay on.
pushcli_on(c, t) ==
    /\ On(c, t, "pushcli")
    /\ ncli' = [ncli EXCEPT ![c] = @ + 1]
    /\ intena' = IF ncli[c] = 0 THEN [intena EXCEPT ![c] = th[t].if] ELSE intena
    /\ th' = [th EXCEPT ![t].at = "spin", ![t].if = FALSE, ![t].was = IF th[t].held = {} THEN {th[t].if} ELSE @]
    /\ UNCHANGED <<eflags, locked, cpu, run>>

\* Second half of pushcli: cli(), and the first one remembers the flag.
pushcli(c, t) ==
    /\ On(c, t, "pushcli")
    /\ eflags' = [eflags EXCEPT ![c] = FALSE]
    /\ ncli' = [ncli EXCEPT ![c] = @ + 1]
    /\ intena' = IF ncli[c] = 0 THEN [intena EXCEPT ![c] = th[t].if] ELSE intena
    /\ th' = [th EXCEPT ![t].at = "spin", ![t].if = FALSE, ![t].was = IF th[t].held = {} THEN {th[t].if} ELSE @]
    /\ UNCHANGED <<locked, cpu, run>>

\* Mutant of xchg: the test and the set are two instructions, so both see 0.
xchg_split(c, t) ==
    /\ On(c, t, "spin") /\ ~holding(c, th[t].lk)
    /\ \A d \in Cpus : th[run[d]].lk = th[t].lk => th[run[d]].at \in {"spin", "got"}
    /\ \A u \in Threads : th[t].lk \notin th[u].held
    /\ locked' = [locked EXCEPT ![th[t].lk] = TRUE]
    /\ th' = [th EXCEPT ![t].at = "got"]
    /\ UNCHANGED <<eflags, ncli, intena, cpu, run>>

\* The xchg that succeeds; lk->cpu is set by a later instruction.
xchg(c, t) ==
    /\ On(c, t, "spin") /\ ~holding(c, th[t].lk) /\ ~locked[th[t].lk]
    /\ locked' = [locked EXCEPT ![th[t].lk] = TRUE]
    /\ th' = [th EXCEPT ![t].at = "got"]
    /\ UNCHANGED <<eflags, ncli, intena, cpu, run>>
acquired(c, t) ==
    /\ On(c, t, "got")
    /\ cpu' = [cpu EXCEPT ![th[t].lk] = c]
    /\ th' = [th EXCEPT ![t].at = "run", ![t].lk = NoLock, ![t].held = @ \cup {th[t].lk}]
    /\ UNCHANGED <<eflags, ncli, intena, locked, run>>

\* Mutant of release: lk->cpu keeps its value.
release_named(c, t, l) ==
    /\ On(c, t, "run") /\ l \in th[t].held
    /\ th' = [th EXCEPT ![t].at = "unlock", ![t].lk = l]
    /\ UNCHANGED <<eflags, ncli, intena, locked, cpu, run>>

\* release: lk->cpu = 0, then xchg(&lk->locked, 0), then popcli.
release(c, t, l) ==
    /\ On(c, t, "run") /\ l \in th[t].held
    /\ cpu' = [cpu EXCEPT ![l] = NoCpu]
    /\ th' = [th EXCEPT ![t].at = "unlock", ![t].lk = l]
    /\ UNCHANGED <<eflags, ncli, intena, locked, run>>
unlock(c, t) ==
    /\ On(c, t, "unlock")
    /\ locked' = [locked EXCEPT ![th[t].lk] = FALSE]
    /\ th' = [th EXCEPT ![t].at = "popcli", ![t].held = @ \ {th[t].lk}]
    /\ UNCHANGED <<eflags, ncli, intena, cpu, run>>
popcli(c, t) ==
    /\ On(c, t, "popcli")
    /\ ncli' = [ncli EXCEPT ![c] = @ - 1]
    /\ eflags' = [eflags EXCEPT ![c] = @ \/ (ncli[c] = 1 /\ intena[c])]
    /\ th' = [th EXCEPT ![t].at = "run", ![t].lk = NoLock, ![t].was = IF th[t].held = {} THEN {} ELSE @]
    /\ UNCHANGED <<intena, locked, cpu, run>>

\* An interrupt: the gate turns FL_IF off; the handler is the thread itself, which
\* remembers the step it was at.
interrupt(c, t) ==
    /\ run[c] = t /\ eflags[c] /\ th[t].intr = {}
    /\ eflags' = [eflags EXCEPT ![c] = FALSE]
    /\ th' = [th EXCEPT ![t].at = "run", ![t].lk = NoLock,
                        ![t].intr = {[at |-> th[t].at, lk |-> th[t].lk, if |-> th[t].if]}]
    /\ UNCHANGED <<ncli, intena, locked, cpu, run>>
iret(c, t) ==
    /\ On(c, t, "run") /\ th[t].held = {}
    /\ \E s \in th[t].intr :
           th' = [th EXCEPT ![t].at = s.at, ![t].lk = s.lk, ![t].if = s.if, ![t].intr = {}]
    /\ eflags' = [eflags EXCEPT ![c] = TRUE]
    /\ UNCHANGED <<ncli, intena, locked, cpu, run>>

\* Mutant of Resumed: sched does not put back its thread's intena.
Resumed_not(c, t) == UNCHANGED intena

\* The end of sched, back on a CPU: cpu->intena = intena.  A new process starts in
\* forkret instead, which does not touch it.
Resumed(c, t) ==
    intena' = [intena EXCEPT ![c] = IF th[t].saved = {} THEN @ ELSE TRUE \in th[t].saved]

\* sched: save intena and swtch to the scheduler, which goes on with ptable.lock.
sched(c, t) ==
    /\ t \in Procs /\ On(c, t, "run") /\ th[t].held = {ptable}
    /\ run' = [run EXCEPT ![c] = c]
    /\ th' = [th EXCEPT ![t].saved = {intena[c]}, ![t].held = {}, ![c].held = {ptable}]
    /\ UNCHANGED <<eflags, ncli, intena, locked, cpu>>

\* Interrupts go on where scheduler says sti() and where a process returns to user
\* space, with its trap frame's flags.
sti(c, t) ==
    /\ On(c, t, "run") /\ th[t].held = {} /\ th[t].intr = {} /\ ~eflags[c]
    /\ eflags' = [eflags EXCEPT ![c] = TRUE]
    /\ UNCHANGED <<ncli, intena, locked, cpu, run, th>>

\* scheduler, with ptable.lock and in no handler: swtch to a process that is on no CPU.
swtch(c, t) ==
    /\ t \in Procs /\ On(c, c, "run") /\ th[c].held = {ptable} /\ th[c].intr = {}
    /\ \A d \in Cpus : run[d] # t
    /\ run' = [run EXCEPT ![c] = t]
    /\ th' = [th EXCEPT ![c].held = {}, ![t].held = {ptable}]
    /\ Resumed(c, t)
    /\ UNCHANGED <<eflags, ncli, locked, cpu>>

\* The CPUs enter scheduler with interrupts off; the processes have never run.
Init ==
    /\ eflags = [c \in Cpus |-> FALSE] /\ ncli = [c \in Cpus |-> 0]
    /\ intena = [c \in Cpus |-> FALSE]
    /\ locked = [l \in Locks |-> FALSE] /\ cpu = [l \in Locks |-> NoCpu]
    /\ run = [c \in Cpus |-> c] /\ th = [t \in Threads |-> NewThread]

\* scheduler takes no lock but ptable.lock, outside of handlers.
LocksOf(t) == IF t \in Cpus /\ th[t].intr = {} THEN {ptable} ELSE Locks
Step(c, t) ==
    \/ \E l \in LocksOf(t) : acquire(c, t, l)
    \/ \E l \in th[t].held : release(c, t, l)
    \/ pushcli(c, t) \/ xchg(c, t) \/ acquired(c, t) \/ unlock(c, t) \/ popcli(c, t)
    \/ interrupt(c, t) \/ iret(c, t) \/ sti(c, t) \/ sched(c, t) \/ swtch(c, t)
Next == \E c \in Cpus, t \in Threads : Step(c, t)
Spec == Init /\ [][Next]_vars

-----------------------------------------------------------------------------
(* Properties *)

\* A lock has one holder, even though a process may take it on one CPU and release
\* it on another.
MutualExclusion ==
    \A l \in Locks : Cardinality({t \in Threads : l \in th[t].held \/ (th[t].lk = l /\ th[t].at = "got")})
        = IF locked[l] THEN 1 ELSE 0

\* No CPU takes interrupts while it holds a lock or waits for one: a handler
\* can never spin on a lock of the code it interrupted ("disable interrupts to
\* avoid deadlock", acquire).
LockedMeansMasked ==
    \A c \in Cpus : th[run[c]].held # {} \/ th[run[c]].at \in {"spin", "got", "unlock", "popcli"}
        => ~eflags[c] /\ ncli[c] > 0

\* The panics of acquire, release, popcli and sched are out of reach: lk->cpu never
\* makes a CPU believe it holds a lock that is another's, nor forget one it holds.
NoPanic ==
    \A c \in Cpus :
        LET t == th[run[c]]
        IN /\ t.at = "spin" => ~holding(c, t.lk)
           /\ t.at = "run" => \A l \in t.held : holding(c, l)
           /\ t.at = "popcli" => ~eflags[c] /\ ncli[c] > 0
           /\ t.at = "run" /\ t.held = {ptable} => ncli[c] = 1 /\ ~eflags[c]

\* Matched pushcli and popcli: when a process gives up its last lock, interrupts are
\* as they were before its first one, on whatever CPU it runs by then.
FlagRestored ==
    \A c \in Cpus, t \in Procs :
        On(c, t, "popcli") /\ th'[t].at = "run" /\ th[t].held = {} /\ run'[c] = t
            => th[t].was \subseteq {eflags'[c]}

\* A critical section is left alone: its lock has one holder, no interrupt comes on the
\* CPU that holds a lock or waits for one, and no panic of acquire, release, popcli or
\* sched is in reach.  Afterwards interrupts are as they were, on whatever CPU.
Exclusive == [](MutualExclusion /\ LockedMeansMasked /\ NoPanic) /\ [][FlagRestored]_vars
=============================================================================
