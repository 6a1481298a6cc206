-------------------------------- MODULE Proc --------------------------------
(***************************************************************************)
(* The process table and the multilevel feedback scheduler of proc.c, with *)
(* the parts of trap.c and sysproc.c that drive them.  ptable.lock, the    *)
(* CPUs, and the linked run queues are explicit.                           *)
(*                                                                         *)
(* A critical section of ptable.lock that ends with its release is one     *)
(* action (it needs the lock to be free).  One that ends in sched() leaves *)
(* the lock with the CPU, which goes on in scheduler(), as in the code.    *)
(* What the code does to the table without the lock is an action of its    *)
(* own: allocproc's and fork's error paths, fork's writes to the child,    *)
(* set_priority, and the reads of proc->killed in trap().                  *)
(***************************************************************************)
EXTENDS Integers, Sequences, FiniteSets

CONSTANTS
  NPROC,         \* slots of the process table (param.h)
  CPUs,          \* the processors
  NoCpu,         \* not a processor
  MLF_LEVELS,    \* priority levels
  MAX_QUANTUM,   \* timer ticks a process runs before it yields
  Chans,         \* sleep channels other than the processes themselves
  PriorityArgs,  \* what user programs pass to set_priority
  KillArgs,      \* what user programs pass to kill
  MaxPid         \* bound: no fork once nextpid has passed it

Procs == 1 .. NPROC
Levels == 0 .. MLF_LEVELS - 1
Null == 0
Initproc == 1

ASSUME ProcAssumption ==
  /\ NPROC \in Nat \ {0}
  /\ MLF_LEVELS \in Nat \ {0}
  /\ MAX_QUANTUM \in Nat \ {0}
  /\ MaxPid \in Nat
  /\ NoCpu \notin CPUs
  /\ Chans \subseteq Nat /\ Chans \cap (0 .. NPROC) = {}
  /\ PriorityArgs \subseteq Levels
  /\ KillArgs \subseteq Int

VARIABLES
  state, pid, parent, chan, killed, level, quantum,  \* struct proc
  next,                      \* struct proc: link to the next queued process
  first, last, size,         \* struct queue, one per level
  ptsize,                    \* ptable.size
  nextpid,
  lock,                      \* the CPU that holds ptable.lock, or NoCpu
  mode, proc, indice,        \* CPU: where it is, the process it runs, its level
  waking,                    \* channel of the wakeup in progress, or Null
  ctx,                       \* process: the kernel context it is in
  sw,                        \* process: the caller of sched it returns to
  child,                     \* process: the slot its fork is filling, or Null
  panic,                     \* "none", or the panic that stopped the machine
  order                      \* auxiliary: the queues as sequences (never read)

queues == <<next, first, last, size, ptsize, order>>
cpus == <<mode, proc, indice>>
flow == <<ctx, sw, child>>
vars == <<state, pid, parent, chan, killed, level, quantum, queues, nextpid,
          lock, cpus, waking, flow, panic>>

States == {"UNUSED", "EMBRYO", "SLEEPING", "RUNNABLE", "RUNNING", "ZOMBIE"}
\* "idle": scheduler() before acquire; "run": in a process; "sched": back in
\* scheduler() from the process, with the lock.
Modes == {"idle", "run", "sched"}
\* "kern" is any system call; "exiting" is exit() before it takes the lock;
\* "reparent", "zombie" and "wait" hold the lock.
Contexts == {"user", "kern", "fork", "forked", "exiting", "reparent", "zombie", "wait"}
Interruptible == {"user", "kern", "fork", "forked", "exiting"}
Panics == {"none", "init exiting", "not RUNNABLE"}

TypeOK ==
  /\ state \in [Procs -> States]
  /\ pid \in [Procs -> Nat]
  /\ parent \in [Procs -> Procs \cup {Null}]
  /\ chan \in [Procs -> Chans \cup Procs \cup {Null}]
  /\ killed \in [Procs -> BOOLEAN]
  /\ level \in [Procs -> Levels]
  /\ quantum \in [Procs -> 0 .. MAX_QUANTUM]
  /\ next \in [Procs -> Procs \cup {Null}]
  /\ first \in [Levels -> Procs \cup {Null}]
  /\ last \in [Levels -> Procs \cup {Null}]
  /\ size \in [Levels -> Int]
  /\ ptsize \in Int
  /\ nextpid \in Nat
  /\ lock \in CPUs \cup {NoCpu}
  /\ mode \in [CPUs -> Modes]
  /\ proc \in [CPUs -> Procs \cup {Null}]
  /\ indice \in [CPUs -> Levels]
  /\ waking \in Chans \cup {Null}
  /\ ctx \in [Procs -> Contexts]
  /\ sw \in [Procs -> {"none", "yield", "sleep", "wait", "new"}]
  /\ child \in [Procs -> Procs \cup {Null}]
  /\ panic \in Panics
  /\ order \in [Levels -> Seq(Procs)]

-----------------------------------------------------------------------------
(* The run queues *)

up(p) == IF level[p] > 0 THEN level[p] - 1 ELSE level[p]

down(p) == IF level[p] < MLF_LEVELS - 1 THEN level[p] + 1 ELSE level[p]

\* Mutant of encolar: the last process is not linked to the new one.
encolar_unlinked(p, l) ==
  /\ ptsize' = ptsize + 1
  /\ size' = [size EXCEPT ![l] = @ + 1]
  /\ last' = [last EXCEPT ![l] = p]
  /\ level' = [level EXCEPT ![p] = l]
  /\ order' = [order EXCEPT ![l] = Append(@, p)]
  /\ first' = [first EXCEPT ![l] = IF @ = Null THEN p ELSE @]
  /\ UNCHANGED next

\* Mutant of encolar: the new process goes to the front of the level.
encolar_front(p, l) ==
  /\ ptsize' = ptsize + 1
  /\ size' = [size EXCEPT ![l] = @ + 1]
  /\ last' = [last EXCEPT ![l] = IF @ = Null THEN p ELSE @]
  /\ level' = [level EXCEPT ![p] = l]
  /\ order' = [order EXCEPT ![l] = <<p>> \o @]
  /\ first' = [first EXCEPT ![l] = p]
  /\ next' = [next EXCEPT ![p] = first[l]]

encolar(p, l) ==
  /\ ptsize' = ptsize + 1
  /\ size' = [size EXCEPT ![l] = @ + 1]
  /\ last' = [last EXCEPT ![l] = p]
  /\ level' = [level EXCEPT ![p] = l]
  /\ order' = [order EXCEPT ![l] = Append(@, p)]
  /\ \/ /\ first[l] = Null
        /\ first' = [first EXCEPT ![l] = p]
        /\ UNCHANGED next
     \/ /\ first[l] # Null
        /\ next' = [next EXCEPT ![last[l]] = p]
        /\ UNCHANGED first

\* p is the first of its level.  The code compares pids, not pointers.
desencolar(p) ==
  LET l == level[p] IN
  /\ ptsize' = ptsize - 1
  /\ size' = [size EXCEPT ![l] = @ - 1]
  /\ order' = [order EXCEPT ![l] = Tail(@)]
  /\ UNCHANGED <<next, level>>
  /\ \/ /\ pid[last[l]] = pid[first[l]]
        /\ last' = [last EXCEPT ![l] = Null]
        /\ first' = [first EXCEPT ![l] = Null]
     \/ /\ pid[last[l]] # pid[first[l]]
        /\ first' = [first EXCEPT ![l] = next[p]]
        /\ UNCHANGED last

make_runnable(p, l) ==
  /\ encolar(p, l)
  /\ state' = [state EXCEPT ![p] = "RUNNABLE"]

make_running(p) ==
  /\ desencolar(p)
  /\ state' = [state EXCEPT ![p] = "RUNNING"]

-----------------------------------------------------------------------------
(* The scheduler of CPU c *)

acquire(c) == lock = NoCpu /\ lock' = c

\* The process p on c calls sched(), to return to the caller named by from.
sched(c, p, from) ==
  /\ mode' = [mode EXCEPT ![c] = "sched"]
  /\ sw' = [sw EXCEPT ![p] = from]
  /\ UNCHANGED <<proc, indice>>

\* Mutant of MustExit: the privilege test is the wrong way round.
MustExit_kernel(p, x) == killed[p] /\ x # "user"

\* trap(): a process that was interrupted in context x and has been killed.
MustExit(p, x) == killed[p] /\ x = "user"

\* Mutant of Toward: proc->killed is not looked at.
Toward_unchecked(p, x) == x

\* trap() sends a killed process to exit() before it gets to context x.
Toward(p, x) == IF killed[p] THEN "exiting" ELSE x

\* p is back from swtch: the tails of yield (and trap.c:116), forkret and
\* sleep.  sleep() called by wait() keeps ptable.lock.
Resume(c, p) ==
  /\ sw' = [sw EXCEPT ![p] = "none"]
  /\ chan' = [chan EXCEPT ![p] = IF sw[p] \in {"sleep", "wait"} THEN Null ELSE @]
  /\ lock' = IF sw[p] = "wait" THEN c ELSE NoCpu
  /\ ctx' = [ctx EXCEPT ![p] = CASE sw[p] = "wait" -> "wait"
                                 [] sw[p] = "yield" /\ MustExit(p, @) -> "exiting"
                                 [] OTHER -> @]

\* The levels scheduler() has still to visit that are not empty.  indice is a
\* local of scheduler() and survives the swtch: it starts from 0 only after
\* the loop has found every level from its own on empty.
Pending(c) == {l \in Levels : l >= indice[c] /\ first[l] # Null}

\* scheduler() holds the lock: just acquired, or back from the swtch.
InLoop(c) == (mode[c] = "idle" /\ lock = NoCpu) \/ (mode[c] = "sched" /\ lock = c)

\* The first of S that a loop upwards meets; none when S is empty.
FirstOf(S) == {p \in S : \A q \in S : p <= q}

Schedule(c) ==
  /\ InLoop(c)
  /\ \E l \in FirstOf(Pending(c)) :
       LET p == first[l] IN
       /\ indice' = [indice EXCEPT ![c] = l]
       /\ IF state[p] # "RUNNABLE"
            THEN /\ panic' = "not RUNNABLE"
                 /\ UNCHANGED <<queues, level, state, proc, mode, quantum, lock, chan, ctx, sw>>
            ELSE /\ proc' = [proc EXCEPT ![c] = p]
                 /\ make_running(p)
                 /\ quantum' = [quantum EXCEPT ![p] = 0]
                 /\ mode' = [mode EXCEPT ![c] = "run"]
                 /\ Resume(c, p)
                 /\ UNCHANGED panic
  /\ UNCHANGED <<pid, parent, killed, nextpid, waking, child>>

\* No process left to run: the lock is released and the round starts again.
ScheduleRest(c) ==
  /\ mode[c] = "sched" /\ Pending(c) = {}
  /\ lock' = NoCpu
  /\ proc' = [proc EXCEPT ![c] = Null]
  /\ indice' = [indice EXCEPT ![c] = 0]
  /\ mode' = [mode EXCEPT ![c] = "idle"]
  /\ UNCHANGED <<state, pid, parent, chan, killed, level, quantum, queues,
                 nextpid, waking, flow, panic>>

-----------------------------------------------------------------------------
(* The process CPU c runs *)

\* The process on c executes in context x, and c is not inside a wakeup.
RunsIn(c, x) == mode[c] = "run" /\ ctx[proc[c]] = x /\ (waking = Null \/ lock # c)

\* Timer interrupt while a process runs: the killed test comes first.
Timer(c) ==
  LET p == proc[c] IN
  /\ mode[c] = "run" /\ ctx[p] \in Interruptible /\ lock # c
  /\ \/ /\ MustExit(p, ctx[p])
        /\ ctx' = [ctx EXCEPT ![p] = "exiting"]
        /\ UNCHANGED <<quantum, queues, level, state, lock, cpus, sw>>
     \/ /\ ~MustExit(p, ctx[p])
        /\ quantum[p] + 1 # MAX_QUANTUM
        /\ quantum' = [quantum EXCEPT ![p] = @ + 1]
        /\ UNCHANGED <<ctx, queues, level, state, lock, cpus, sw>>
     \/ /\ ~MustExit(p, ctx[p])
        /\ quantum[p] + 1 = MAX_QUANTUM
        /\ quantum' = [quantum EXCEPT ![p] = @ + 1]
        /\ acquire(c)
        /\ make_runnable(p, down(p))
        /\ sched(c, p, "yield")
        /\ UNCHANGED ctx
  /\ UNCHANGED <<pid, parent, chan, killed, nextpid, waking, child, panic>>

\* A trap from user space: system call entry, or a fault, which kills.
Syscall(c) ==
  LET p == proc[c] IN
  /\ RunsIn(c, "user")
  /\ ctx' = [ctx EXCEPT ![p] = Toward(p, "kern")]
  /\ UNCHANGED <<state, pid, parent, chan, killed, level, quantum, queues,
                 nextpid, lock, cpus, waking, sw, child, panic>>

Fault(c) ==
  LET p == proc[c] IN
  /\ RunsIn(c, "user")
  /\ killed' = [killed EXCEPT ![p] = TRUE]
  /\ ctx' = [ctx EXCEPT ![p] = "exiting"]
  /\ UNCHANGED <<state, pid, parent, chan, level, quantum, queues,
                 nextpid, lock, cpus, waking, sw, child, panic>>

SyscallReturn(c) ==
  LET p == proc[c] IN
  /\ RunsIn(c, "kern")
  /\ ctx' = [ctx EXCEPT ![p] = Toward(p, "user")]
  /\ UNCHANGED <<state, pid, parent, chan, killed, level, quantum, queues,
                 nextpid, lock, cpus, waking, sw, child, panic>>

set_priority(c, x) ==
  LET p == proc[c] IN
  /\ RunsIn(c, "kern")
  /\ level' = [level EXCEPT ![p] = x]
  /\ UNCHANGED <<state, pid, parent, chan, killed, quantum, queues,
                 nextpid, lock, cpus, waking, flow, panic>>

\* sleep(ch, lk) with a lock other than ptable.lock.  exit() sleeps as well,
\* in fileclose and iput.
sleep(c, ch) ==
  LET p == proc[c] IN
  /\ RunsIn(c, "kern") \/ (RunsIn(c, "exiting") /\ p # Initproc)
  /\ acquire(c)
  /\ chan' = [chan EXCEPT ![p] = ch]
  /\ state' = [state EXCEPT ![p] = "SLEEPING"]
  /\ sched(c, p, "sleep")
  /\ UNCHANGED <<pid, parent, killed, level, quantum, queues, nextpid,
                 waking, ctx, child, panic>>

\* Mutant of Sleepers: wakeup1 compares only the channel.
Sleepers_anystate(ch) == {p \in Procs : chan[p] = ch}

Sleepers(ch) == {p \in Procs : state[p] = "SLEEPING" /\ chan[p] = ch}

\* wakeup(ch), by the process on c or by an interrupt on c: the loop of
\* wakeup1 goes through the table in order, one woken process a step.  The
\* lock is held throughout, so no process starts to sleep meanwhile.
wakeup(c, ch) ==
  /\ \/ /\ waking = Null /\ lock = NoCpu
        /\ mode[c] = "idle" \/ \E x \in Interruptible : RunsIn(c, x)
     \/ waking = ch /\ lock = c
  /\ \E p \in FirstOf(Sleepers(ch)) :
       LET more == Sleepers(ch) \ {p} # {} IN
       /\ make_runnable(p, up(p))
       /\ lock' = IF more THEN c ELSE NoCpu
       /\ waking' = IF more THEN ch ELSE Null
  /\ UNCHANGED <<pid, parent, chan, killed, quantum, nextpid, cpus, flow, panic>>

\* Mutant of kill: it makes the process runnable whatever its state.
kill_anystate(c, n) ==
  /\ RunsIn(c, "kern")
  /\ lock = NoCpu
  /\ \E p \in FirstOf({q \in Procs : pid[q] = n}) :
       /\ killed' = [killed EXCEPT ![p] = TRUE]
       /\ make_runnable(p, level[p])
  /\ UNCHANGED <<pid, parent, chan, quantum, nextpid, lock, cpus, waking, flow,
                 panic>>

\* kill(n) marks the first slot whose pid is n, whatever its state.
kill(c, n) ==
  /\ RunsIn(c, "kern")
  /\ lock = NoCpu
  /\ \E p \in FirstOf({q \in Procs : pid[q] = n}) :
       /\ killed' = [killed EXCEPT ![p] = TRUE]
       /\ \/ /\ state[p] = "SLEEPING"
             /\ make_runnable(p, level[p])
          \/ /\ state[p] # "SLEEPING"
             /\ UNCHANGED <<queues, level, state>>
  /\ UNCHANGED <<pid, parent, chan, quantum, nextpid, lock, cpus, waking, flow,
                 panic>>

-----------------------------------------------------------------------------
(* fork, exit and wait *)

\* allocproc under the lock.
allocproc(c) ==
  LET p == proc[c] IN
  /\ RunsIn(c, "kern")
  /\ lock = NoCpu
  /\ nextpid <= MaxPid
  /\ \E np \in FirstOf({q \in Procs : state[q] = "UNUSED"}) :
       /\ state' = [state EXCEPT ![np] = "EMBRYO"]
       /\ pid' = [pid EXCEPT ![np] = nextpid]
       /\ child' = [child EXCEPT ![p] = np]
  /\ nextpid' = nextpid + 1
  /\ ctx' = [ctx EXCEPT ![p] = "fork"]
  /\ UNCHANGED <<parent, chan, killed, level, quantum, queues, lock, cpus,
                 waking, sw, panic>>

\* No page for the kernel stack or for the address space: the slot is given
\* back without the lock, with its pid.
ForkFail(c) ==
  LET p == proc[c] IN
  /\ RunsIn(c, "fork")
  /\ state' = [state EXCEPT ![child[p]] = "UNUSED"]
  /\ child' = [child EXCEPT ![p] = Null]
  /\ ctx' = [ctx EXCEPT ![p] = "kern"]
  /\ UNCHANGED <<pid, parent, chan, killed, level, quantum, queues, nextpid,
                 lock, cpus, waking, sw, panic>>

ForkCopy(c) ==
  LET p == proc[c] IN
  /\ RunsIn(c, "fork")
  /\ parent' = [parent EXCEPT ![child[p]] = p]
  /\ ctx' = [ctx EXCEPT ![p] = "forked", ![child[p]] = "user"]
  /\ sw' = [sw EXCEPT ![child[p]] = "new"]
  /\ UNCHANGED <<state, pid, chan, killed, level, quantum, queues, nextpid,
                 lock, cpus, waking, child, panic>>

ForkPublish(c) ==
  LET p == proc[c] IN
  /\ RunsIn(c, "forked")
  /\ lock = NoCpu
  /\ make_runnable(child[p], 0)
  /\ child' = [child EXCEPT ![p] = Null]
  /\ ctx' = [ctx EXCEPT ![p] = "kern"]
  /\ UNCHANGED <<pid, parent, chan, killed, quantum, nextpid, lock, cpus,
                 waking, sw, panic>>

\* A process calls exit(); init must not.
ExitCall(c) ==
  LET p == proc[c] IN
  /\ RunsIn(c, "kern")
  /\ ctx' = [ctx EXCEPT ![p] = "exiting"]
  /\ UNCHANGED <<state, pid, parent, chan, killed, level, quantum, queues,
                 nextpid, lock, cpus, waking, sw, child, panic>>

\* Mutant of WakeParent: exit() does not wake its parent.
WakeParent_not(q) == UNCHANGED <<queues, level, state>>

\* wakeup1(q) for a process q: only q sleeps on itself, in wait().
WakeParent(q) ==
  \/ /\ q \in Procs /\ state[q] = "SLEEPING" /\ chan[q] = q
     /\ make_runnable(q, up(q))
  \/ /\ ~(q \in Procs /\ state[q] = "SLEEPING" /\ chan[q] = q)
     /\ UNCHANGED <<queues, level, state>>

Exit(c) ==
  LET p == proc[c] IN
  /\ RunsIn(c, "exiting")
  /\ \/ /\ p = Initproc
        /\ panic' = "init exiting"
        /\ UNCHANGED <<queues, level, state, lock, ctx>>
     \/ /\ p # Initproc
        /\ acquire(c)
        /\ WakeParent(parent[p])
        /\ UNCHANGED panic
        /\ ctx' = [ctx EXCEPT ![p] = "reparent"]
  /\ UNCHANGED <<pid, parent, chan, killed, quantum, nextpid, cpus, waking,
                 sw, child>>

Children(p) == {q \in Procs : parent[q] = p}

\* Mutant of ExitReparent: the children keep their dead parent.
ExitReparent_not(c) ==
  LET p == proc[c] IN
  /\ RunsIn(c, "reparent")
  /\ ctx' = [ctx EXCEPT ![p] = "zombie"]
  /\ UNCHANGED <<state, pid, parent, chan, killed, level, quantum, queues,
                 nextpid, lock, cpus, waking, sw, child, panic>>

\* Abandoned children go to init, which is woken if one is a zombie already.
ExitReparent(c) ==
  LET p == proc[c] IN
  /\ RunsIn(c, "reparent")
  /\ parent' = [q \in Procs |-> IF parent[q] = p THEN Initproc ELSE parent[q]]
  /\ \/ /\ \E q \in Children(p) : state[q] = "ZOMBIE"
        /\ WakeParent(Initproc)
     \/ /\ ~ \E q \in Children(p) : state[q] = "ZOMBIE"
        /\ UNCHANGED <<queues, level, state>>
  /\ ctx' = [ctx EXCEPT ![p] = "zombie"]
  /\ UNCHANGED <<pid, chan, killed, quantum, nextpid, lock, cpus, waking, sw,
                 child, panic>>

\* Mutant of ExitSched: the process frees its own slot.
ExitSched_free(c) ==
  LET p == proc[c] IN
  /\ RunsIn(c, "zombie")
  /\ state' = [state EXCEPT ![p] = "UNUSED"]
  /\ mode' = [mode EXCEPT ![c] = "sched"]
  /\ UNCHANGED <<pid, parent, chan, killed, level, quantum, queues, nextpid,
                 lock, proc, indice, waking, flow, panic>>

ExitSched(c) ==
  LET p == proc[c] IN
  /\ RunsIn(c, "zombie")
  /\ state' = [state EXCEPT ![p] = "ZOMBIE"]
  /\ mode' = [mode EXCEPT ![c] = "sched"]
  /\ UNCHANGED <<pid, parent, chan, killed, level, quantum, queues, nextpid,
                 lock, proc, indice, waking, flow, panic>>

\* One pass of wait() over the table: entered from the system call, or again
\* after a sleep with the lock still held.
Scans(c) ==
  \/ RunsIn(c, "kern") /\ lock = NoCpu
  \/ RunsIn(c, "wait") /\ lock = c

ZombieChildren(p) == {q \in Children(p) : state[q] = "ZOMBIE"}

WaitReap(c) ==
  LET p == proc[c] IN
  /\ Scans(c)
  /\ \E z \in FirstOf(ZombieChildren(p)) :
       /\ state' = [state EXCEPT ![z] = "UNUSED"]
       /\ pid' = [pid EXCEPT ![z] = 0]
       /\ parent' = [parent EXCEPT ![z] = Null]
       /\ killed' = [killed EXCEPT ![z] = FALSE]
  /\ lock' = NoCpu
  /\ ctx' = [ctx EXCEPT ![p] = "kern"]
  /\ UNCHANGED <<chan, level, quantum, queues, nextpid, cpus, waking, sw,
                 child, panic>>

WaitNone(c) ==
  LET p == proc[c] IN
  /\ Scans(c)
  /\ ZombieChildren(p) = {}
  /\ Children(p) = {} \/ killed[p]
  /\ lock' = NoCpu
  /\ ctx' = [ctx EXCEPT ![p] = "kern"]
  /\ UNCHANGED <<state, pid, parent, chan, killed, level, quantum, queues,
                 nextpid, cpus, waking, sw, child, panic>>

WaitSleep(c) ==
  LET p == proc[c] IN
  /\ Scans(c)
  /\ ZombieChildren(p) = {}
  /\ Children(p) # {} /\ ~killed[p]
  /\ lock' = c
  /\ chan' = [chan EXCEPT ![p] = p]
  /\ state' = [state EXCEPT ![p] = "SLEEPING"]
  /\ ctx' = [ctx EXCEPT ![p] = "kern"]
  /\ sched(c, p, "wait")
  /\ UNCHANGED <<pid, parent, killed, level, quantum, queues, nextpid,
                 waking, child, panic>>

-----------------------------------------------------------------------------
\* pinit and userinit: init is RUNNABLE at level 0, every other slot is free.
Init ==
  /\ state = [p \in Procs |-> IF p = Initproc THEN "RUNNABLE" ELSE "UNUSED"]
  /\ pid = [p \in Procs |-> IF p = Initproc THEN 1 ELSE 0]
  /\ parent = [p \in Procs |-> Null]
  /\ chan = [p \in Procs |-> Null]
  /\ killed = [p \in Procs |-> FALSE]
  /\ level = [p \in Procs |-> 0]
  /\ quantum = [p \in Procs |-> 0]
  /\ next = [p \in Procs |-> Null]
  /\ first = [l \in Levels |-> IF l = 0 THEN Initproc ELSE Null]
  /\ last = [l \in Levels |-> IF l = 0 THEN Initproc ELSE Null]
  /\ size = [l \in Levels |-> IF l = 0 THEN 1 ELSE 0]
  /\ ptsize = 1
  /\ nextpid = 2
  /\ lock = NoCpu
  /\ mode = [c \in CPUs |-> "idle"]
  /\ proc = [c \in CPUs |-> Null]
  /\ indice = [c \in CPUs |-> 0]
  /\ waking = Null
  /\ ctx = [p \in Procs |-> "user"]
  /\ sw = [p \in Procs |-> IF p = Initproc THEN "new" ELSE "none"]
  /\ child = [p \in Procs |-> Null]
  /\ panic = "none"
  /\ order = [l \in Levels |-> IF l = 0 THEN <<Initproc>> ELSE <<>>]

SchedStep(c) ==
  \/ Schedule(c) \/ ScheduleRest(c)
  \/ \E ch \in Chans : waking = ch /\ wakeup(c, ch)

\* What the process on c does by itself once it is in the kernel.
KernelStep(c) ==
  \/ SyscallReturn(c)
  \/ ForkFail(c) \/ ForkCopy(c) \/ ForkPublish(c)
  \/ Exit(c) \/ ExitReparent(c) \/ ExitSched(c)
  \/ RunsIn(c, "wait") /\ (WaitReap(c) \/ WaitNone(c) \/ WaitSleep(c))

\* What user programs and devices ask of it.
Request(c) ==
  \/ Syscall(c) \/ Fault(c) \/ allocproc(c) \/ ExitCall(c)
  \/ WaitReap(c) \/ WaitNone(c) \/ WaitSleep(c)
  \/ \E x \in PriorityArgs : set_priority(c, x)
  \/ \E ch \in Chans : sleep(c, ch) \/ wakeup(c, ch)
  \/ \E n \in KillArgs : kill(c, n)

Running ==
  /\ panic = "none"
  /\ \E c \in CPUs : SchedStep(c) \/ KernelStep(c) \/ Request(c) \/ Timer(c)

\* After a panic the machine stays where it is.
Halted == panic # "none" /\ UNCHANGED vars

Next == Running \/ Halted

Spec == Init /\ [][Next]_vars

\* scheduler() goes on, and a pending timer interrupt is delivered as soon as
\* interrupts are on again; a process that gets a CPU again and again goes on
\* with its kernel code.  Strong fairness: a CPU that spins on ptable.lock gets
\* it if it is free again and again.
Fairness ==
  /\ \A c \in CPUs : /\ SF_vars(panic = "none" /\ SchedStep(c))
                     /\ SF_vars(panic = "none" /\ Timer(c))
  /\ \A p \in Procs :
       SF_vars(panic = "none" /\ \E c \in CPUs : proc[c] = p /\ KernelStep(c))

FairSpec == Spec /\ Fairness
-----------------------------------------------------------------------------
(* Properties *)

\* The links of level l, followed from first to last, are the sequence
\* order[l]; size counts them (encolar and desencolar, proc.c:64-104).
Linked(l) ==
  LET q == order[l] IN
  /\ size[l] = Len(q)
  /\ q = <<>> => first[l] = Null /\ last[l] = Null
  /\ q # <<>> => first[l] = q[1] /\ last[l] = q[Len(q)]
  /\ \A i \in 1 .. Len(q) - 1 : next[q[i]] = q[i + 1]

\* The RUNNABLE processes, and no others, are queued, each once and in the
\* queue of its current_level.
Queued ==
  /\ \A l \in Levels : \A i \in 1 .. Len(order[l]) :
       /\ state[order[l][i]] = "RUNNABLE" /\ level[order[l][i]] = l
       /\ \A j \in 1 .. Len(order[l]) : order[l][i] = order[l][j] => i = j
  /\ \A p \in Procs : state[p] = "RUNNABLE" =>
       \E i \in 1 .. Len(order[level[p]]) : order[level[p]][i] = p

\* The pointer queues hold exactly the RUNNABLE processes: none is lost by a
\* stale next pointer or by the pid test of desencolar, none is queued twice.
QueuesIntact == Queued /\ \A l \in Levels : Linked(l)

\* The panic of scheduler() (proc.c:385), a queued process that is not
\* RUNNABLE, is unreachable.
NoPanic == panic \in {"none", "init exiting"}

\* A RUNNING process is on exactly one CPU, and a CPU that has given control
\* to a process runs a RUNNING one.
OneCpuEach ==
  /\ \A c \in CPUs : mode[c] = "run" => proc[c] \in Procs /\ state[proc[c]] = "RUNNING"
  /\ \A p \in Procs : state[p] = "RUNNING" => \E c \in CPUs : mode[c] = "run" /\ proc[c] = p
  /\ \A c, d \in CPUs : proc[c] = proc[d] /\ proc[c] # Null => c = d

\* The processes in use have distinct pids, and no free slot shares one.
UniquePids ==
  \A p, q \in Procs : state[p] # "UNUSED" /\ pid[p] = pid[q] => p = q

InUse(p) == state[p] \notin {"UNUSED", "EMBRYO"}

\* Every process but init has a living parent, so that somebody can reap it:
\* fork, exit's passing of children to init, and wait keep this together.
ParentAlive ==
  \A p \in Procs : InUse(p) /\ p # Initproc =>
    parent[p] \in Procs /\ InUse(parent[p]) /\ state[parent[p]] # "ZOMBIE"

\* No exit is missed: a process asleep in wait() has children, none of them a
\* zombie already, and has not been killed (proc.c:350-356).
WaiterHasReason ==
  \A p \in Procs : state[p] = "SLEEPING" /\ chan[p] = p =>
    Children(p) # {} /\ ZombieChildren(p) = {} /\ ~killed[p]

\* A process marked killed does not go back to user space from a system call
\* or from an interrupt; it may only be there already, or start there as a
\* child that forkret sends up (trap.c:99-117).
KilledStaysOut ==
  [][\A p \in Procs :
       killed[p] /\ (sw[p] = "yield" \/ ctx[p] # "user") /\ state'[p] = "RUNNING"
       => ctx'[p] # "user"]_vars

\* A process queued at the level a CPU is at gets a CPU: the queue is served in
\* order and the quantum returns the CPU to scheduler() (proc.c:380-402).
LevelServed ==
  \A c \in CPUs, p \in Procs :
    (state[p] = "RUNNABLE" /\ level[p] = indice[c])
      ~> (state[p] = "RUNNING" \/ panic # "none")

\* A killed process that computes in user space is stopped by the clock: it
\* does not spin on (trap.c:97-101).
KilledLeavesUser ==
  \A p \in Procs :
    (state[p] = "RUNNING" /\ killed[p] /\ ctx[p] = "user")
      ~> (ctx[p] # "user" \/ panic # "none")

\* Every process that becomes RUNNABLE runs, even next to processes that spin:
\* what the preempt test (user/usertests.c:258-303) relies on.
RunnableRuns ==
  \A p \in Procs : state[p] = "RUNNABLE" ~> (state[p] = "RUNNING" \/ panic # "none")

\* The queue of level l, read from its pointers: size[l] processes, from first[l] on.
Links(l) ==
  LET at[i \in 1 .. size[l]] ==
        IF i = 1 THEN first[l] ELSE IF at[i - 1] = Null THEN Null ELSE next[at[i - 1]]
  IN at

\* The table implements the life cycle and FIFO queues of Mlfq: the pointers of
\* encolar and desencolar are its queues.
Abstract == INSTANCE Mlfq WITH queue <- [l \in Levels |-> Links(l)]
Implements == Abstract!Spec
=============================================================================
