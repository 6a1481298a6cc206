-------------------------------- MODULE Mlfq --------------------------------
(***************************************************************************)
(* What the process table promises: every slot follows the life cycle of   *)
(* enum procstate (proc.h:53), and the RUNNABLE processes stand in one     *)
(* first-in first-out queue per priority level.  There are no locks, no    *)
(* CPUs and no pointers here; Proc implements this specification.          *)
(***************************************************************************)
EXTENDS Naturals, Sequences

CONSTANTS Procs, Levels, Initproc

VARIABLES state, queue

vars == <<state, queue>>

TypeOK ==
  /\ state \in [Procs -> {"UNUSED", "EMBRYO", "SLEEPING", "RUNNABLE", "RUNNING", "ZOMBIE"}]
  /\ queue \in [Levels -> Seq(Procs)]

Init ==
  /\ state = [p \in Procs |-> IF p = Initproc THEN "RUNNABLE" ELSE "UNUSED"]
  /\ queue = [l \in Levels |-> IF l = 0 THEN <<Initproc>> ELSE <<>>]

Move(p, from, to) ==
  /\ state[p] \in from
  /\ state' = [state EXCEPT ![p] = to]

Create(p)  == Move(p, {"UNUSED"}, "EMBRYO") /\ UNCHANGED queue
Abandon(p) == Move(p, {"EMBRYO"}, "UNUSED") /\ UNCHANGED queue
Sleep(p)   == Move(p, {"RUNNING"}, "SLEEPING") /\ UNCHANGED queue
Exit(p)    == Move(p, {"RUNNING"}, "ZOMBIE") /\ UNCHANGED queue
Reap(p)    == Move(p, {"ZOMBIE"}, "UNUSED") /\ UNCHANGED queue

\* A process that becomes RUNNABLE joins the tail of one level.
Ready(p, l) ==
  /\ Move(p, {"EMBRYO", "RUNNING", "SLEEPING"}, "RUNNABLE")
  /\ queue' = [queue EXCEPT ![l] = Append(@, p)]

\* Only the process at the head of a level is ever given a CPU.
Run(l) ==
  /\ queue[l] # <<>>
  /\ Move(Head(queue[l]), {"RUNNABLE"}, "RUNNING")
  /\ queue' = [queue EXCEPT ![l] = Tail(@)]

Next ==
  \/ \E p \in Procs : Create(p) \/ Abandon(p) \/ Sleep(p) \/ Exit(p) \/ Reap(p)
  \/ \E p \in Procs, l \in Levels : Ready(p, l)
  \/ \E l \in Levels : Run(l)

Spec == Init /\ [][Next]_vars
=============================================================================
