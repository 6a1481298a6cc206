------------------------------ MODULE MCQueues ------------------------------
(***************************************************************************)
(* Instances of Proc for TLC about the run queues: sleep and wakeup of a   *)
(* channel on two CPUs, with three processes in one queue, the constants   *)
(* of the configuration, and with two in two; and the levels, quantum and  *)
(* set_priority of the kernel as it is built (param.h) on one CPU.         *)
(* component names the instance of a behaviour.                            *)
(***************************************************************************)
EXTENDS Proc, TLC

CONSTANT c1

VARIABLE component

Pair == INSTANCE Proc WITH NPROC <- 2, MLF_LEVELS <- 2, MAX_QUANTUM <- 2, PriorityArgs <- {1}, MaxPid <- 2

AsBuilt == INSTANCE Proc WITH CPUs <- {c1}, NPROC <- 2, MLF_LEVELS <- 4, MAX_QUANTUM <- 4,
    Chans <- {10}, PriorityArgs <- {3}, KillArgs <- {}, MaxPid <- 2

QueuesInit ==
    \/ component = "sleeping" /\ Init
    \/ component = "pair" /\ Pair!Init
    \/ component = "asbuilt" /\ AsBuilt!Init

QueuesNext ==
    /\ UNCHANGED component
    /\ \/ component = "sleeping" /\ Next
       \/ component = "pair" /\ Pair!Next
       \/ component = "asbuilt" /\ AsBuilt!Next

QueuesVars == <<component, vars>>
QueuesSpec == QueuesInit /\ [][QueuesNext]_QueuesVars

CpuSymmetry == Permutations(CPUs)

-----------------------------------------------------------------------------
(* Properties: those of Proc where they apply. *)

\* The pointer queues are the FIFO queues of Mlfq, and the table follows its life cycle:
\* also when wakeup runs on one CPU while processes go to sleep on another, and under
\* set_priority and quanta of several ticks (encolar, desencolar, sleep, wakeup1).
IsMlfq ==
    /\ component = "sleeping" => Abstract!Init
    /\ component = "pair" => Pair!Abstract!Init
    /\ component = "asbuilt" => AsBuilt!Abstract!Init
    /\ [][component = "sleeping" => [Abstract!Next]_(Abstract!vars)]_QueuesVars
    /\ [][component = "pair" => [Pair!Abstract!Next]_(Pair!Abstract!vars)]_QueuesVars
    /\ [][component = "asbuilt" => [AsBuilt!Abstract!Next]_(AsBuilt!Abstract!vars)]_QueuesVars
=============================================================================
