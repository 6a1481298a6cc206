------------------------------- MODULE MCLive -------------------------------
(***************************************************************************)
(* Instances for TLC of what must happen in the end: in the process table, *)
(* in pipes, console and sleep, in transactions and at the disk.  A        *)
(* behaviour is one of one instance, which component names; the others     *)
(* stay in an initial state.                                               *)
(***************************************************************************)
EXTENDS Naturals, Sequences

CONSTANTS c1, nocpu, b1, b2, noone

VARIABLES
    component,
    state, pid, parent, chan, killed, level, quantum, next, first, last, size, ptsize, nextpid, lock,
    mode, proc, indice, waking, ctx, sw, child, panic, order,
    data, nread, nwrite, readopen, writeopen, live, holds, closing, pc, n, rest, got, pkilled,
    buf, r, w, e, inputlock, place, count, copied, ikilled, result,
    ticks, tickslock, c, tkilled, gone, since,
    disk, dlog, dhead, mem, dirty, lh, busy, tail, lpc, boot,
    cache, lru, idequeue, drive, irq, platter, iplace, want, cur, held

\* One CPU, three slots, two levels and a quantum of one tick.
Table == INSTANCE Proc WITH CPUs <- {c1}, NoCpu <- nocpu, NPROC <- 3, MLF_LEVELS <- 2, MAX_QUANTUM <- 1,
    Chans <- {}, PriorityArgs <- {}, KillArgs <- {2}, MaxPid <- 3

\* A pipe of one byte, and writes of two.
OneByte == INSTANCE Pipe WITH Procs <- {1, 2}, Bytes <- {1}, PIPESIZE <- 1, WORD <- 2, Addrs <- {<<1, 1>>},
    Counts <- {1}, killed <- pkilled

\* Two readers of newlines and ^D, a ring of two characters and indices that wrap at four.
Input == INSTANCE Console WITH Procs <- {1, 2}, Letters <- {}, INPUT_BUF <- 2, Word <- 4, MaxRead <- 1,
    NoOne <- noone, lock <- inputlock, n <- count, killed <- ikilled

\* Two sleepers and a counter that wraps at three.
Clock == INSTANCE Ticks WITH Procs <- {1, 2}, Null <- noone, Word <- 3, killed <- tkilled

\* Two system calls, one block, and a log of one block.
Trans == INSTANCE Log WITH Procs <- {1, 2}, Blocks <- {b1}, Values <- {1, 2}, NoData <- 0, NoOne <- noone,
    LOGSIZE <- 1, pc <- lpc

\* Two processes, two buffers and three sectors.
Drive == INSTANCE Bcache WITH Procs <- {1, 2}, Bufs <- {b1, b2}, Sectors <- {1, 2, 3}, Data <- {0}, NoOne <- noone,
    MaxHeld <- 1, MaxPinned <- 0, SPURIOUS <- FALSE, ERRORS <- FALSE, MEMDISK <- FALSE,
    buf <- cache, disk <- platter, place <- iplace

ASSUME Input!ConsoleAssumption /\ Clock!TicksAssumption /\ Drive!BcacheAssumption

tableVars == <<state, pid, parent, chan, killed, level, quantum, next, first, last, size, ptsize, nextpid, lock,
               mode, proc, indice, waking, ctx, sw, child, panic, order>>
pipeVars == <<data, nread, nwrite, readopen, writeopen, live, holds, closing, pc, n, rest, got, pkilled>>
inputVars == <<buf, r, w, e, inputlock, place, count, copied, ikilled, result>>
clockVars == <<ticks, tickslock, c, tkilled, gone, since>>
transVars == <<disk, dlog, dhead, mem, dirty, lh, busy, tail, lpc, boot>>
driveVars == <<cache, lru, idequeue, drive, irq, platter, iplace, want, cur, held>>
LiveVars == <<component, tableVars, pipeVars, inputVars, clockVars, transVars, driveVars>>

\* What one instance does, the others left as they are.
InTable(A) == component = "table" /\ A /\ UNCHANGED <<component, pipeVars, inputVars, clockVars, transVars, driveVars>>
InPipe(A) == component = "pipe" /\ A /\ UNCHANGED <<component, tableVars, inputVars, clockVars, transVars, driveVars>>
InInput(A) == component = "input" /\ A /\ UNCHANGED <<component, tableVars, pipeVars, clockVars, transVars, driveVars>>
InClock(A) == component = "clock" /\ A /\ UNCHANGED <<component, tableVars, pipeVars, inputVars, transVars, driveVars>>
InTrans(A) == component = "trans" /\ A /\ UNCHANGED <<component, tableVars, pipeVars, inputVars, clockVars, driveVars>>
InDrive(A) == component = "drive" /\ A /\ UNCHANGED <<component, tableVars, pipeVars, inputVars, clockVars, transVars>>

LiveInit ==
    /\ component \in {"table", "pipe", "input", "clock", "trans", "drive"}
    /\ Table!Init /\ OneByte!Init /\ Input!Init /\ Clock!Init /\ Drive!Init
    /\ Trans!Init /\ (component # "trans" => disk[b1] = 1 /\ dlog[1] = 1)

LiveNext ==
    \/ InTable(Table!Next) \/ InPipe(OneByte!Next) \/ InInput(Input!Next)
    \/ InClock(Clock!Next) \/ InTrans(Trans!Next) \/ InDrive(Drive!Next)

\* The fairness of each instance: scheduler() and the clock go on, a process that is
\* in the kernel and gets a CPU again and again goes on, and gets a spinlock that is
\* free again and again; a system call in a transaction reaches its commit; the drive
\* and its interrupt answer.  A conjunct is about several instances, of which a
\* behaviour has one.
LiveFairness ==
    /\ SF_LiveVars(\/ InTable(panic = "none" /\ Table!SchedStep(c1)) \/ InPipe(OneByte!Kernel(1))
                   \/ InInput(Input!Reader(1)) \/ InClock(Clock!Step(1)))
    /\ SF_LiveVars(\/ InTable(panic = "none" /\ Table!Timer(c1)) \/ InPipe(OneByte!Kernel(2))
                   \/ InInput(Input!Reader(2)) \/ InClock(Clock!Step(2)))
    /\ SF_LiveVars(InTable(panic = "none" /\ proc[c1] = 1 /\ Table!KernelStep(c1)) \/ InClock(Clock!timer))
    /\ SF_LiveVars(InTable(panic = "none" /\ proc[c1] = 2 /\ Table!KernelStep(c1)))
    /\ SF_LiveVars(InTable(panic = "none" /\ proc[c1] = 3 /\ Table!KernelStep(c1)))
    /\ \A p \in {1, 2} : WF_LiveVars(InTrans(Trans!CommitStep(p)) \/ InDrive(Drive!Kernel(p)))
    /\ WF_LiveVars(InTrans(Trans!Recover) \/ InDrive(Drive!DriveDone))
    /\ WF_LiveVars(InDrive(Drive!ideintr \/ Drive!ideintr_spurious))

LiveSpec == LiveInit /\ [][LiveNext]_LiveVars /\ LiveFairness

-----------------------------------------------------------------------------
(* Properties: those of the modules where they apply. *)

\* A process queued at the level a CPU is at gets a CPU (encolar, scheduler).
LevelServed == component = "table" => Table!LevelServed

\* A killed process that computes in user space is stopped by the clock (trap).
KilledLeavesUser == component = "table" => Table!KilledLeavesUser

\* Whoever sleeps in the kernel goes on once the reason to sleep is gone: a reader of
\* a pipe when the last writer has closed, a reader of the console when a complete line
\* waits that no other takes, sys_sleep in the end, a call in begin_trans when the
\* transaction ends, and who waits for the drive (pipeclose, consoleintr, trap,
\* commit_trans, ideintr).
SleepersGoOn ==
    /\ component = "pipe" => OneByte!EofReturns
    /\ component = "input" => Input!LineReturns
    /\ component = "clock" => Clock!SleepEnds
    /\ component = "trans" => Trans!SleeperWakes
    /\ component = "drive" => Drive!TransferEnds
=============================================================================
