# Verification of the kernel

TLA+ specifications of the operating system in `src/`: an xv6 for x86 whose
scheduler was replaced by a multilevel feedback (MLF) scheduler, with its user
programs that have an algorithm in them. TLC checks small instances of the
specifications, and TLAPS proves the safety properties of the process table, the
spinlocks, pipes, the buffer cache and the log for every size of the tables.

## The system: inventory

| part | state | hard behaviours | modules |
|------|-------|-----------------|---------|
| process table and scheduler (`proc.c`, `sysproc.c`) | slots, MLF queues, `nextpid`, per-CPU `proc` and level | `ptable.lock` held across `swtch`; slots filled without the lock; wait/exit races; kill of sleepers; starvation | `Proc` implements `Mlfq` |
| traps (`trap.c`), clock and `sys_sleep` | privilege of the interrupted code, `ticks` | killed tests before and after `yield`; quantum; a counter that goes round | `Proc`, `Ticks` |
| spinlocks (`spinlock.c`) | lock words, per-CPU `ncli` and `intena` | interrupts halfway through `acquire`; `intena` across `sched` | `Spinlock` |
| pipes (`pipe.c`) | ring, `nread`/`nwrite`, open ends | full and empty ring, close and kill while the other end sleeps | `Pipe` implements `Channel` |
| console input (`console.c`) | ring with indices r, w, e | line editing against readers, a full ring, ^D | `Console` implements `LineQueue` |
| console output (`console.c`, `user/printf.c`) | screen, cursor registers | several accesses for one cursor; scrolling; two formatters | `Screen`, `Printf` |
| keyboard (`kbd.c`) | shift state | keys in any order, codes of two bytes | `Kbd` |
| buffer cache and disk (`bio.c`, `ide.c`, `memide.c`) | LRU list, busy/valid/dirty, request queue | two processes want one block; recycling; interrupts early, spurious, failing | `Bcache` implements `BlockStore` |
| log (`log.c`) | `busy`, header and log blocks, home blocks | a crash between any two block writes, also during recovery | `Log` implements `AtomicDisk` |
| file contents (`fs.c`, `file.c`) | bitmap, block lists | direct and indirect blocks, a full disk, writes cut into transactions | `FileData` |
| inode cache (`fs.c`) | entries, references, links | the last `iput` frees without the lock | `Inode` |
| directories and paths (`fs.c`, `sysfile.c`) | entries, `nlink`, current directories | several inode locks at once, removed directories, calls that fail halfway | `Dirs` |
| open files (`file.c`, `sysfile.c`) | file table, descriptors | counts shared by fork, slots reused during a close | `Files` |
| memory (`vm.c`, `exec.c`, `kalloc.c`) | free list, page tables, sizes | memory that runs out anywhere; arithmetic that goes round | `Memory` |
| start-up (`main.c`, `kalloc.c`, `entryother.S`) | free list, `use_lock`, mailbox, `started` | an allocator that is not locked yet, one mailbox for all CPUs | `Boot` |
| system call arguments (`syscall.c`) | none | range checks in unsigned arithmetic | `Sysargs` |
| string routines (`string.c`) | none | overlap, bounds, terminators | `Strings` |
| user library and programs (`user/umalloc.c`, `sh.c`, `grep.c`), `mkfs.c` | free list; command tree, processes and descriptors; buffer; image | cyclic search and joins; ends of pipes left open; backtracking; indirect blocks | `Umalloc`, `ShellParser`, `Shell`, `Grep`, `Mkfs` |

How they interact: every part that waits uses `sleep`/`wakeup` of `proc.c`;
`fs.c` works through `log.c` inside a transaction, `log.c` and `fs.c` through
`bio.c`, `bio.c` through `ide.c`; `file.c` dispatches to pipes and inodes; `exit`
closes files (and may sleep there); `fork` copies descriptors and page tables. All
locks are taken before `ptable.lock`, none after it, except `kmem.lock` (kfree in
wait) and the console lock (cprintf).

The modules cut the system along these interfaces. Where a part rests on another,
its module contains what the other promises: `Log` has a cache that recycles clean
buffers at any time and writes that are on disk when they return, which `IsBlockStore`
shows of `Bcache`; `Dirs` has inodes that are freed with the last pointer and inode
locks, which `InodesShared` shows of `Inode`; `FileData` takes transactions one at a time
from `Log`, and gives `Log` transactions that fit (`TransactionFits`); `Pipe`, `Console`,
`Bcache` and the others have sleep and wakeup as `Proc` implements them: a wakeup wakes all sleepers of
the channel, and no wakeup falls between the release of the lock and the sleep.

## Modules

`Mlfq`, `AtomicDisk`, `Channel`, `BlockStore` and `LineQueue` are the abstract
specifications. The modules named `...Proofs` hold the proofs: `ProcProofs`, `LogProofs`,
`PipeProofs`, `SpinlockProofs`, `InodeProofs` and `MemoryProofs` those about the component
they are named after, `BcacheProofs` and `BcacheStoreProofs` those about `Bcache`. The modules named `MC...` are for TLC. Each
component module has its properties at the end, and before a definition the variants of it
that stand for plausible mistakes ("Mutant of"): each property is false for at least one
of them.

### Proc

The variables are the fields of `struct proc`, of `struct queue` and `ptable`, the
per-CPU `proc` and scheduler local `indice`, and the holder of `ptable.lock`.
Three variables stand for control: `mode[c]` (is CPU c before `acquire` in
`scheduler()`, in a process, or back in `scheduler()` with the lock), `ctx[p]`
(where process p is in the kernel) and `sw[p]` (which caller of `sched` it returns
to). `child[p]` is fork's local `np`. `order` is auxiliary: it records the queues as
sequences, is never read by an action, and gives the properties something to
compare the pointers `first`, `next`, `last` with.

A critical section of `ptable.lock` that ends with `release` is one action. One
that ends in `sched()` leaves the lock with the CPU and `scheduler()` goes on from
there, exactly as in the code: `Timer`, `sleep`, `WaitSleep` and `ExitSched` end in
mode `"sched"`, and `Schedule` includes the tail of the function the chosen process
returns into (`Resume`: `yield`, `forkret` or `sleep`). `exit` takes three steps
with the lock (wake the parent, pass the children to init, become a zombie),
`wakeup` one step for each woken process. What the code does without the lock has
its own actions: `ForkFail` and `ForkCopy`, `set_priority`, `Syscall`,
`SyscallReturn`, `Fault`.

System calls that do not touch the table are the context `"kern"`, which may sleep
on a channel of `Chans` at any time; interrupts are wakeups of a channel, on an
idle CPU or on top of a process that does not hold the lock.

Assumption on the environment: `set_priority` is called with a level that exists
(`PriorityArgs \subseteq Levels`). `sys_set_priority` does not test the argument
(`sysproc.c:109`), and with another number the code indexes beyond the queues, which the
model does not follow: that levels stay in range is assumed here, not shown. The only
caller, `user/ps.c`, passes 3.

### Log

On disk: home sectors (`disk`), log blocks (`dlog`) and header (`dhead`, the
sectors it names; entries beyond `n` are never read). In memory: `log.lh`,
`log.busy`, and of the buffer cache the contents of home sectors (`mem`, `NoData` if
not cached) and which of them are `B_DIRTY`. Every action writes at most one block,
and `Crash` is possible in every state: it empties the memory and starts `initlog`
again. A process is outside, asleep in `begin_trans`, in a transaction, or at one of
the three steps of `commit_trans`. `Evict` recycles any clean buffer at any time and
`Load` rereads it, so the model depends on `B_DIRTY` where the code does. The panic
"too big a transaction" stops the machine until the next `Crash` (reboot).

Assumption: `log_write` is called by the process in the transaction. Some calls of
`iput` break it; `Inode` has them, and the run `inode_transaction` shows one.
Log blocks and the header pass through the cache as well, but are written through at
once, so a cached copy never differs from the disk.

The abstraction reads what would survive a crash now (`Recovered`: the home sectors
with the log blocks copied over the sectors the header names) and what the file
system reads (`View`).

### Pipe

`p->lock` is held from the entry of an operation to its return or sleep, so an
action is one critical section. The exception is the gap between the test of
`proc->killed` and the sleep (`rcheck`, `wcheck`: the lock is held, but `kill` does
not need it). `WORD` is the modulus of the unsigned counters, 2^32 in the code and a
small multiple of `PIPESIZE` in the runs. `holds` are the descriptors of each
process, whose number is the reference count of `struct file`; `fileclose` gives up
the last one under `ftable.lock` and `pipeclose` follows as a step of its own.

### Bcache

Buffers with sector, flags and contents, the LRU list as a sequence, the driver's
queue, the drive and its interrupt line. A step is a critical section of `bcache.lock`
or `idelock`, so the drive may answer and the interrupt come on another CPU before
the requester sleeps. Both `bget` and `iderw` sleep on the buffer and so wake each
other, which their loops must bear. `SPURIOUS` and `ERRORS` are faults of the drive, `MEMDISK` is
`memide.c`, `MaxPinned` the buffers `log_write` keeps dirty. Where `bget` panics the
process stops (`Panics`), and the others go on. The refinement to `BlockStore`
reads the block a process would be given now.

### FileData, Inode, Dirs, Files

`FileData` takes one call at a time (the inode is locked and transactions exclude each
other); a turn of `writei`'s loop is a step, and freed blocks keep their stale contents.
`balloc` scans to the end of the disk, so it may hand out the log's sectors (`LogSectors`); a
behaviour is followed up to the commit that writes over them. When no block is left it panics.
`Inode` abstracts directories to the number of entries naming an inode; its steps end
where the code sleeps or gives up `icache.lock`, so `iput`'s truncation is open to the
others. `Dirs` keeps directories as sets of entries and who points to each inode, and stops where
the code waits for an inode or for the log. A panic of `log_write` outside a transaction
stops the machine there. `Files` counts references of inodes and pipe ends ("objects")
through descriptors; between emptying an entry and releasing its object, the entry can
be taken again.

### Memory, Boot

In `Memory` every `kalloc` and `kfree` is a step and every `kalloc` may fail; a page table
is a function from the pages of the address space, addresses are words modulo `ADDRS`. A
program header is `vaddr`, `memsz` and `filesz`, whatever the file says of them. `exec` goes
on after a load only if `loaduvm` met no panic and stayed in user memory (see the
differences below).
`Boot` has the free list pointer by pointer, the order of `main`, `use_lock`, the mailbox
at the bottom of the start-up code and the `started` flags.

### Spinlock, Ticks, Console, Screen, Kbd

`Spinlock` executes `acquire` and `release` instruction by instruction (`pushcli`,
`xchg`, owner), with interrupts wherever the flag allows one and `sched` moving a
process to another CPU. `Ticks` and `Console` have the gap between the test of `killed`
and the sleep, as `Pipe`. In `Console` the indices count modulo `Word`. `Screen` makes each
access to the display controller a step. `Kbd` receives scan codes byte by byte.

### Sysargs, Strings, Printf, ShellParser, Shell, Grep, Mkfs, Umalloc

These are sequential, or (`Shell`) a tree of processes. They run the code's loops step
by step over every input within a bound and compare the result with a reference: the
tree a line has by the grammar, found from its separators; the declarative meaning of a
pattern; the bytes a host file had; the blocks that tile the heap. `Printf` has the two
formatters with their own digits, lower case in the kernel and upper case in user space:
`PrintsRight` has them agree up to that. `Sysargs` takes every word as a count, the
negative ones too. `Umalloc` is asked for bytes and computes units as the code does, for
requests whose rounding does not go round. `Grep` has `clean`, a history variable: whether
every read ended where its text is told from what was in the buffer before. Several of them use
recursive operators, which the prover does not accept, and have no proofs.

### Instances

Runs of components that share no state are put together: an `MC` module instantiates
several components and the variable `component`, fixed in the initial state, says which
of them a behaviour is about. The reachable states are the disjoint union of the
instances', and each property says `component = "..." =>` of one or more of them. The
variables of the other components keep one value. Where several facts are one
promise of a part (a block store: contents and durability; a critical section: one
holder, no interrupt, no panic, the flag restored) they are one property.

## Runs

| run | instances | shows |
|-----|-----------|-------|
| `proc_lifecycle` | 2 CPUs, 3 slots, 2 levels, quantum 1, kill of pids 0 and 2 | queues, CPUs, parents and waiters are right in every interleaving of fork, exit, wait, kill, faults and preemption; the pointer queues implement `Mlfq` |
| `run_queues` | 2 CPUs with a sleep channel and no kill, 3 slots at 1 level, and 2 slots at 2 levels with `set_priority(1)`; 1 CPU, 2 slots with the real 4 levels, quantum 4 and `set_priority(3)` | the pointer queues implement `Mlfq` under wakeups of several sleepers from processes and interrupts, and under `set_priority` |
| `storage` | a log of 3 over 4 blocks; 6 caches (IDE, spurious interrupts, memory disk, pinned buffers, too few buffers, read errors); 1 file on two disks and 2 files | what survives a crash is the last committed transaction; the cache is a block store; files keep their bytes and blocks; transactions fit the log |
| `names` | 2 processes in directories `a`, `b` with absolute paths, and in directories that are removed; an inode cache with 3 processes; 2 processes with 3 open files | link counts, tree shape, no circular wait; inodes and open files are released when their last user goes, not before |
| `memory` | memory that runs out, sizes that are not aligned, enough memory, exec, exec with 9 kinds of segments; 3 CPUs that start; a heap of 7 units | no page in two places, the mapped pages are those below `sz`, none lost while allocations succeed; malloc's contract |
| `pipe` | 3 processes, ring of 2, counters modulo 4, writes of 1 and 3 bytes | FIFO, no lost wakeup, no use after free |
| `devices` | 2 readers at a ring of 3; 2 sleepers, ticks modulo 5; 2 CPUs and 2 processes with 2 locks; a screen of 2 by 3; 7 keys, 4 down | critical sections, sleeping, line input, modifiers and the screen are as promised |
| `programs` | every format of 4, line of 5 (7 over fewer characters), pattern and text of 4 characters, texts of 7 through a buffer of 4; 16 addresses; 6 bytes of memory; 5 command trees; an image of 16 sectors that fills | the code agrees with its reference on all of them; the prompt returns |
| `progress` | 1 CPU and 3 slots; a pipe of 1 byte; console; clock; log; disk, each with fairness | a level is served, a killed process leaves user space, sleepers go on |
| `proc_starvation` | 1 CPU, 2 slots, the real constants, fairness; a violation | a spinning process in the last queue starves queue 0 |
| `pipe_missed_kill` | 2 processes, ring of 1, fairness; a violation | a kill between test and sleep is missed |
| `inode_transaction` | 2 processes, 2 inodes; a violation | `iput` frees an inode outside a transaction |

Bounds. Three slots give init, a parent or orphan, and its child: enough for a
wait/exit race with a third process running, and for a queue with a first, a middle
and a last element. Two levels have a top and a bottom; two CPUs have one that waits
for the lock. `MaxPid` bounds the number of forks; a slot is reused after it was
reaped or given back. `MAX_QUANTUM = 1` makes every tick yield, the most interleaved
case; `run_queues` uses the real value too. `LevelServed` is checked with quantum 1 and
without `set_priority`, so it says nothing about a quantum that passes `MAX_QUANTUM`; that
this does not happen is `QuantumInv` of the proofs. CPUs, and processes that are compared only
for equality, are symmetry sets in the safety runs.

In `storage` four blocks and three places in the log give a transaction that fits, one
that does not, and absorption; the number of crashes is not bounded. Two buffers for
three sectors make every access recycle; two buffers for two processes and a pinned block
are one too few, and there `bget`'s panic is reached; a file of one direct and two indirect
blocks of two bytes has every boundary that one of 12 and 128 of 512 has, and four
blocks of disk are used up by one file. Two blocks are not enough for it, and eight, the
last of which is the log's, not for two. In `names` paths of two elements reach a
directory inside a directory, and four inodes are the root, two directories and a
file; three cache entries for two inodes and three processes leave an entry to reuse;
three files for two times two descriptors run out. In `memory` the frames are few enough
for each allocation of fork and exec to be the first that fails; segments overlap, leave
holes, are not aligned, or end beyond the last address. In `programs` the shell's order of
commands is checked where fork does not fail, its descriptors also where it does. In `pipe` a write
of three bytes does not fit the ring of two, and the counters wrap after two rings.
Counters (`Word`, `WORD`, `ADDRS`) wrap within a few steps instead of 2^32.

`CHECK_DEADLOCK FALSE`: in `pipe`, processes that hold both ends may all wait for each
other, which is for the programs to avoid; `names` may stop in the panic of `log_write`
(see the findings); in `memory` the CPUs stop when all have started, and a process may be
killed out of memory; `programs` end; `progress` contains the pipe, and a panic of init.
`Log`, the caches, files and devices never stop, and deadlock is checked there.

Fairness. `Proc`: strong fairness of each CPU's `scheduler()` and clock, and of each
process's own kernel code. The clock interrupts periodically and a pending interrupt
is taken when interrupts are enabled again; `scheduler()` is a loop; a process that is
given a CPU again and again executes instructions. Strong, because `acquire` may find
the lock taken any number of times; a spinning `xchg` is assumed to succeed if the
lock is free again and again. User programs are not fair: they may spin for ever or
never call. `Pipe`, `Console`, `Ticks`: strong, per process, for code in the kernel,
because of the spinlock; for `Ticks` also the clock. `Log` and `Bcache`: weak, for a system
call that goes on to its `commit_trans`, recovery, the drive and its interrupt; nothing
disables these steps but a crash. Typing, closing and killing are not fair. In `MCLive` one
conjunct states the fairness of several components; as a behaviour has one component,
this is the conjunction of theirs. `Shell`: weak, of its processes, and a program ends
when its input has ended. `Umalloc`: weak, of the running call.

The fairness of a process in the kernel assumes that it gets a CPU when it is woken.
`SleepersGoOn` rests on this in the pipe, the console, the clock, the log and the disk, and
`proc_starvation` shows that `scheduler()` does not grant it beside a process that spins:
`SleepersGoOn` says that no wakeup is missing, not that a woken process runs.

## Findings

Runs that show a disagreement between the code and what the repository says of it:

- `proc_starvation`: `scheduler()` advances its level only when the level is empty, so
  a process that spins at the lowest level keeps its CPU from every other level.
- `pipe_missed_kill`: `kill` may come between the test of `killed` and `sleep`.
- `inode_transaction`: `exit`, `sys_chdir`, `namex`, `exec` and `sys_open` call `iput`
  outside a transaction, and it may free the inode.

Other differences the models contain; no run states them, the properties are
worded so as to hold beside them:

- `kill` looks for the pid in free slots too (pid 0), and `allocproc` does not clear
  `killed`, so the next process of the slot starts killed (`proc.c:537`).
- `pipewrite` returns -1 from a full pipe without the wakeup its other exits make; a
  reader stays asleep (`pipe.c:85`; the exception in `ReaderWoken`).
- `ideintr` marks a buffer valid after a read error (`ide.c:106`; `ERRORS = TRUE`, where
  `IsBlockStore` is false), and after a spurious interrupt it takes a write for finished
  that is not (`SPURIOUS = TRUE`, where `WriteThrough` is false).
- Echo and `cprintf` on two CPUs use the display controller under different locks
  (`console.c:215`; `SMP = TRUE`).
- When memory runs out for a page table, `setupkvm` and `copyuvm` lose the page they were
  about to use (`vm.c:142`, `328`), and `allocuvm` does not look at the result of `mappages`:
  the process grows with a hole, at which a later fork panics (`vm.c:240`). A forked child
  can access the guard page of its stack, which `copyuvm` maps like any other.
- A process in a removed directory finds `..` of it freed or reused (`sysfile.c:215`)
  and can create files in it that no path reaches (`sysfile.c:254`).
- `exec` does not look at the alignment of a segment, nor at its `vaddr` beyond the sum with
  `memsz`, which may go round (`exec.c:44`): such a segment panics in `loaduvm`, or is copied to
  where only the kernel maps (`vm.c:195`). `SizesMapped` follows neither.
- A negative count of `sys_read` and `sys_write` passes `argptr`, which adds it as an unsigned
  number (`syscall.c:61`), and is left to `fileread` and `filewrite`; `readi` takes it as
  unsigned. `InBounds` claims the range for counts that are not negative.
- `malloc` rounds the request up to units in unsigned arithmetic (`umalloc.c:69`): one near
  the largest number is taken for a small one. `UmallocAssumption` excludes it.
- NBUF is LOGSIZE, and each of NPROC processes may hold a buffer besides what a transaction
  pins: `bget` may panic for want of one (`bio.c:92`; `Few` in `MCStorage`).
- `balloc` scans to `sb.size`, and mkfs does not mark the log's sectors in the bitmap: when the
  data blocks are used up, files get the blocks of the log (`fs.c:61`).
- grep takes the buffer to end in a NUL, which `read` does not store: behind what the last
  read returned there may be text of an earlier one, also of an earlier file, and its lines are
  looked at again (`grep.c:20`; `clean`). It loses or repeats text when a line is longer than its
  buffer or when `read` returns a line in pieces (`grep.c:28`; `MaxLine > BUF`, `Pieces = TRUE`).
- mkfs rounds the root's size up past a full block (`mkfs.c:146`), and files that need more
  than `nblocks` run into the log (`mkfs.c:264`).

## Proofs

`ProcProofs` proves, for every `NPROC`, set of CPUs, `MLF_LEVELS`, `MAX_QUANTUM`,
channels and arguments that satisfy `ProcAssumption`:

- `QueuesAreIntact`: `Spec => []QueuesIntact`;
- `SchedulerNeverPanics`: `Spec => []NoPanic`;
- `EachOnOneCpu`: `Spec => []OneCpuEach`;
- `PidsAreUnique`: `Spec => []UniquePids`.

`TypeCorrect` (`Spec => []TypeOK`) is proved with them and no result of its own: that the
levels of processes are levels is assumed of the arguments of `set_priority`.

`QueuesIntact` is not inductive. `desencolar` compares pids, so it needs
`UniquePids`; that needs every pid to be below `nextpid` (`PidInv`). `encolar` must
not be given a process that is queued already: a yielding or sleeping process is
RUNNING on exactly one CPU (`CpuInv`: who runs where and who holds the lock), a
process woken by `wakeup` is SLEEPING, and fork's child is an EMBRYO that belongs
to one parent (`ForkInv`, `CtxInv`). A CPU inside a wakeup holds the lock and is not
in `sched()` (`WakeInv`), and a running process has not reached `MAX_QUANTUM`
(`QuantumInv`). `IInv` is their conjunction, one lemma per action shows that the
action keeps it, and `EnqueueIntact` and `DequeueIntact` do the work on the pointers.

`LogProofs` proves, for all sets of processes, blocks and values and every size of
the log, `TransactionsExclude` (`Spec => []OneTransaction`), `LogTypeCorrect`
(`Spec => []TypeOK`) and `LogIsAtomic` (`Spec => Atomic`, the refinement of
`AtomicDisk`). The invariant `LInv` says who holds `busy` (`BusyInv`), that no sector
is logged twice (`HeadInv`), that a clean buffer equals the disk and a dirty one the
log (`CacheInv`), and how far a commit or a recovery has come (`PhaseInv`). With it
every step maps to a step of `AtomicDisk` or to a stutter: `write_head` is the commit,
copying and erasing are invisible, a crash and the panic lose only what was not
committed. The lemmas on `Overlay` say what recovery makes of the disk.

The second part of `ProcProofs` goes on from `IInv`, under the same assumption:

- `ParentsAreAlive` (`Spec => []ParentAlive`) and `WaitersHaveReason`
  (`Spec => []WaiterHasReason`). Neither is inductive. `FamilyInv` adds who is whose
  child while a fork is under way (`TreeInv`), that init is never in the locked part of
  `exit` (`InitInv`), and that a process there has woken its parent, which has not slept
  since, and has handed its children on before it becomes a zombie (`ExitInv`).
- `KilledStayOut` (`Spec => KilledStaysOut`), an action property: of all steps only those
  of `scheduler`, `fork` and the return of a system call take a process to user space,
  and each of them tests `killed` or starts an EMBRYO.
- `TableImplementsMlfq` (`Spec => Implements`): the order in which `next` pointers lead
  through a level is determined by them and is the queue of `Mlfq`; each action changes
  it as `Mlfq` says, or leaves it alone.

`PipeProofs` proves, for every set of processes, `PIPESIZE` and larger `WORD`,
`PipeNeverUsedAfterFree` (`Spec => []NoUseAfterFree`), `PipeLosesNoWakeup`
(`Spec => NoLostWakeup`) and `PipeIsFifo` (`Spec => IsFifo`, the refinement of `Channel`).
The invariant `PInv` bounds the bytes in the ring (`RingInv`), ties the ends that are
open to who has or is closing them (`EndsInv`), says who is inside (`WhereInv`) and why
a sleeper, or one about to sleep, does so (`SleepInv`). The counters wrap at `WORD`, so
the proof of the refinement needs that the places `pipewrite` fills are distinct and hold
no byte still to be read: `PipeAssumption` has `PIPESIZE` divide `WORD`, as 512 divides
2^32, and the lemmas on remainders do the rest.

`SpinlockProofs` proves `LocksAreExclusive` (`Spec => Exclusive`) for every number of
CPUs, processes and locks under `SpinlockAssumption`. The invariant `SInv` says that
`locked` is set exactly for the lock of one thread (`OwnInv`), that `cpu` names the CPU
on which its holder runs (`NamedInv`: the reason why `holding` may compare CPUs), that
`ncli` is the number of locks of the running thread, and one more halfway through
`acquire` and `release`, with interrupts off (`DepthInv`), and that `intena`, or what
`sched` saved of it, is the flag the thread found before its first lock (`FlagInv`).
`swtch` is the delicate step: the lock, the depth and the flag pass to another thread.

`BcacheProofs` and `BcacheStoreProofs` prove of the buffer cache and its drivers, for
every set of processes, sectors and data and every finite set of buffers:

- `EachBlockHasOneBuffer` (`Spec => []OneBufferEach`) and `BufferWaitersHaveReason`
  (`Spec => []WaiterHasReason`), whatever the drive answers and whenever it interrupts;
- `WritesReachTheDisk` (`Spec => [][WriteThrough]_vars`) when the drive reports no error
  and interrupts only for its commands. With spurious interrupts `ideintr` takes a buffer
  off the queue before its sector is written, and `WriteThrough` is false;
- `CacheIsBlockStore` (`Spec => IsBlockStore`, the refinement of `BlockStore`) when the
  drive reports no error, over the IDE disk, spurious interrupts included, and over
  the memory disk. After an error `ideintr` marks a buffer valid that was not read;
- `CacheSharesBuffers` (`Spec => []BuffersShared`): the above with the types, and
  `PanicsOnlyWhenFull`: whatever the number of buffers, when `bget` panics each one is with a
  process or dirty, and `iderw` is never called for nothing. So no sleep, kill or error loses a
  buffer;
- `CacheNeverPanics` (`Spec => []NoPanic`) under `BuffersSuffice`: as many buffers as the
  processes may hold and the log may pin.

The invariant `BInv` has one conjunct for each structure: the list holds each buffer once
(`ListInv`), a sector has one buffer (`BufferInv`), a busy buffer one process
(`HolderInv`), a queued buffer a process that waits for it and is not yet what it waits
for (`QueueInv`), the drive works on the head of the queue (`DriveInv`), and a clean
buffer has what is on the disk or on its way there, and so has a dirty one whose write has
been started (`DataInv`; what is on its way is the data of the drive's command, `Latest`).
`NoPanic` is a matter of counting: `CountInv` bounds what
each process holds and what is pinned, a process in `bget` holds fewer than it may, and so
the busy and the pinned buffers inject into fewer places than there are buffers
(`SharedOut`, `CountsSuffice`). `BuffersSuffice` is an assumption about the load that `param.h`
does not grant: `NBUF` and `LOGSIZE` are 10, and there are 64 processes. With these numbers the
panic is possible, and what holds is `CacheSharesBuffers`.

`MemoryProofs` proves `PagesNotShared` (`Spec => []NoAlias`) for every set of processes,
number of page frames, size of pages, page tables and addresses, and all arguments of
`sbrk` and `exec` that satisfy `MemoryAssumption`. `NoAlias` speaks of references; the
proof speaks of holders: each process holds pages in four roles, in its page directory, in
the one its call is making or freeing, as its stack, and as the page at hand between
`kalloc` and `mappages`, and `Apart` says that no page is held twice or free. It takes that
no directory has a page in two places (`TidyInv`), and that every page given away has one
owner: the child of a `fork` is an EMBRYO of one parent and that of a `wait` a ZOMBIE with
one waiter (`ChildInv`), a process in a call is alive and has a stack and a directory
(`UsedInv`), and only `sbrk` works on the directory of its process (`LocalOk`). Most steps
change only the caller (`OwnStep`), `fork` and `wait` one process more (`CalleeStep`); what
is left for an action is which pages change hands. The only arithmetic is that an address
below `KERNBASE` is on a page of the table (`UserPage`), which needs `KERNBASE` to be a
multiple of what a page table maps. `SizeMapped`, `NoPanic` and `FramesAccounted` are not
proved: they are false when a `kalloc` for a page table fails (see the findings), so they
are checked in instances in which that cannot happen.

`InodeProofs` proves `InodesAreShared` (`Spec => []InodesShared`) for every finite set of
processes, size of the cache and number of inodes (`InodeAssumption`). The delicate part
of the code is that `iput` frees an inode without `icache.lock`: the inode is free on disk,
and `ialloc` may hand it out again, while an entry of the cache still holds it. Its invariant
`IInv` says that `ref` is the number of pointers to an entry (`PointerInv`), that entries in
use hold different inodes (`EntryInv`), that `I_BUSY` belongs to one process
(`HolderInv`), that `nlink` on disk is the number of directory entries and a free inode has
none (`LinkInv`), that an inode between the two steps of `ialloc` belongs to one process
and has no links (`FreshInv`), and that a valid copy is that of the disk, where an entry in use
holds a free or just allocated inode only while the process that freed it has the only
pointer to the entry (`CopyInv`, `Leaving`). This last clause closes the gap: a lookup cannot
reach the inode, as no directory entry names it, and when `ialloc` comes upon the entry that
is going, `iput` clears `I_VALID` before anyone reads the copy. Steps that change no pointer,
that move, gain or lose one, and those of the holder of an inode each have a lemma; the counting
rests on the theorems about finite sets. TLC checked `IInv` on instances with three processes
before the proof.

The runs check on an instance what the theorems say of all: `proc_lifecycle`, `storage`,
`names`, `pipe`, `memory` and `devices` have the same definitions as properties, except that `storage` checks
`IsBlockStore` and `BuffersShared` of `Bcache` in several instances, under names of its
own, and `run_queues` the refinement `Implements` in three more. The type invariants,
`NoPanic` and `UniquePids` of `Proc` and `OneTransaction` of `Log` are proved as well, and
no run repeats them.

Only model-checked:

- everything under fairness (`progress`, and the two violations about liveness): the
  prover has no rule for it;
- the file system above the inode cache (`Dirs`, `Files`, `FileData`), what memory
  counts (`SizesMapped`, `PagesAccounted`), `Boot`, `Umalloc`, the console, clock, keyboard and screen, `Sysargs`,
  `Strings` and `Mkfs`: their proofs are not written;
- `Printf`, `Grep`, `ShellParser` and `Shell`: what they compute is defined by recursive
  operators over data, for which the prover has no induction.

## Not modelled

- Hardware set-up (`mp.c`, `lapic.c`, `ioapic.c`, `picirq.c`, `timer.c`, `uart.c`,
  `bootasm.S`, `bootmain.c`, `entry.S`): one pass over device registers and BIOS tables
  before anything can interleave with it.
- Generated vectors, `x86.h` and headers of constants and layouts: single instructions.
- `usertests` and the small user programs: straight-line callers; they are the
  environment of the kernel modules.
- What is on the disk once a commit has written over a block of a file in the log's sectors.
- The path after `panic`, which only prints and stops.
- `nextpid` overflow after 2^31 forks; the proofs take pids as naturals.
- Splitting of path strings (`skipelem`) and device inodes (`sys_mknod`); the contents
  of pages, and permissions other than the user bit of the guard page; `cd` in the shell.

## Further work

1. Proofs of the safety properties of `Files`, `Dirs` and `Ticks`.
2. `Dirs` over `Inode` instead of its abstraction, and `Inode` over `Log`.
