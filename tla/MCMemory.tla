------------------------------ MODULE MCMemory ------------------------------
(***************************************************************************)
(* Instances for TLC of what gives out memory: the address spaces of       *)
(* processes, the page allocator while the CPUs start, and malloc.  A      *)
(* behaviour is one of one instance, which component names; the others     *)
(* stay as they are.                                                       *)
(***************************************************************************)
EXTENDS Memory

\* Memory itself is the instance in which memory runs out, in sbrk, fork and exec.
VARIABLES
    component,
    free2, state2, kstack2, sz2, pgdir2, k2,
    freelist, next, use_lock, lock, mailbox, started, user, c, owned,
    ptr, size, freep, brk, core, used, call

Ph(v, m, f) == [vaddr |-> v, memsz |-> m, filesz |-> f]
MCSegments == {Ph(0, 1, 1)}

\* Pages of two bytes, grown and shrunk by amounts that are and are not multiples.
Bytes == INSTANCE Memory WITH Procs <- {1, 2}, initproc <- 1, NFRAMES <- 11, PGSIZE <- 2, NPTENTRIES <- 3,
    KERNBASE <- 6, ADDRS <- 16, KTABLES <- 1, Grow <- {1, 2, 3, 12, 14, 15}, Segments <- {},
    free <- free2, state <- state2, kstack <- kstack2, sz <- sz2, pgdir <- pgdir2, k <- k2

\* Memory that is enough for two processes, and for one that calls exec and sbrk.
Enough == INSTANCE Memory WITH Procs <- {1, 2}, initproc <- 1, NFRAMES <- 24, PGSIZE <- 1, NPTENTRIES <- 4,
    KERNBASE <- 4, ADDRS <- 8, KTABLES <- 1, Grow <- {1, 7}, Segments <- {},
    free <- free2, state <- state2, kstack <- kstack2, sz <- sz2, pgdir <- pgdir2, k <- k2
Exec == INSTANCE Memory WITH Procs <- {1}, initproc <- 1, NFRAMES <- 16, PGSIZE <- 1, NPTENTRIES <- 4,
    KERNBASE <- 4, ADDRS <- 8, KTABLES <- 1, Grow <- {1, 7}, Segments <- {Ph(0, 1, 1), Ph(0, 2, 1), Ph(1, 4, 1)},
    free <- free2, state <- state2, kstack <- kstack2, sz <- sz2, pgdir <- pgdir2, k <- k2

\* exec with segments that follow, overlap or lie below others, that leave a hole, and
\* that do not fit; the last four are not aligned, go round, or have more in the file
\* than in memory.
Load == INSTANCE Memory WITH Procs <- {1}, initproc <- 1, NFRAMES <- 24, PGSIZE <- 2, NPTENTRIES <- 2,
    KERNBASE <- 12, ADDRS <- 16, KTABLES <- 1, Grow <- {},
    Segments <- {Ph(0, 2, 2), Ph(0, 5, 3), Ph(2, 3, 3), Ph(4, 3, 0), Ph(10, 2, 2),
                 Ph(1, 2, 1), Ph(14, 3, 2), Ph(2, 15, 2), Ph(0, 1, 2)},
    free <- free2, state <- state2, kstack <- kstack2, sz <- sz2, pgdir <- pgdir2, k <- k2

\* Three CPUs and five pages.
Start == INSTANCE Boot WITH Cpus <- {1, 2, 3}, boot <- 1, LowPages <- {1, 2, 3, 4}, HighPages <- {5}

\* Seven units, of which the program takes some with sbrk itself.
Malloc == INSTANCE Umalloc WITH NALLOC <- 3, HEAP <- 7, HEADER <- 2, WORD <- 64,
    Requests <- {0, 2, 5}, Gaps <- {1}, k <- call

ASSUME
    /\ Bytes!MemoryConstants /\ Enough!MemoryConstants /\ Exec!MemoryConstants
    /\ Load!MemoryConstants
    /\ Start!BootAssumption /\ Malloc!UmallocAssumption

pageVars == <<free2, state2, kstack2, sz2, pgdir2, k2>>
bootVars == <<freelist, next, use_lock, lock, mailbox, started, user, c, owned>>
mallocVars == <<ptr, size, freep, brk, core, used, call>>
MemoryVars == <<component, vars, pageVars, bootVars, mallocVars>>

NoPages == free2 = 0 /\ state2 = 0 /\ kstack2 = 0 /\ sz2 = 0 /\ pgdir2 = 0 /\ k2 = 0

MemoryInit ==
    /\ Init /\ Start!Init /\ Malloc!Init
    /\ \/ component = "bytes" /\ Bytes!Init
       \/ component = "enough" /\ Enough!Init
       \/ component = "exec" /\ Exec!Init
       \/ component = "load" /\ Load!Init
       \/ component \in {"short", "boot", "malloc"} /\ NoPages

MemoryNext ==
    /\ UNCHANGED component
    /\ \/ component = "short" /\ Next /\ UNCHANGED <<pageVars, bootVars, mallocVars>>
       \/ component = "bytes" /\ Bytes!Next /\ UNCHANGED <<vars, bootVars, mallocVars>>
       \/ component = "enough" /\ Enough!Next /\ UNCHANGED <<vars, bootVars, mallocVars>>
       \/ component = "exec" /\ Exec!Next /\ UNCHANGED <<vars, bootVars, mallocVars>>
       \/ component = "load" /\ Load!Next /\ UNCHANGED <<vars, bootVars, mallocVars>>
       \/ component = "boot" /\ Start!Next /\ UNCHANGED <<vars, pageVars, mallocVars>>
       \/ component = "malloc" /\ Malloc!Next /\ UNCHANGED <<vars, pageVars, bootVars>>

\* A call of malloc or free goes on as long as its process runs.
MemorySpec == MemoryInit /\ [][MemoryNext]_MemoryVars /\ WF_mallocVars(component = "malloc" /\ Malloc!Call)

-----------------------------------------------------------------------------
(* Properties: NoAlias of Memory, and those of the other instances where they apply. *)

\* While no allocation fails no page is lost, by sbrk, fork, exit, wait or exec, also
\* when exec refuses the program; and while the CPUs start, when the allocator runs
\* without its lock until kinit2 and every CPU needs a stack of its own, every page is
\* given out once.
PagesAccounted ==
    /\ component = "enough" => Enough!FramesAccounted
    /\ component = "exec" => Exec!FramesAccounted
    /\ component = "load" => Load!FramesAccounted
    /\ component = "boot" => Start!GivenOnce /\ Start!OwnStack

\* Between system calls the pages mapped are those below p->sz, also after an sbrk
\* that failed halfway, so that no call meets a panic of vm.c: "remap", "copyuvm: page
\* not present", and, for the segments that loaduvm may be called for, "loaduvm: address
\* should exist".
SizesMapped ==
    /\ component = "bytes" => Bytes!SizeMapped /\ Bytes!NoPanic
    /\ component = "enough" => Enough!NoPanic
    /\ component = "exec" => Exec!NoPanic
    /\ component = "load" => Load!NoPanic /\ Load!SizeMapped

\* malloc and free return, wherever in the list they begin; malloc returns 0 only after
\* it has looked at every free block; and between calls the blocks tile the core, no two
\* free ones neighbours (malloc's search and split, free's joins).
MallocRight ==
    /\ component = "malloc" => Malloc!CallsReturn
    /\ [][component = "malloc" => Malloc!RefusedOnlyWhenFull]_MemoryVars
    /\ [](component = "malloc" => Malloc!HeapTiled /\ Malloc!NoneAdjacent)
=============================================================================
