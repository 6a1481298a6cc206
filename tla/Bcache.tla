------------------------------- MODULE Bcache -------------------------------
(***************************************************************************)
(* The buffer cache (bio.c) over the IDE driver (ide.c).  Processes take   *)
(* buffers with bread, change them, write them through with bwrite or pin  *)
(* them dirty with log_write, and give them back with brelse.  The         *)
(* critical sections of bcache.lock and idelock are atomic; everything     *)
(* between them interleaves, with the drive and its interrupt as well.     *)
(* Both bget and iderw sleep on the buffer, so each is also woken by the   *)
(* other's wakeup, and by kill.  MEMDISK selects memide.c as the driver.   *)
(***************************************************************************)
EXTENDS Naturals, Sequences, FiniteSets, Functions

CONSTANTS
    Procs,      \* processes that use the cache
    Bufs,       \* bcache.buf (NBUF)
    Sectors,    \* blocks of the disk, a set of numbers
    Data,       \* contents of a block
    NoOne,      \* no process, no sector, no buffer
    MaxHeld,    \* buffers a process holds at a time
    MaxPinned,  \* buffers log_write keeps dirty at a time
    SPURIOUS,   \* may the controller raise an interrupt nobody asked for?
    ERRORS,     \* may the drive fail to read a sector?
    MEMDISK     \* is the driver memide.c?

\* What the constants have to satisfy.
BcacheAssumption ==
    /\ Sectors \subseteq Nat /\ NoOne \notin Procs \cup Sectors \cup Bufs
    /\ IsFiniteSet(Bufs) /\ Data # {}

\* There are buffers for all that the processes hold and the log pins.  param.h does not
\* grant it: NBUF is LOGSIZE, and NPROC processes may each hold a buffer besides.
BuffersSuffice ==
    /\ IsFiniteSet(Procs) /\ MaxHeld \in Nat /\ MaxPinned \in Nat
    /\ Cardinality(Bufs) >= Cardinality(Procs) * MaxHeld + MaxPinned

VARIABLES
    buf,        \* buf[b]: sector, flags (busy, valid, dirty) and data of buffer b
    lru,        \* the list through head.next, most recently used first
    idequeue,   \* buffers that wait for the drive; the first one is active
    drive,      \* the command the drive works on
    irq,        \* is its interrupt pending?
    disk,       \* disk[s]: contents of the platter
    place,      \* place[p]: where p is in the code
    want,       \* want[p]: the sector p asked bread for
    cur,        \* cur[p]: the buffer p passed to iderw
    held        \* held[p]: the buffers p has and is free to use

bufVars == <<buf, lru>>
ideVars == <<idequeue, drive, irq, disk>>
procVars == <<place, want, cur, held>>
vars == <<bufVars, ideVars, procVars>>

Places == {"user", "bget", "bget_sleep", "iderw", "iderw_sleep", "iderw_wake"}
Idle == [busy |-> FALSE, sector |-> NoOne, write |-> FALSE, data |-> CHOOSE v \in Data : TRUE]

\* wakeup(b): everyone asleep on buffer b, in bget or in iderw, looks again.  A
\* buffer somebody waits for in bget is busy, so its sector does not change.
SleepsOn(p, b) ==
    \/ place[p] = "bget_sleep" /\ want[p] = buf[b].sector
    \/ place[p] = "iderw_sleep" /\ cur[p] = b

\* Where a process goes on when it is woken.
Woken(pl) == IF pl = "bget_sleep" THEN "bget" ELSE "iderw_wake"

\* Mutant of Wake: only the process that waits for the drive is woken.
Wake_one(b) ==
    [p \in Procs |-> IF place[p] = "iderw_sleep" /\ cur[p] = b THEN "iderw_wake" ELSE place[p]]

Wake(b) == [p \in Procs |-> IF SleepsOn(p, b) THEN Woken(place[p]) ELSE place[p]]

\* bread(dev, s).  Callers that hold a block take the next one in a fixed order
\* (inode data, then bitmap, then log), which the order of sectors stands for.
bread(p, s) ==
    /\ place[p] = "user" /\ Cardinality(held[p]) < MaxHeld
    /\ \A b \in held[p] : buf[b].sector < s
    /\ place' = [place EXCEPT ![p] = "bget"]
    /\ want' = [want EXCEPT ![p] = s]
    /\ UNCHANGED <<bufVars, ideVars, cur, held>>

Cached(s) == {b \in Bufs : buf[b].sector = s}

\* Mutant of Victims: only the least recently used buffer is considered.
Victims_last == {i \in {Len(lru)} : ~buf[lru[i]].busy /\ ~buf[lru[i]].dirty}

\* Positions in the list of the buffers that may be recycled.
Victims == {i \in 1..Len(lru) : ~buf[lru[i]].busy /\ ~buf[lru[i]].dirty}

\* Mutant of Flags: a recycled buffer keeps B_VALID.
Flags_kept(b, s) == [buf[b] EXCEPT !.sector = s, !.busy = TRUE]

\* The buffer bget hands out: as it was when it has the sector, else recycled,
\* with all flags but B_BUSY cleared.
Flags(b, s) ==
    [buf[b] EXCEPT !.sector = s, !.busy = TRUE, !.valid = @ /\ buf[b].sector = s]

\* bget's return to bread, which calls iderw unless the buffer is valid.
BgetReturns(p, b) ==
    /\ buf' = [buf EXCEPT ![b] = Flags(b, want[p])]
    /\ want' = [want EXCEPT ![p] = NoOne]
    /\ IF buf'[b].valid
       THEN /\ held' = [held EXCEPT ![p] = @ \cup {b}]
            /\ place' = [place EXCEPT ![p] = "user"]
            /\ UNCHANGED cur
       ELSE /\ cur' = [cur EXCEPT ![p] = b]
            /\ place' = [place EXCEPT ![p] = "iderw"]
            /\ UNCHANGED held
    /\ UNCHANGED <<lru, ideVars>>

bget_hit(p) ==
    /\ place[p] = "bget"
    /\ \E b \in Cached(want[p]) : ~buf[b].busy /\ BgetReturns(p, b)

\* The sector is cached but busy: sleep on its buffer, then look again.
bget_sleep(p) ==
    /\ place[p] = "bget"
    /\ \E b \in Cached(want[p]) : buf[b].busy
    /\ place' = [place EXCEPT ![p] = "bget_sleep"]
    /\ UNCHANGED <<bufVars, ideVars, want, cur, held>>

\* Mutant of bget_recycle: a woken process takes the recycling path without
\* looking for the sector again.
bget_recycle_unscanned(p) ==
    /\ place[p] = "bget"
    /\ \E i \in Victims : (\A j \in Victims : j <= i) /\ BgetReturns(p, lru[i])

bget_recycle(p) ==
    /\ place[p] = "bget" /\ Cached(want[p]) = {}
    /\ \E i \in Victims : (\A j \in Victims : j <= i) /\ BgetReturns(p, lru[i])

\* The caller fills the block and calls bwrite, which calls iderw.
bwrite(p, b, v) ==
    /\ place[p] = "user" /\ b \in held[p]
    /\ buf' = [buf EXCEPT ![b].data = v, ![b].dirty = TRUE]
    /\ held' = [held EXCEPT ![p] = @ \ {b}]
    /\ cur' = [cur EXCEPT ![p] = b]
    /\ place' = [place EXCEPT ![p] = "iderw"]
    /\ UNCHANGED <<lru, ideVars, want>>

\* The caller fills the block and calls log_write, which marks the cached copy
\* dirty so that it stays in the cache until the transaction installs it.
log_write(p, b, v) ==
    /\ place[p] = "user" /\ b \in held[p]
    /\ Cardinality({c \in Bufs \ {b} : buf[c].dirty}) < MaxPinned
    /\ buf' = [buf EXCEPT ![b].data = v, ![b].dirty = TRUE]
    /\ UNCHANGED <<lru, ideVars, procVars>>

\* b is taken out of where it is in the list and put in at head.next.
ToFront(b) ==
    LET i == CHOOSE k \in DOMAIN lru : lru[k] = b
    IN <<b>> \o (SubSeq(lru, 1, i - 1) \o SubSeq(lru, i + 1, Len(lru)))

\* brelse(b): to the front of the list, not busy, wake those who wait for it.
brelse(p, b) ==
    /\ place[p] = "user" /\ b \in held[p]
    /\ buf' = [buf EXCEPT ![b].busy = FALSE]
    /\ lru' = ToFront(b)
    /\ held' = [held EXCEPT ![p] = @ \ {b}]
    /\ place' = Wake(b)
    /\ UNCHANGED <<ideVars, want, cur>>

\* idestart(b) spins until the drive is ready and gives it the command and,
\* for a write, the data.
idestart(b) ==
    /\ ~drive.busy
    /\ drive' = [busy |-> TRUE, sector |-> buf[b].sector, write |-> buf[b].dirty,
                 data |-> buf[b].data]

\* iderw(b): append to the queue, start the drive if it is the only request, sleep.
iderw(p) ==
    /\ ~MEMDISK /\ place[p] = "iderw"
    /\ idequeue' = Append(idequeue, cur[p])
    /\ IF idequeue = <<>> THEN idestart(cur[p]) ELSE UNCHANGED drive
    /\ place' = [place EXCEPT ![p] = "iderw_sleep"]
    /\ UNCHANGED <<bufVars, irq, disk, want, cur, held>>

\* Mutant of Transferred: iderw does not look again after sleep.
Transferred_any(b) == TRUE

Transferred(b) == buf[b].valid /\ ~buf[b].dirty

\* The loop around sleep in iderw: return when the buffer is valid and clean.
iderw_wake(p) ==
    /\ place[p] = "iderw_wake"
    /\ IF Transferred(cur[p])
       THEN /\ held' = [held EXCEPT ![p] = @ \cup {cur[p]}]
            /\ cur' = [cur EXCEPT ![p] = NoOne]
            /\ place' = [place EXCEPT ![p] = "user"]
       ELSE /\ place' = [place EXCEPT ![p] = "iderw_sleep"]
            /\ UNCHANGED <<held, cur>>
    /\ UNCHANGED <<bufVars, ideVars, want>>

\* iderw as memide.c has it: the transfer is done before it returns.
iderw_mem(p) ==
    /\ MEMDISK /\ place[p] = "iderw"
    /\ LET b == cur[p]
       IN IF buf[b].dirty
          THEN /\ disk' = [disk EXCEPT ![buf[b].sector] = buf[b].data]
               /\ buf' = [buf EXCEPT ![b].dirty = FALSE, ![b].valid = TRUE]
          ELSE /\ buf' = [buf EXCEPT ![b].data = disk[buf[b].sector], ![b].valid = TRUE]
               /\ UNCHANGED disk
    /\ held' = [held EXCEPT ![p] = @ \cup {cur[p]}]
    /\ cur' = [cur EXCEPT ![p] = NoOne]
    /\ place' = [place EXCEPT ![p] = "user"]
    /\ UNCHANGED <<lru, idequeue, drive, irq, want>>

\* The calls of panic in bget ("no buffers") and in iderw ("nothing to do").
Panics(p) ==
    \/ place[p] = "bget" /\ Cached(want[p]) = {} /\ Victims = {}
    \/ place[p] = "iderw" /\ buf[cur[p]].valid /\ ~buf[cur[p]].dirty

\* The drive finishes its command and raises the interrupt.
DriveDone ==
    /\ drive.busy
    /\ drive' = Idle
    /\ disk' = IF drive.write THEN [disk EXCEPT ![drive.sector] = drive.data] ELSE disk
    /\ irq' = TRUE
    /\ UNCHANGED <<bufVars, idequeue, procVars>>

Spurious ==
    /\ SPURIOUS /\ idequeue = <<>> /\ ~irq
    /\ irq' = TRUE
    /\ UNCHANGED <<bufVars, idequeue, drive, disk, procVars>>

\* What insl stores: the sector, or nothing when idewait reports an error.
ReadData(b) == {disk[buf[b].sector]} \cup (IF ERRORS THEN {buf[b].data} ELSE {})

\* Mutant of StartNext: the next request in the queue is not started.
StartNext_not == UNCHANGED drive

\* The end of ideintr: start the drive on the next request.
StartNext == IF Len(idequeue) = 1 THEN UNCHANGED drive ELSE idestart(idequeue[2])

\* ideintr for an active request: a read waits for the drive and takes the data;
\* the flags are set whatever idewait said; the next request is started.
ideintr ==
    /\ irq /\ idequeue # <<>> /\ irq' = FALSE
    /\ LET b == Head(idequeue)
       IN /\ buf[b].dirty \/ ~drive.busy
          /\ idequeue' = Tail(idequeue)
          /\ \E v \in (IF buf[b].dirty THEN {buf[b].data} ELSE ReadData(b)) :
                 buf' = [buf EXCEPT ![b].data = v, ![b].valid = TRUE, ![b].dirty = FALSE]
          /\ place' = Wake(b)
          /\ StartNext
    /\ UNCHANGED <<lru, disk, want, cur, held>>

\* ideintr with an empty queue returns.
ideintr_spurious ==
    /\ irq /\ idequeue = <<>> /\ irq' = FALSE
    /\ UNCHANGED <<bufVars, idequeue, drive, disk, procVars>>

\* kill(pid) makes a sleeper runnable whatever it sleeps on.
kill(p) ==
    /\ place[p] \in {"bget_sleep", "iderw_sleep"}
    /\ place' = [place EXCEPT ![p] = Woken(@)]
    /\ UNCHANGED <<bufVars, ideVars, want, cur, held>>

\* binit: every buffer is free and names no sector (dev = -1).
Init ==
    /\ disk \in [Sectors -> Data]
    /\ buf = [b \in Bufs |-> [sector |-> NoOne, busy |-> FALSE, valid |-> FALSE,
                              dirty |-> FALSE, data |-> CHOOSE v \in Data : TRUE]]
    /\ lru = CHOOSE q \in Bijection(1..Cardinality(Bufs), Bufs) : TRUE
    /\ idequeue = <<>> /\ drive = Idle /\ irq = FALSE
    /\ place = [p \in Procs |-> "user"] /\ want = [p \in Procs |-> NoOne]
    /\ cur = [p \in Procs |-> NoOne] /\ held = [p \in Procs |-> {}]

Kernel(p) ==
    \/ bget_hit(p) \/ bget_sleep(p) \/ bget_recycle(p)
    \/ iderw(p) \/ iderw_wake(p) \/ iderw_mem(p)
Client(p) ==
    \/ \E s \in Sectors : bread(p, s)
    \/ \E b \in held[p] : brelse(p, b) \/ \E v \in Data : bwrite(p, b, v) \/ log_write(p, b, v)
Device == DriveDone \/ Spurious \/ ideintr \/ ideintr_spurious

Next == (\E p \in Procs : Kernel(p) \/ Client(p) \/ kill(p)) \/ Device
Spec == Init /\ [][Next]_vars

-----------------------------------------------------------------------------
(* Properties *)

\* The variables have their types; the list holds each buffer once.
TypeOK ==
    /\ buf \in [Bufs -> [sector : Sectors \cup {NoOne}, busy : BOOLEAN, valid : BOOLEAN,
                         dirty : BOOLEAN, data : Data]]
    /\ Range(lru) = Bufs /\ IsInjective(lru) /\ IsInjective(idequeue)
    /\ Range(idequeue) \subseteq Bufs
    /\ place \in [Procs -> Places] /\ disk \in [Sectors -> Data]

Latest(s) == IF drive.busy /\ drive.write /\ drive.sector = s THEN drive.data ELSE disk[s]
Holder(b) == {p \in Procs : b \in held[p] \/ cur[p] = b}
content == [s \in Sectors |->
    IF \E b \in Cached(s) : buf[b].valid
    THEN (CHOOSE c \in {buf[b] : b \in {d \in Cached(s) : buf[d].valid}} : TRUE).data
    ELSE Latest(s)]
owner == [s \in Sectors |->
    IF \E b \in Cached(s) : buf[b].busy
    THEN CHOOSE p \in UNION {Holder(b) : b \in Cached(s)} : TRUE ELSE NoOne]

Abstract == INSTANCE BlockStore

\* Through recycling, waiting, kills and the order of the disk queue, the cache
\* is an array of blocks that hold what was last written to them, each in the
\* hands of one process at a time (bread, bwrite, brelse).
IsBlockStore == Abstract!Spec

\* A sector has at most one buffer, a busy buffer exactly one process, and a free
\* one none: the loop in bget that looks again after sleep keeps two processes from
\* caching a block twice.
OneBufferEach ==
    /\ \A s \in Sectors : Cardinality(Cached(s)) <= 1
    /\ \A b \in Bufs : Cardinality(Holder(b)) = IF buf[b].busy THEN 1 ELSE 0

\* bget gives up only when it has to: the sector has no buffer, and each buffer is
\* with a process or holds a block log_write pinned; none is lost between brelse,
\* sleeps and errors.  iderw is never called for nothing.
PanicsOnlyWhenFull ==
    \A p \in Procs : Panics(p) => /\ place[p] = "bget" /\ Cached(want[p]) = {}
                                  /\ \A b \in Bufs : Holder(b) # {} \/ buf[b].dirty

\* Under BuffersSuffice neither panics at all.
NoPanic == \A p \in Procs : ~Panics(p)

\* When bwrite returns the block is on the platter, not only on its way: the
\* order in which the log writes its blocks depends on it.
WriteThrough ==
    \A p \in Procs : place[p] = "iderw_wake" /\ place'[p] = "user" => buf[cur[p]].data = disk[buf[cur[p]].sector]

\* A process that waits for the drive gets its buffer, even when the wakeup is
\* another's, when it is killed, or when other requests are ahead in the queue.
TransferEnds == \A p \in Procs : cur[p] # NoOne ~> cur[p] = NoOne

\* A process that waits for a busy buffer sleeps only while somebody has it.
WaiterHasReason ==
    \A p \in Procs : place[p] = "bget_sleep" => \E b \in Cached(want[p]) : buf[b].busy

\* The buffers are shared as bget and brelse promise: all of this at once.
BuffersShared == TypeOK /\ OneBufferEach /\ WaiterHasReason /\ PanicsOnlyWhenFull
=============================================================================
