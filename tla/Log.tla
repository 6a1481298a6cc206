-------------------------------- MODULE Log ---------------------------------
(***************************************************************************)
(* The write-ahead log of log.c: transactions, the copy of committed       *)
(* blocks to their home sectors, and recovery after a crash.               *)
(*                                                                         *)
(* A step makes at most one write to the disk, and a crash may come        *)
(* between any two steps.  What a step changes in memory besides is seen   *)
(* by nobody else: the buffers involved are B_BUSY.                        *)
(***************************************************************************)
EXTENDS Integers, Sequences

CONSTANTS
  Procs,     \* processes that make system calls
  Blocks,    \* home sectors of the file system
  Values,    \* contents of a block
  NoData,    \* of a block that is not in the buffer cache
  NoOne,     \* not a process
  LOGSIZE    \* blocks that fit into the log (param.h, or log.size - 1)

ASSUME LogAssumption ==
  /\ LOGSIZE \in Nat \ {0}
  /\ NoData \notin Values
  /\ NoOne \notin Procs

VARIABLES
  disk,      \* on disk: the home sectors
  dlog,      \* on disk: the log blocks
  dhead,     \* on disk: the sectors in the header block, header.n of them
  mem,       \* buffer cache: the contents of home sectors
  dirty,     \* buffer cache: the home sectors with B_DIRTY set
  lh,        \* log.lh: the sectors of the current transaction
  busy,      \* log.busy
  tail,      \* install_trans: the next log block to copy
  pc,        \* where each process is
  boot       \* where initlog() is; "up" when it has returned, "panic"

onDisk == <<disk, dlog, dhead>>
cache == <<mem, dirty>>
vars == <<onDisk, cache, lh, busy, tail, pc, boot>>

\* "asleep" in begin_trans; "in" between begin_trans and commit_trans; then
\* commit_trans: install_trans, the second write_head, and the end.
Places == {"out", "asleep", "in", "install", "clear", "end"}
Boots == {"read", "install", "clear", "up", "panic"}

TypeOK ==
  /\ disk \in [Blocks -> Values]
  /\ dlog \in [1 .. LOGSIZE -> Values]
  /\ dhead \in Seq(Blocks) /\ Len(dhead) <= LOGSIZE
  /\ mem \in [Blocks -> Values \cup {NoData}]
  /\ dirty \subseteq Blocks
  /\ lh \in Seq(Blocks) /\ Len(lh) <= LOGSIZE
  /\ busy \in BOOLEAN
  /\ tail \in 1 .. LOGSIZE + 1
  /\ pc \in [Procs -> Places]
  /\ boot \in Boots

-----------------------------------------------------------------------------
(* The buffer cache, as far as the log depends on it *)

\* bread of a sector that is not cached.
Load(b) ==
  /\ boot = "up" /\ mem[b] = NoData
  /\ mem' = [mem EXCEPT ![b] = disk[b]]
  /\ UNCHANGED <<onDisk, dirty, lh, busy, tail, pc, boot>>

\* bget recycles a buffer that is not dirty.
Evict(b) ==
  /\ boot = "up" /\ mem[b] # NoData /\ b \notin dirty
  /\ mem' = [mem EXCEPT ![b] = NoData]
  /\ UNCHANGED <<onDisk, dirty, lh, busy, tail, pc, boot>>

\* install_trans, one block: bread, memmove, bwrite.
InstallBlock ==
  LET b == lh[tail] IN
  /\ tail <= Len(lh)
  /\ disk' = [disk EXCEPT ![b] = dlog[tail]]
  /\ mem' = [mem EXCEPT ![b] = dlog[tail]]
  /\ dirty' = dirty \ {b}
  /\ tail' = tail + 1
  /\ UNCHANGED <<dlog, dhead, lh, busy>>

\* log.lh.n = 0 and the write_head that erases the log.
EraseLog ==
  /\ tail > Len(lh)
  /\ lh' = <<>>
  /\ dhead' = <<>>
  /\ UNCHANGED <<disk, dlog, cache, busy, tail>>

-----------------------------------------------------------------------------
(* Transactions *)

Goto(p, place) == pc' = [pc EXCEPT ![p] = place]

begin_sleep(p) ==
  /\ boot = "up" /\ pc[p] = "out" /\ busy
  /\ Goto(p, "asleep")
  /\ UNCHANGED <<onDisk, cache, lh, busy, tail, boot>>

begin_trans(p) ==
  /\ boot = "up" /\ pc[p] = "out" /\ ~busy
  /\ busy' = TRUE
  /\ Goto(p, "in")
  /\ UNCHANGED <<onDisk, cache, lh, tail, boot>>

\* bread, a change of the block, log_write and brelse.
log_write(p, b, v) ==
  /\ boot = "up" /\ pc[p] = "in"
  /\ Len(lh) < LOGSIZE
  /\ \/ \E i \in 1 .. Len(lh) :
          /\ lh[i] = b /\ \A j \in 1 .. i - 1 : lh[j] # b
          /\ dlog' = [dlog EXCEPT ![i] = v]
          /\ UNCHANGED lh
     \/ /\ \A i \in 1 .. Len(lh) : lh[i] # b
        /\ dlog' = [dlog EXCEPT ![Len(lh) + 1] = v]
        /\ lh' = Append(lh, b)
  /\ mem' = [mem EXCEPT ![b] = v]
  /\ dirty' = dirty \cup {b}
  /\ UNCHANGED <<disk, dhead, busy, tail, pc, boot>>

\* "too big a transaction", also for a block that is in the log already.
log_full(p) ==
  /\ boot = "up" /\ pc[p] = "in"
  /\ Len(lh) >= LOGSIZE
  /\ boot' = "panic"
  /\ UNCHANGED <<onDisk, cache, lh, busy, tail, pc>>

\* commit_trans: the first write_head, "the true point at which the current
\* transaction commits".  Nothing to do for an empty transaction.
write_head(p) ==
  /\ boot = "up" /\ pc[p] = "in"
  /\ dhead' = lh
  /\ tail' = 1
  /\ Goto(p, IF lh = <<>> THEN "end" ELSE "install")
  /\ UNCHANGED <<disk, dlog, cache, lh, busy, boot>>

install_trans(p) ==
  /\ boot = "up" /\ pc[p] = "install"
  /\ InstallBlock
  /\ Goto(p, IF tail = Len(lh) THEN "clear" ELSE "install")
  /\ UNCHANGED boot

erase(p) ==
  /\ boot = "up" /\ pc[p] = "clear"
  /\ EraseLog
  /\ Goto(p, "end")
  /\ UNCHANGED boot

\* Mutant of end_trans: the sleepers of begin_trans are not woken.
end_trans_silent(p) ==
  /\ boot = "up" /\ pc[p] = "end"
  /\ busy' = FALSE
  /\ Goto(p, "out")
  /\ UNCHANGED <<onDisk, cache, lh, tail, boot>>

\* commit_trans: log.busy = 0 and wakeup; begin_trans tests busy again.
end_trans(p) ==
  /\ boot = "up" /\ pc[p] = "end"
  /\ busy' = FALSE
  /\ pc' = [q \in Procs |-> IF q = p \/ pc[q] = "asleep" THEN "out" ELSE pc[q]]
  /\ UNCHANGED <<onDisk, cache, lh, tail, boot>>

-----------------------------------------------------------------------------
(* Crash and recovery *)

Crash ==
  /\ mem' = [b \in Blocks |-> NoData]
  /\ dirty' = {}
  /\ lh' = <<>>
  /\ busy' = FALSE
  /\ tail' = 1
  /\ pc' = [p \in Procs |-> "out"]
  /\ boot' = "read"
  /\ UNCHANGED onDisk

\* recover_from_log.
read_head ==
  /\ boot = "read"
  /\ lh' = dhead
  /\ tail' = 1
  /\ boot' = IF dhead = <<>> THEN "clear" ELSE "install"
  /\ UNCHANGED <<onDisk, cache, busy, pc>>

\* Mutant of recover_from_log: the log is erased before it is installed.
recover_install_not ==
  /\ boot = "install"
  /\ boot' = "clear"
  /\ tail' = Len(lh) + 1
  /\ UNCHANGED <<onDisk, cache, lh, busy, pc>>

recover_install ==
  /\ boot = "install"
  /\ InstallBlock
  /\ boot' = IF tail = Len(lh) THEN "clear" ELSE "install"
  /\ UNCHANGED pc

recover_erase ==
  /\ boot = "clear"
  /\ EraseLog
  /\ boot' = "up"
  /\ UNCHANGED pc

-----------------------------------------------------------------------------
\* A disk from mkfs, or left by a shut-down, with an empty log.
Init ==
  /\ disk \in [Blocks -> Values]
  /\ dlog \in [1 .. LOGSIZE -> Values]
  /\ dhead = <<>>
  /\ mem = [b \in Blocks |-> NoData]
  /\ dirty = {}
  /\ lh = <<>>
  /\ busy = FALSE
  /\ tail = 1
  /\ pc = [p \in Procs |-> "out"]
  /\ boot = "read"

Recover == read_head \/ recover_install \/ recover_erase

CommitStep(p) == write_head(p) \/ install_trans(p) \/ erase(p) \/ end_trans(p)

Next ==
  \/ Crash \/ Recover
  \/ \E b \in Blocks : Load(b) \/ Evict(b)
  \/ \E p \in Procs :
       \/ begin_sleep(p) \/ begin_trans(p) \/ log_full(p) \/ CommitStep(p)
       \/ \E b \in Blocks, v \in Values : log_write(p, b, v)

Spec == Init /\ [][Next]_vars

-----------------------------------------------------------------------------
(* Properties *)

InTrans(p) == pc[p] \in {"in", "install", "clear", "end"}

\* begin_trans admits one system call at a time (log.c:11-19), up to the end of
\* its commit.
OneTransaction ==
  \A p, q \in Procs : InTrans(p) /\ InTrans(q) => p = q

\* No wakeup is lost: who sleeps in begin_trans is woken, by the end of the
\* transaction it waits for, or the machine stops (log.c:128-130, 145-148).
SleeperWakes == \A p \in Procs : pc[p] = "asleep" ~> (pc[p] # "asleep" \/ boot = "panic")

\* The sectors d with the first blocks of the log l copied over the ones that
\* the header h names.
Overlay(h, l, d) ==
  [b \in Blocks |-> IF \E i \in 1 .. Len(h) : h[i] = b
                    THEN l[CHOOSE i \in 1 .. Len(h) : h[i] = b] ELSE d[b]]

\* The disk after a recovery that finds it as it is now.
Recovered == Overlay(dhead, dlog, disk)

\* What bread returns to the file system.
View == [b \in Blocks |-> IF mem[b] = NoData THEN disk[b] ELSE mem[b]]

Owner == IF boot = "up" /\ \E p \in Procs : pc[p] = "in"
         THEN CHOOSE p \in Procs : pc[p] = "in" ELSE NoOne

\* Transactions are atomic in the face of crashes at any write, recovery
\* included, and of the recycling of buffers (log.c:11-14, 98-100, 180).
Abstract == INSTANCE AtomicDisk
              WITH store <- Recovered,
                   cur <- IF boot = "up" THEN View ELSE Recovered,
                   owner <- Owner
Atomic == Abstract!Spec
=============================================================================
