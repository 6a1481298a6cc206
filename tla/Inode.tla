-------------------------------- MODULE Inode --------------------------------
(***************************************************************************)
(* The inode cache of fs.c: iget, idup, ilock, iunlock, iput, ialloc and   *)
(* iupdate, used by processes that look inodes up by a directory entry,    *)
(* keep them (open files, current directories), lock them, link and unlink *)
(* them, and put them back.  A step ends where the code may sleep or gives *)
(* up icache.lock.  Directories are abstracted to the number of entries    *)
(* that name an inode, file contents and sizes are left out (see FileData).*)
(***************************************************************************)
EXTENDS Naturals, FiniteSets, FiniteSetsExt

CONSTANTS
    Procs,
    NINODE,     \* entries of icache
    NINUMS,     \* inodes on disk
    MaxLinks    \* bound: directory entries of one inode

\* What the constants have to satisfy.
ASSUME InodeAssumption ==
    NINODE \in Nat \ {0} /\ NINUMS \in Nat \ {0} /\ MaxLinks \in Nat \ {0} /\ IsFiniteSet(Procs)

Entries == 1 .. NINODE
Inums == 1 .. NINUMS
Null == 0
ROOTINO == 1

VARIABLES
    icache,     \* icache.inode
    disk,       \* the inodes on disk, as the buffers show them: allocated?, nlink
    links,      \* the directory entries that name an inode
    trans,      \* the process in a transaction (log.busy), or Null
    pr          \* the processes

vars == <<icache, disk, links, trans, pr>>

\* at: where p is; ip: its working pointer into icache; kept: an open file or its
\* current directory; inum: ialloc's; job: what p does to ip, "fresh" from
\* ialloc, "made" by create, or "relinked" by sys_link or sys_unlink, which put it
\* before they commit.
Idle == [at |-> "idle", ip |-> Null, kept |-> Null, inum |-> Null, job |-> "none"]
To(p, r) == pr' = [pr EXCEPT ![p] = r]

\* iget: the entry of inode i, or the first free one, which forgets what it held.
CachedAt(i) == {e \in Entries : icache[e].ref > 0 /\ icache[e].inum = i}
Empty == {e \in Entries : icache[e].ref = 0}
CanGet(i) == CachedAt(i) \cup Empty # {}
Entry(i) == IF CachedAt(i) # {} THEN CHOOSE e \in CachedAt(i) : TRUE ELSE Min(Empty)

\* Mutant of iget: the first free entry is taken without looking for i in the rest.
iget_first(i) ==
    IF Empty = {} \/ (CachedAt(i) # {} /\ Entry(i) < Min(Empty)) THEN [icache EXCEPT ![Entry(i)].ref = @ + 1]
    ELSE [icache EXCEPT ![Min(Empty)] = [@ EXCEPT !.inum = i, !.ref = 1, !.busy = FALSE, !.valid = FALSE]]

iget(i) ==
    IF CachedAt(i) # {} THEN [icache EXCEPT ![Entry(i)].ref = @ + 1]
    ELSE [icache EXCEPT ![Entry(i)] = [@ EXCEPT !.inum = i, !.ref = 1, !.busy = FALSE, !.valid = FALSE]]

\* wakeup(ip) for the processes asleep in ilock.
Wakeup(e, r) ==
    [q \in Procs |-> IF r[q].at = "asleep" /\ r[q].ip = e THEN [r[q] EXCEPT !.at = "ilock"] ELSE r[q]]

-----------------------------------------------------------------------------
\* dirlookup finds an entry that names i.
lookup(p, i) ==
    /\ pr[p].at = "idle" /\ links[i] > 0 /\ CanGet(i)
    /\ icache' = iget(i)
    /\ To(p, [pr[p] EXCEPT !.at = "got", !.ip = Entry(i)])
    /\ UNCHANGED <<disk, links, trans>>

\* idup of the current directory or an open file's inode.
idup(p) ==
    /\ pr[p].at = "idle" /\ pr[p].kept # Null
    /\ icache' = [icache EXCEPT ![pr[p].kept].ref = @ + 1]
    /\ To(p, [pr[p] EXCEPT !.at = "got", !.ip = pr[p].kept])
    /\ UNCHANGED <<disk, links, trans>>

\* The pointer is stored in an open file or in proc->cwd.
keep(p) ==
    /\ pr[p].at = "got" /\ pr[p].kept = Null /\ pr[p].job # "relinked" /\ trans # p
    /\ To(p, [pr[p] EXCEPT !.at = "idle", !.ip = Null, !.kept = pr[p].ip, !.job = "none"])
    /\ UNCHANGED <<icache, disk, links, trans>>

\* fileclose, sys_chdir and exit take the pointer back to put it.
take(p) ==
    /\ pr[p].at = "idle" /\ pr[p].kept # Null /\ trans # p
    /\ To(p, [pr[p] EXCEPT !.at = "got", !.ip = pr[p].kept, !.kept = Null])
    /\ UNCHANGED <<icache, disk, links, trans>>

\* ilock: sleep while the inode is busy, then I_BUSY is p's.
ilock(p) ==
    LET e == pr[p].ip IN
    /\ pr[p].at \in {"got", "ilock"}
    /\ IF icache[e].busy THEN To(p, [pr[p] EXCEPT !.at = "asleep"]) /\ icache' = icache
       ELSE /\ icache' = [icache EXCEPT ![e].busy = TRUE]
            /\ To(p, [pr[p] EXCEPT !.at = IF icache[e].valid THEN "locked" ELSE "read"])
    /\ UNCHANGED <<disk, links, trans>>

\* ilock, second half: bread, copy, I_VALID.
ilock_read(p) ==
    LET e == pr[p].ip IN
    /\ pr[p].at = "read" /\ disk[icache[e].inum].alloc
    /\ icache' = [icache EXCEPT ![e].valid = TRUE, ![e].alloc = TRUE, ![e].nlink = disk[icache[e].inum].nlink]
    /\ To(p, [pr[p] EXCEPT !.at = "locked"])
    /\ UNCHANGED <<disk, links, trans>>

iunlock(p) ==
    LET e == pr[p].ip IN
    /\ pr[p].at = "locked" /\ pr[p].job # "fresh"
    /\ icache' = [icache EXCEPT ![e].busy = FALSE]
    /\ pr' = Wakeup(e, [pr EXCEPT ![p].at = "got"])
    /\ UNCHANGED <<disk, links, trans>>

\* iupdate after nlink was set to n.
iupdate(e, n) ==
    /\ icache' = [icache EXCEPT ![e].nlink = n]
    /\ disk' = [disk EXCEPT ![icache[e].inum] = [alloc |-> icache[e].alloc, nlink |-> n]]

\* The locked inode gains or loses a directory entry (sys_link, sys_unlink), or its
\* first one (create).
relink(p, n) ==
    LET e == pr[p].ip  i == icache[pr[p].ip].inum IN
    /\ pr[p].at = "locked" /\ trans = p /\ i # ROOTINO /\ n <= MaxLinks /\ pr[p].job \in {"none", "fresh"}
    /\ IF pr[p].job = "fresh" THEN n = 1 ELSE n + 1 = icache[e].nlink \/ n = icache[e].nlink + 1
    /\ iupdate(e, n) /\ links' = [links EXCEPT ![i] = n]
    /\ To(p, [pr[p] EXCEPT !.job = IF @ = "fresh" THEN "made" ELSE "relinked"])
    /\ UNCHANGED trans

\* Mutant of iput: it frees an inode without links that others still point to.
iput_shared(p) ==
    LET e == pr[p].ip IN
    /\ pr[p].at = "got"
    /\ IF icache[e].valid /\ ~icache[e].busy /\ icache[e].nlink = 0
       THEN /\ icache' = [icache EXCEPT ![e].busy = TRUE]
            /\ To(p, [pr[p] EXCEPT !.at = "itrunc"])
       ELSE icache' = [icache EXCEPT ![e].ref = @ - 1] /\ To(p, [pr[p] EXCEPT !.at = "idle", !.ip = Null, !.job = "none"])
    /\ UNCHANGED <<disk, links, trans>>

\* iput: the last pointer to an inode without links frees it on disk first.
iput(p) ==
    LET e == pr[p].ip IN
    /\ pr[p].at = "got"
    /\ IF icache[e].ref = 1 /\ icache[e].valid /\ icache[e].nlink = 0
       THEN /\ ~icache[e].busy
            /\ icache' = [icache EXCEPT ![e].busy = TRUE]
            /\ To(p, [pr[p] EXCEPT !.at = "itrunc"])
       ELSE icache' = [icache EXCEPT ![e].ref = @ - 1] /\ To(p, [pr[p] EXCEPT !.at = "idle", !.ip = Null, !.job = "none"])
    /\ UNCHANGED <<disk, links, trans>>

\* iput without icache.lock: itrunc, type = 0, iupdate.  log_write panics when no
\* transaction is open.
iput_free(p) ==
    LET e == pr[p].ip IN
    /\ pr[p].at = "itrunc" /\ trans # Null
    /\ icache' = [icache EXCEPT ![e].alloc = FALSE]
    /\ disk' = [disk EXCEPT ![icache[e].inum] = [alloc |-> FALSE, nlink |-> icache[e].nlink]]
    /\ To(p, [pr[p] EXCEPT !.at = "freed"])
    /\ UNCHANGED <<links, trans>>

\* Mutant of iput_done: nobody is woken.
iput_done_quiet(p) ==
    LET e == pr[p].ip IN
    /\ pr[p].at = "freed"
    /\ icache' = [icache EXCEPT ![e].busy = FALSE, ![e].valid = FALSE, ![e].ref = @ - 1]
    /\ pr' = [pr EXCEPT ![p].at = "idle", ![p].ip = Null, ![p].job = "none"]
    /\ UNCHANGED <<disk, links, trans>>

\* Mutant of iput_done: I_VALID stays.
iput_done_valid(p) ==
    LET e == pr[p].ip IN
    /\ pr[p].at = "freed"
    /\ icache' = [icache EXCEPT ![e].busy = FALSE, ![e].ref = @ - 1]
    /\ pr' = Wakeup(e, [pr EXCEPT ![p].at = "idle", ![p].ip = Null, ![p].job = "none"])
    /\ UNCHANGED <<disk, links, trans>>

\* iput, back under icache.lock: flags = 0, wakeup, ref--.
iput_done(p) ==
    LET e == pr[p].ip IN
    /\ pr[p].at = "freed"
    /\ icache' = [icache EXCEPT ![e].busy = FALSE, ![e].valid = FALSE, ![e].ref = @ - 1]
    /\ pr' = Wakeup(e, [pr EXCEPT ![p].at = "idle", ![p].ip = Null, ![p].job = "none"])
    /\ UNCHANGED <<disk, links, trans>>

FreeInums == {i \in Inums : ~disk[i].alloc}

\* ialloc: the first free inode is marked allocated, its buffer released, and then
\* iget.
ialloc(p) ==
    /\ pr[p].at = "idle" /\ trans = p /\ FreeInums # {}
    /\ disk' = [disk EXCEPT ![Min(FreeInums)] = [alloc |-> TRUE, nlink |-> 0]]
    /\ To(p, [pr[p] EXCEPT !.at = "ialloc", !.inum = Min(FreeInums)])
    /\ UNCHANGED <<icache, links, trans>>

ialloc_iget(p) ==
    /\ pr[p].at = "ialloc" /\ CanGet(pr[p].inum)
    /\ icache' = iget(pr[p].inum)
    /\ To(p, [pr[p] EXCEPT !.at = "ilock", !.ip = Entry(pr[p].inum), !.inum = Null, !.job = "fresh"])
    /\ UNCHANGED <<disk, links, trans>>

begin_trans(p) ==
    /\ trans = Null /\ pr[p].at \in {"idle", "got"}
    /\ trans' = p
    /\ UNCHANGED <<icache, disk, links, pr>>

commit_trans(p) ==
    /\ trans = p
    /\ pr[p].at = "idle" \/ (pr[p].at = "locked" /\ pr[p].job \in {"none", "made"})
    /\ trans' = Null
    /\ UNCHANGED <<icache, disk, links, pr>>

\* Inode 1 is the root directory, which keeps its link.
Init ==
    /\ icache = [e \in Entries |-> [inum |-> Null, ref |-> 0, busy |-> FALSE, valid |-> FALSE, alloc |-> FALSE, nlink |-> 0]]
    /\ disk = [i \in Inums |-> [alloc |-> i = ROOTINO, nlink |-> IF i = ROOTINO THEN 1 ELSE 0]]
    /\ links = [i \in Inums |-> IF i = ROOTINO THEN 1 ELSE 0]
    /\ trans = Null
    /\ pr = [p \in Procs |-> Idle]

Next ==
    \E p \in Procs :
        \/ \E i \in Inums : lookup(p, i)
        \/ idup(p) \/ keep(p) \/ take(p)
        \/ ilock(p) \/ ilock_read(p) \/ iunlock(p) \/ \E n \in 0 .. MaxLinks : relink(p, n)
        \/ iput(p) \/ iput_free(p) \/ iput_done(p)
        \/ ialloc(p) \/ ialloc_iget(p) \/ begin_trans(p) \/ commit_trans(p)

Spec == Init /\ [][Next]_vars

-----------------------------------------------------------------------------
Pointers(e) == {x \in Procs \X {"ip", "kept"} : pr[x[1]][x[2]] = e}

\* An inode has one place to synchronise on: two entries in use never hold the same
\* inode, and ref counts the pointers to an entry, also while iput frees the inode
\* and ialloc takes it again (fs.c: "ip->ref tracks the number of in-memory
\* pointers to the entry").
OneEntryEach ==
    /\ \A e, f \in Entries : icache[e].ref > 0 /\ icache[f].ref > 0 /\ icache[e].inum = icache[f].inum => e = f
    /\ \A e \in Entries : icache[e].ref = Cardinality(Pointers(e))

\* An inode that a process has locked is allocated, the process alone has it, and
\* the copy in memory is what is on disk, whatever iput did to the entry before
\* (ilock, iput, ialloc).
LockedIsLive ==
    \A p \in Procs : pr[p].at = "locked" =>
        LET e == pr[p].ip IN
        /\ disk[icache[e].inum] = [alloc |-> TRUE, nlink |-> icache[e].nlink]
        /\ \A q \in Procs \ {p} : pr[q].at \in {"locked", "read", "itrunc", "freed"} => pr[q].ip # e

\* iput frees an inode only when no directory entry names it, and nobody else ever
\* waits for the lock of an inode that iput is about to free.
FreedIsUnnamed ==
    /\ \A i \in Inums : ~disk[i].alloc => links[i] = 0
    /\ \A p, q \in Procs : p # q /\ pr[p].at = "itrunc" => pr[q].ip # pr[p].ip

\* No lost wakeup: a process asleep in ilock sleeps on an inode that is busy
\* (ilock tests and sleeps under icache.lock, iunlock and iput wake).
SleeperHasReason == \A p \in Procs : pr[p].at = "asleep" => icache[pr[p].ip].busy

\* Processes share an inode: it has one entry of the cache, whose ref counts the
\* pointers to it; locked, it is one process's, allocated and like its copy on disk; who
\* waits for it sleeps while another has it; and iput frees only what no directory entry
\* names and nobody waits for (iget, ilock, iunlock, iput, ialloc).
InodesShared == OneEntryEach /\ LockedIsLive /\ SleeperHasReason /\ FreedIsUnnamed

\* "Each system call that might write the file system should be surrounded with
\* begin_trans() and commit_trans() calls" (log.c:8): the one that frees an inode
\* is in a transaction of its own.
FreesInTransaction == \A p \in Procs : pr[p].at = "itrunc" => trans = p
=============================================================================
