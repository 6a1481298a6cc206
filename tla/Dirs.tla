-------------------------------- MODULE Dirs --------------------------------
(***************************************************************************)
(* Directories and path names: dirlookup, dirlink and namex (fs.c), and    *)
(* sys_open, sys_mkdir, sys_link, sys_unlink, sys_chdir and the close of a *)
(* file (sysfile.c, file.c), called by several processes at once.  A step  *)
(* ends where the code may wait: for an inode's lock, or for the log.  The *)
(* inode cache is abstracted to who points to an inode (see Inode): an     *)
(* inode without links is freed with the last pointer, and that needs an   *)
(* open transaction, or log_write panics and the machine stops.            *)
(***************************************************************************)
EXTENDS Naturals, Sequences, FiniteSets, FiniteSetsExt

CONSTANTS
    Procs,
    NINUMS,     \* inodes on disk; inode 1 is the root
    Names,      \* file names besides "." and ".."
    Calls       \* the system calls, [op, path, new]; a path is <<"/", ...>> or relative

Inums == 1 .. NINUMS
Null == 0
ROOTINO == 1
Elems == Names \cup {".", ".."}

VARIABLES
    node,       \* the inodes: type, nlink and, of a directory, its entries
    lock,       \* the process that has I_BUSY of an inode, or Null
    trans,      \* the process in a transaction, or Null
    pr          \* the processes

vars == <<node, lock, trans, pr>>

NoEnts == [n \in Elems |-> Null]
Free == [type |-> "none", nlink |-> 0, ents |-> NoEnts]

\* at: the step p is at; rest: the path elements to walk; par: nameiparent?
\* cur, dp, ip: namex's, the parent's and the file's inode; cwd; fd: an open file.
Idle == [at |-> "idle", op |-> "none", new |-> <<>>, rest |-> <<>>, par |-> FALSE, cur |-> Null, dp |-> Null, ip |-> Null,
         cwd |-> ROOTINO, fd |-> Null]

Done(r) == [Idle EXCEPT !.cwd = r.cwd, !.fd = r.fd]

Pointed(r) == UNION {{r[p].cur, r[p].dp, r[p].ip, r[p].cwd, r[p].fd} : p \in Procs}

\* Mutant of Settle: the test of nlink is one off.
Settle_one(n, r) == [i \in Inums |-> IF n[i].nlink <= 1 /\ i \notin Pointed(r) THEN Free ELSE n[i]]

\* iput, for the pointers that r no longer has.
Settle(n, r) == [i \in Inums |-> IF n[i].nlink = 0 /\ i \notin Pointed(r) THEN Free ELSE n[i]]

\* A step that leaves nodes n, locks l and process p in state s.
Step(n, l, p, s) ==
    LET r == [pr EXCEPT ![p] = s] IN
    /\ Settle(n, r) # n => trans # Null
    /\ node' = Settle(n, r) /\ lock' = l /\ pr' = r

\* ilock does not wait for i, and finds it allocated.
CanLock(i) == lock[i] = Null /\ node[i].type # "none"

\* The start of namex: from the root or from the current directory.
Namex(s, path, par) ==
    IF Head(path) = "/" THEN [s EXCEPT !.at = "namex", !.cur = ROOTINO, !.rest = Tail(path), !.par = par]
    ELSE [s EXCEPT !.at = "namex", !.cur = s.cwd, !.rest = path, !.par = par]

-----------------------------------------------------------------------------
\* A system call starts.  open with O_CREATE and mkdir begin with the transaction,
\* the others look the name up first.
call(p, c) ==
    /\ pr[p].at = "idle" /\ (c.op = "close" => pr[p].fd # Null)
    /\ LET s == [pr[p] EXCEPT !.op = c.op, !.new = c.new] IN
           Step(node, lock, p,
                CASE c.op \in {"create", "mkdir"} -> [s EXCEPT !.at = "begin", !.rest = c.path]
                  [] c.op = "close" -> [s EXCEPT !.at = "begin"]
                  [] OTHER -> Namex(s, c.path, c.op = "unlink"))
    /\ UNCHANGED trans

\* begin_trans, once the log is not busy.
begin_trans(p) ==
    /\ pr[p].at = "begin" /\ trans = Null
    /\ trans' = p
    /\ pr' = [pr EXCEPT ![p] = IF @.op \in {"create", "mkdir"} THEN Namex(@, @.rest, TRUE) ELSE [@ EXCEPT !.at = "trans"]]
    /\ UNCHANGED <<node, lock>>

commit_trans(p) ==
    /\ pr[p].at = "commit"
    /\ trans' = Null
    /\ pr' = [pr EXCEPT ![p] = IF @.ip # Null THEN [@ EXCEPT !.at = "opened"] ELSE Done(@)]
    /\ UNCHANGED <<node, lock>>

\* namex returns 0: sys_link has a link to take back, a transaction ends.
Failed(s) ==
    IF s.op = "link" /\ s.par THEN [s EXCEPT !.at = "bad", !.cur = Null]
    ELSE IF s.op \in {"create", "mkdir"} THEN [Done(s) EXCEPT !.at = "commit"] ELSE Done(s)

\* One turn of namex: ilock, the type, dirlookup with iget, iunlockput.
namex(p) ==
    LET s == pr[p]  i == s.cur IN
    /\ s.at = "namex" /\ s.rest # <<>> /\ CanLock(i)
    /\ Step(node, lock, p,
            IF node[i].type # "dir" THEN Failed(s)
            ELSE IF s.par /\ Len(s.rest) = 1 THEN [s EXCEPT !.at = "found", !.cur = Null, !.dp = i]
            ELSE IF node[i].ents[Head(s.rest)] = Null THEN Failed(s)
            ELSE [s EXCEPT !.cur = node[i].ents[Head(s.rest)], !.rest = Tail(s.rest)])
    /\ UNCHANGED trans

\* namei returns; sys_link and sys_unlink go on in a transaction.
namex_end(p) ==
    LET s == pr[p] IN
    /\ s.at = "namex" /\ s.rest = <<>> /\ ~s.par
    /\ pr' = [pr EXCEPT ![p] = [s EXCEPT !.at = IF s.op = "link" THEN "begin" ELSE "found", !.cur = Null, !.ip = s.cur]]
    /\ UNCHANGED <<node, lock, trans>>

\* sys_open without O_CREATE: ilock, a directory to be read only, a descriptor if there
\* is one, iunlock.
open(p, rdonly) ==
    LET s == pr[p] IN
    /\ s.at = "found" /\ s.op = "open" /\ CanLock(s.ip)
    /\ Step(node, lock, p, IF (node[s.ip].type = "dir" => rdonly) /\ s.fd = Null
                           THEN [Done(s) EXCEPT !.fd = s.ip] ELSE Done(s))
    /\ UNCHANGED trans

\* sys_chdir: iput of the old directory, outside a transaction.
chdir(p) ==
    LET s == pr[p] IN
    /\ s.at = "found" /\ s.op = "chdir" /\ CanLock(s.ip)
    /\ Step(node, lock, p, IF node[s.ip].type = "dir" THEN [Done(s) EXCEPT !.cwd = s.ip] ELSE Done(s))
    /\ UNCHANGED trans

close(p) ==
    /\ pr[p].at = "trans" /\ pr[p].op = "close"
    /\ Step(node, lock, p, [Done(pr[p]) EXCEPT !.at = "commit", !.fd = Null])
    /\ UNCHANGED trans

-----------------------------------------------------------------------------
\* sys_link, first part: the link is counted before the entry exists.
link_ip(p) ==
    LET s == pr[p] IN
    /\ s.at = "trans" /\ s.op = "link" /\ CanLock(s.ip)
    /\ IF node[s.ip].type = "dir" THEN Step(node, lock, p, [Done(s) EXCEPT !.at = "commit"])
       ELSE Step([node EXCEPT ![s.ip].nlink = @ + 1], lock, p, Namex(s, s.new, TRUE))
    /\ UNCHANGED trans

\* dirlink: the entries of directory d with (name, i), unless the name is taken.
dirlink(d, name, i) == [node[d].ents EXCEPT ![name] = IF @ = Null THEN i ELSE @]

\* sys_link, second part: the entry in the new parent.
link_dp(p) ==
    LET s == pr[p]  name == Head(s.rest) IN
    /\ s.at = "found" /\ s.op = "link" /\ CanLock(s.dp)
    /\ LET ents == dirlink(s.dp, name, s.ip) IN
           IF ents = node[s.dp].ents THEN Step(node, lock, p, [s EXCEPT !.at = "bad", !.dp = Null])
           ELSE Step([node EXCEPT ![s.dp].ents = ents], lock, p, [Done(s) EXCEPT !.at = "commit"])
    /\ UNCHANGED trans

\* Mutant of link_bad: the link is not taken back.
link_bad_kept(p) ==
    /\ pr[p].at = "bad" /\ CanLock(pr[p].ip)
    /\ Step(node, lock, p, [Done(pr[p]) EXCEPT !.at = "commit"])
    /\ UNCHANGED trans

\* sys_link, bad: the link is taken back.
link_bad(p) ==
    /\ pr[p].at = "bad" /\ CanLock(pr[p].ip)
    /\ Step([node EXCEPT ![pr[p].ip].nlink = @ - 1], lock, p, [Done(pr[p]) EXCEPT !.at = "commit"])
    /\ UNCHANGED trans

isdirempty(i) == \A n \in Names : node[i].ents[n] = Null

\* Mutant of unlink_begin: the parent is locked before the transaction begins.
unlink_begin_locked(p) ==
    /\ pr[p].at = "found" /\ pr[p].op = "unlink" /\ CanLock(pr[p].dp)
    /\ lock' = [lock EXCEPT ![pr[p].dp] = p]
    /\ pr' = [pr EXCEPT ![p].at = "begin"]
    /\ UNCHANGED <<node, trans>>

\* sys_unlink begins its transaction when nameiparent has found the parent.
unlink_begin(p) ==
    /\ pr[p].at = "found" /\ pr[p].op = "unlink"
    /\ pr' = [pr EXCEPT ![p].at = "begin"]
    /\ UNCHANGED <<node, lock, trans>>

\* sys_unlink: ilock(dp), dirlookup; dp stays locked.
unlink_dp(p) ==
    LET s == pr[p]  name == Head(s.rest)  i == node[s.dp].ents[name] IN
    /\ s.at = "trans" /\ s.op = "unlink" /\ s.ip = Null /\ CanLock(s.dp)
    /\ IF name \in {".", ".."} \/ i = Null THEN Step(node, lock, p, [Done(s) EXCEPT !.at = "commit"])
       ELSE Step(node, [lock EXCEPT ![s.dp] = p], p, [s EXCEPT !.ip = i])
    /\ UNCHANGED trans

\* Mutant of unlink_ip: a directory is removed with what is in it.
unlink_ip_full(p) ==
    LET s == pr[p]  d == s.dp  i == s.ip IN
    /\ s.at = "trans" /\ s.op = "unlink" /\ i # Null /\ CanLock(i)
    /\ Step([node EXCEPT ![d].ents[Head(s.rest)] = Null, ![d].nlink = IF node[i].type = "dir" THEN @ - 1 ELSE @, ![i].nlink = @ - 1],
            [lock EXCEPT ![d] = Null], p, [Done(s) EXCEPT !.at = "commit"])
    /\ UNCHANGED trans

\* sys_unlink: ilock(ip) with dp locked.  The entry goes, then the links, and both
\* inodes are put.
unlink_ip(p) ==
    LET s == pr[p]  d == s.dp  i == s.ip IN
    /\ s.at = "trans" /\ s.op = "unlink" /\ i # Null /\ CanLock(i)
    /\ Step(IF node[i].type = "dir" /\ ~isdirempty(i) THEN node
            ELSE [node EXCEPT ![d].ents[Head(s.rest)] = Null, ![d].nlink = IF node[i].type = "dir" THEN @ - 1 ELSE @,
                              ![i].nlink = @ - 1],
            [lock EXCEPT ![d] = Null], p, [Done(s) EXCEPT !.at = "commit"])
    /\ UNCHANGED trans

FreeInums == {i \in Inums : node[i].type = "none"}

\* create: the name exists in dp, so ip is locked after dp is put.
create_old(p) ==
    LET s == pr[p]  i == node[s.dp].ents[Head(s.rest)] IN
    /\ s.at = "found" /\ s.op \in {"create", "mkdir"} /\ CanLock(s.dp) /\ i # Null
    /\ Step(node, lock, p, [s EXCEPT !.at = "exists", !.dp = Null, !.ip = i])
    /\ UNCHANGED trans

\* create returns an existing file, locked, to sys_open; anything else is an error.
create_file(p) ==
    LET s == pr[p] IN
    /\ s.at = "exists" /\ CanLock(s.ip)
    /\ IF s.op = "create" /\ node[s.ip].type = "file"
       THEN Step(node, [lock EXCEPT ![s.ip] = p], p, [s EXCEPT !.at = "commit"])
       ELSE Step(node, lock, p, [Done(s) EXCEPT !.at = "commit"])
    /\ UNCHANGED trans

\* create: ialloc, the links and entries of the new inode and of dp, which stays
\* locked; sys_open gets the inode locked, sys_mkdir puts it.
create_new(p) ==
    LET s == pr[p]  i == Min(FreeInums)  dir == s.op = "mkdir" IN
    /\ s.at = "found" /\ s.op \in {"create", "mkdir"} /\ CanLock(s.dp)
    /\ node[s.dp].ents[Head(s.rest)] = Null /\ FreeInums # {}
    /\ Step([node EXCEPT
               ![i] = [type |-> IF dir THEN "dir" ELSE "file", nlink |-> 1,
                       ents |-> IF dir THEN [NoEnts EXCEPT !["."] = i, ![".."] = s.dp] ELSE NoEnts],
               ![s.dp].ents = dirlink(s.dp, Head(s.rest), i),
               ![s.dp].nlink = IF dir THEN @ + 1 ELSE @],
            IF dir THEN lock ELSE [lock EXCEPT ![i] = p], p,
            IF dir THEN [Done(s) EXCEPT !.at = "commit"] ELSE [s EXCEPT !.at = "commit", !.dp = Null, !.ip = i])
    /\ UNCHANGED trans

\* sys_open after create: a descriptor, or iunlockput without a transaction.
open_created(p) ==
    LET s == pr[p] IN
    /\ s.at = "opened"
    /\ Step(node, [lock EXCEPT ![s.ip] = Null], p, IF s.fd = Null THEN [Done(s) EXCEPT !.fd = s.ip] ELSE Done(s))
    /\ UNCHANGED trans

\* The image of mkfs: a root directory.
Init ==
    /\ node = [i \in Inums |-> IF i # ROOTINO THEN Free
                 ELSE [type |-> "dir", nlink |-> 1, ents |-> [NoEnts EXCEPT !["."] = i, ![".."] = i]]]
    /\ lock = [i \in Inums |-> Null] /\ trans = Null
    /\ pr = [p \in Procs |-> Idle]

Next ==
    \E p \in Procs :
        \/ \E c \in Calls : call(p, c)
        \/ begin_trans(p) \/ commit_trans(p) \/ namex(p) \/ namex_end(p)
        \/ (\E rdonly \in BOOLEAN : open(p, rdonly)) \/ chdir(p) \/ close(p)
        \/ link_ip(p) \/ link_dp(p) \/ link_bad(p)
        \/ unlink_begin(p) \/ unlink_dp(p) \/ unlink_ip(p)
        \/ create_old(p) \/ create_file(p) \/ create_new(p) \/ open_created(p)

Spec == Init /\ [][Next]_vars

-----------------------------------------------------------------------------
\* The links of inode i: entries other than "." of directories, ".." only of
\* directories that have a name themselves, and one for the root.
LinksTo(i) ==
    Cardinality({<<d, n>> \in Inums \X Names : node[d].ents[n] = i})
    + Cardinality({d \in Inums \ {ROOTINO} : node[d].nlink > 0 /\ node[d].ents[".."] = i})
    + (IF i = ROOTINO THEN 1 ELSE 0)

\* Outside transactions nlink is "the number of links referring to" an inode
\* (fs.c:101), whatever calls were interleaved and failed on the way.
LinksExact == trans = Null => \A i \in Inums : node[i].nlink = LinksTo(i)

\* itrunc is "only called when the inode has no links to it (no directory entries
\* referring to it)" (fs.c:387): no entry of a directory names a free inode.
NoDangling == \A d \in Inums, n \in Elems : node[d].ents[n] # Null => node[node[d].ents[n]].type # "none"

\* What is left of the two when a directory is removed that some process is in: a
\* directory that has a name holds no entry of a free inode, and nlink never falls
\* below the number of links, so that nothing is freed too early (sys_unlink, create,
\* iput).
NamedNotFree ==
    /\ \A d \in Inums, n \in Elems :
           node[d].nlink > 0 /\ node[d].ents[n] # Null => node[node[d].ents[n]].type # "none"
    /\ trans = Null => \A i \in Inums : node[i].nlink >= LinksTo(i)

\* Directories are a tree: a directory with a name has one name, in the directory
\* that its ".." names (create, sys_link's refusal of directories, sys_unlink's
\* refusal of full ones).
DirectoryTree ==
    \A i \in Inums \ {ROOTINO} : node[i].type = "dir" /\ node[i].nlink > 0 =>
        \A d \in Inums : Cardinality({n \in Names : node[d].ents[n] = i}) = IF d = node[i].ents[".."] THEN 1 ELSE 0

\* Who p waits for: the holder of the lock or of the transaction it needs next.
Holder(p) ==
    LET s == pr[p] IN
    CASE s.at = "begin" -> trans
      [] s.at = "namex" -> lock[s.cur]
      [] s.at \in {"found", "trans"} /\ s.dp # Null /\ s.ip = Null -> lock[s.dp]
      [] s.at \in {"found", "trans", "bad", "exists"} /\ s.ip # Null -> lock[s.ip]
      [] OTHER -> Null

\* No two calls wait for each other, be it for inodes or for the log: a call that
\* holds an inode's lock never waits for the log, and locks go from a directory to
\* what is in it (sys_unlink, create, sys_open).
NoCircularWait == \A p, q \in Procs : ~(p # q /\ Holder(p) = q /\ Holder(q) = p)
=============================================================================
