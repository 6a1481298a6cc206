-------------------------------- MODULE Files --------------------------------
(***************************************************************************)
(* Open files and descriptors: the file table of file.c (filealloc,        *)
(* filedup, fileclose), the descriptor tables of the processes (fdalloc,   *)
(* sys_dup, sys_close, the ends of sys_open and sys_pipe in sysfile.c,     *)
(* pipealloc) and the loops of fork and exit over them.  A step is what    *)
(* happens under ftable.lock or without any other process seeing it.  What *)
(* a file stands for, an inode or an end of a pipe, is an object; the last *)
(* fileclose releases it (iput, pipeclose) after it gave up ftable.lock.   *)
(***************************************************************************)
EXTENDS Naturals, Sequences, FiniteSets, FiniteSetsExt

CONSTANTS
    Procs,
    initproc,
    NFILE,      \* entries of the file table
    NOFILE,     \* descriptors of a process
    NOBJS       \* inode references and pipe ends there can be at once

\* What the constants have to satisfy.
FilesAssumption == initproc \in Procs /\ NFILE \in Nat \ {0} /\ NOFILE \in Nat \ {0}

FileSlots == 1 .. NFILE
Fds == 0 .. NOFILE - 1
Objs == 1 .. NOBJS
None == 0

VARIABLES
    file,       \* ftable.file: ref, and the object (None: FD_NONE)
    ofile,      \* ofile[p][fd]: the open file, or None
    held,       \* the objects that are not released
    pr          \* the processes

vars == <<file, ofile, held, pr>>

\* at: the call p is in; f: the files it allocated; obj: their objects, or the one
\* fileclose copied; close: the files still to be closed.
Running == [at |-> "user", f |-> <<>>, obj |-> <<>>, close |-> <<>>]
Unborn == [Running EXCEPT !.at = "none"]
To(p, r) == pr' = [pr EXCEPT ![p] = r]

FreeSlots == {f \in FileSlots : file[f].ref = 0}
FreeFds(p) == {fd \in Fds : ofile[p][fd] = None}

\* fdalloc: the lowest free descriptor.
fdalloc(p) == Min(FreeFds(p))

\* p goes on to close the files fs, after which its call ends.
Closing(r, fs) == [r EXCEPT !.at = IF fs = <<>> THEN (IF r.at = "exit" THEN "exit" ELSE "user") ELSE @, !.close = fs, !.f = <<>>, !.obj = <<>>]

-----------------------------------------------------------------------------
\* sys_open with its inode, or sys_pipe (two files): filealloc.
filealloc(p, call) ==
    /\ \/ pr[p].at = "user" /\ call \in {"open", "pipe"}
       \/ pr[p].at = "pipe" /\ call = "pipe" /\ Len(pr[p].f) = 1 /\ pr[p].close = <<>>
    /\ FreeSlots # {}
    /\ file' = [file EXCEPT ![Min(FreeSlots)].ref = 1]
    /\ To(p, [pr[p] EXCEPT !.at = call, !.f = Append(@, Min(FreeSlots))])
    /\ UNCHANGED <<ofile, held>>

\* pipealloc finds no second file, or no page: bad, fileclose of what it has.
pipealloc_bad(p) ==
    LET r == pr[p] IN
    /\ r.at = "pipe" /\ r.obj = <<>> /\ r.close = <<>> /\ (Len(r.f) = 2 \/ FreeSlots = {})
    /\ To(p, Closing(r, r.f))
    /\ UNCHANGED <<file, ofile, held>>

\* The end of sys_open: a descriptor, and the file refers to the inode; or fileclose
\* of a file that has no type yet (the inode is put).
open(p) ==
    LET r == pr[p]  f == Head(pr[p].f) IN
    /\ r.at = "open" /\ r.close = <<>>
    /\ IF FreeFds(p) = {}
       THEN To(p, Closing(r, r.f)) /\ UNCHANGED <<file, ofile, held>>
       ELSE \E o \in Objs \ held :
                /\ held' = held \cup {o}
                /\ ofile' = [ofile EXCEPT ![p][fdalloc(p)] = f]
                /\ file' = [file EXCEPT ![f].obj = o]
                /\ To(p, Running)

\* pipealloc has both files: they become the two ends of a pipe.
pipealloc(p) ==
    LET r == pr[p] IN
    /\ r.at = "pipe" /\ Len(r.f) = 2 /\ r.obj = <<>> /\ r.close = <<>>
    /\ \E o1, o2 \in Objs \ held :
           /\ o1 < o2
           /\ held' = held \cup {o1, o2}
           /\ file' = [file EXCEPT ![r.f[1]].obj = o1, ![r.f[2]].obj = o2]
           /\ To(p, [r EXCEPT !.obj = <<o1, o2>>])
    /\ UNCHANGED ofile

\* Mutant of pipe: the first descriptor keeps the file when there is no second.
pipe_keeps(p) ==
    LET r == pr[p] IN
    /\ r.at = "pipe" /\ r.obj # <<>> /\ r.close = <<>>
    /\ IF Cardinality(FreeFds(p)) < 2
       THEN /\ ofile' = IF FreeFds(p) = {} THEN ofile ELSE [ofile EXCEPT ![p][fdalloc(p)] = r.f[1]]
            /\ To(p, Closing(r, r.f))
       ELSE /\ ofile' = [ofile EXCEPT ![p] = [fd \in Fds |-> CASE fd = fdalloc(p) -> r.f[1]
                              [] fd = Min(FreeFds(p) \ {fdalloc(p)}) -> r.f[2] [] OTHER -> @[fd]]]
            /\ To(p, Running)
    /\ UNCHANGED <<file, held>>

\* sys_pipe: two descriptors, or none and fileclose of both files.
pipe(p) ==
    LET r == pr[p] IN
    /\ r.at = "pipe" /\ r.obj # <<>> /\ r.close = <<>>
    /\ IF Cardinality(FreeFds(p)) < 2
       THEN To(p, Closing(r, r.f)) /\ ofile' = ofile
       ELSE /\ ofile' = [ofile EXCEPT ![p] = [fd \in Fds |-> CASE fd = fdalloc(p) -> r.f[1]
                              [] fd = Min(FreeFds(p) \ {fdalloc(p)}) -> r.f[2] [] OTHER -> @[fd]]]
            /\ To(p, Running)
    /\ UNCHANGED <<file, held>>

\* sys_dup: fdalloc, then filedup.
dup(p, fd) ==
    /\ pr[p].at = "user" /\ ofile[p][fd] # None /\ FreeFds(p) # {}
    /\ ofile' = [ofile EXCEPT ![p][fdalloc(p)] = ofile[p][fd]]
    /\ file' = [file EXCEPT ![ofile[p][fd]].ref = @ + 1]
    /\ UNCHANGED <<held, pr>>

\* sys_close: the descriptor is free before fileclose.
close(p, fd) ==
    /\ pr[p].at = "user" /\ ofile[p][fd] # None
    /\ ofile' = [ofile EXCEPT ![p][fd] = None]
    /\ To(p, [pr[p] EXCEPT !.at = "close", !.close = <<ofile[p][fd]>>])
    /\ UNCHANGED <<file, held>>

\* Mutant of fileclose: every close releases the object.
fileclose_each(p) ==
    LET r == pr[p]  f == Head(pr[p].close) IN
    /\ r.close # <<>> /\ r.obj = <<>>
    /\ file' = [file EXCEPT ![f].ref = @ - 1]
    /\ To(p, [r EXCEPT !.obj = <<file[f].obj>>])
    /\ UNCHANGED <<ofile, held>>

\* Mutant of fileclose: the entry is emptied before it is copied.
fileclose_emptied(p) ==
    LET r == pr[p]  f == Head(pr[p].close) IN
    /\ r.close # <<>> /\ r.obj = <<>>
    /\ IF file[f].ref > 1
       THEN file' = [file EXCEPT ![f].ref = @ - 1] /\ To(p, Closing(r, Tail(r.close)))
       ELSE file' = [file EXCEPT ![f] = [ref |-> 0, obj |-> None]] /\ To(p, [r EXCEPT !.f = <<>>, !.obj = <<None>>])
    /\ UNCHANGED <<ofile, held>>

\* fileclose under ftable.lock: the last reference empties the entry, and ff has a
\* copy of it.
fileclose(p) ==
    LET r == pr[p]  f == Head(pr[p].close) IN
    /\ r.close # <<>> /\ r.obj = <<>>
    /\ IF file[f].ref > 1
       THEN file' = [file EXCEPT ![f].ref = @ - 1] /\ To(p, Closing(r, Tail(r.close)))
       ELSE file' = [file EXCEPT ![f] = [ref |-> 0, obj |-> None]] /\ To(p, [r EXCEPT !.f = <<>>, !.obj = <<file[f].obj>>])
    /\ UNCHANGED <<ofile, held>>

\* fileclose, after: pipeclose or iput, by the type in ff.
fileclose_release(p) ==
    LET r == pr[p] IN
    /\ r.close # <<>> /\ r.obj # <<>>
    /\ held' = held \ {r.obj[1]}
    /\ To(p, Closing(r, Tail(r.close)))
    /\ UNCHANGED <<file, ofile>>

\* fork: filedup of every open file.
fork(p, c) ==
    /\ pr[p].at = "user" /\ pr[c].at = "none"
    /\ ofile' = [ofile EXCEPT ![c] = ofile[p]]
    /\ file' = [f \in FileSlots |-> [file[f] EXCEPT !.ref = @ + Cardinality({fd \in Fds : ofile[p][fd] = f})]]
    /\ To(c, Running)
    /\ UNCHANGED held

\* exit: fileclose of one descriptor after the other, then the zombie (and its
\* slot is free again).
exit(p) ==
    /\ p # initproc /\ pr[p].at \in {"user", "exit"} /\ pr[p].close = <<>>
    /\ LET fds == Fds \ FreeFds(p) IN
           IF fds = {} THEN To(p, Unborn) /\ ofile' = ofile
           ELSE /\ ofile' = [ofile EXCEPT ![p][Min(fds)] = None]
                /\ To(p, [pr[p] EXCEPT !.at = "exit", !.close = <<ofile[p][Min(fds)]>>])
    /\ UNCHANGED <<file, held>>

Init ==
    /\ file = [f \in FileSlots |-> [ref |-> 0, obj |-> None]]
    /\ ofile = [p \in Procs |-> [fd \in Fds |-> None]]
    /\ held = {}
    /\ pr = [p \in Procs |-> IF p = initproc THEN Running ELSE Unborn]

Next ==
    \E p \in Procs :
        \/ filealloc(p, "open") \/ filealloc(p, "pipe") \/ pipealloc_bad(p)
        \/ open(p) \/ pipealloc(p) \/ pipe(p)
        \/ \E fd \in Fds : dup(p, fd) \/ close(p, fd)
        \/ fileclose(p) \/ fileclose_release(p)
        \/ \E c \in Procs : fork(p, c)
        \/ exit(p)

Spec == Init /\ [][Next]_vars

-----------------------------------------------------------------------------
\* The references to entry f: descriptors, and calls between filealloc and fdalloc
\* or before fileclose gave the reference up.
RefsTo(f) ==
    Cardinality({x \in Procs \X Fds : ofile[x[1]][x[2]] = f})
    + Cardinality({x \in Procs \X {1, 2} : x[2] \in DOMAIN pr[x[1]].f /\ pr[x[1]].f[x[2]] = f /\ pr[x[1]].close = <<>>})
    + Cardinality({x \in Procs \X {1, 2} : x[2] \in DOMAIN pr[x[1]].close /\ pr[x[1]].close[x[2]] = f
                                            /\ ~(x[2] = 1 /\ pr[x[1]].obj # <<>>)})

\* ref counts the references to an open file, through dup, fork, close, exit and the
\* calls that fail for want of a descriptor: the panics of filedup and fileclose
\* ("ref < 1") are never met, and an entry is free when nobody has it.
RefsExact == \A f \in FileSlots : file[f].ref = RefsTo(f)

\* An open descriptor leads to an inode or pipe end that is not released yet, and
\* two files never lead to the same one (fileclose releases after it emptied the
\* entry, which may belong to somebody else by then).
OpenIsHeld ==
    /\ \A p \in Procs, fd \in Fds : ofile[p][fd] # None => file[ofile[p][fd]].obj \in held
    /\ \A f, g \in FileSlots : f # g /\ file[f].obj # None => file[f].obj # file[g].obj

\* Nothing is left over: an inode or pipe end that is not released belongs to an open
\* file or to the fileclose that is about to release it, so that the reader of a pipe
\* whose writers are all closed sees the end.
NothingLeft ==
    held \subseteq {file[f].obj : f \in {g \in FileSlots : file[g].ref > 0}}
                   \cup {pr[p].obj[1] : p \in {q \in Procs : pr[q].close # <<>> /\ pr[q].obj # <<>>}}
=============================================================================
