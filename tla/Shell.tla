------------------------------- MODULE Shell -------------------------------
(***************************************************************************)
(* How the shell runs a command (user/sh.c, main and runcmd): processes    *)
(* forked along the tree of the command, each with its own descriptors,    *)
(* the plumbing of pipes and redirections, and who waits for whom.         *)
(* A process is named by the place in the tree it was forked for, behind   *)
(* the number of the command line.                                         *)
(***************************************************************************)
EXTENDS Integers, Sequences, FiniteSetsExt, SequencesExt, Functions

CONSTANTS
    Cmds,       \* trees the parser may return
    MaxLines,   \* command lines typed
    NOFILE,     \* descriptors of a process
    FORKFAILS   \* may fork fail?

\* What the constants have to satisfy.
ShellAssumption == MaxLines \in Nat /\ NOFILE \in Nat /\ NOFILE >= 4

VARIABLES
    lines,      \* the command lines read so far
    pr          \* the processes: where they are, what they run, and their descriptors

vars == <<lines, pr>>

shell == <<>>
initproc == <<0>>
Closed == [k |-> "none", id |-> <<>>]
Console == [k |-> "console", id |-> <<>>]
File(f) == [k |-> "file", id |-> <<f>>]
Pipe(node, end) == [k |-> end, id |-> node]

\* open, dup and pipe give out the lowest descriptor that is free.
FreeFds(fd) == {i \in DOMAIN fd : fd[i] = Closed}
AddFd(fd, o) == [fd EXCEPT ![Min(FreeFds(fd))] = o]
CloseFd(fd, i) == [fd EXCEPT ![i] = Closed]

Set(p, r) == [pr EXCEPT ![p] = r]
Cmd(p) == pr[p].cmd
At(p, place) == p \in DOMAIN pr /\ pr[p].at = place
Children(p) == {q \in DOMAIN pr : pr[q].parent = p}

\* exit(): descriptors are closed, children go to init, which reaps what is dead.
Exit(f, p) ==
    LET g == [q \in DOMAIN f |->
                 IF q = p THEN [f[q] EXCEPT !.at = "zombie", !.fd = [i \in DOMAIN @ |-> Closed]]
                 ELSE IF f[q].parent = p THEN [f[q] EXCEPT !.parent = initproc] ELSE f[q]]
    IN Restrict(g, {q \in DOMAIN g : g[q].at # "zombie" \/ g[q].parent # initproc})
exit(p) == pr' = Exit(pr, p)

\* fork1(): the child runs command c of node n with descriptors fd; the parent goes
\* on as r.  A failed fork is a panic, that is, exit.
fork1(p, n, c, fd, r) ==
    \/ pr' = [q \in DOMAIN pr \cup {n} |->
                 IF q = n THEN [at |-> "runcmd", node |-> n, cmd |-> c, fd |-> fd, parent |-> p]
                 ELSE IF q = p THEN r ELSE pr[q]]
    \/ FORKFAILS /\ exit(p)

\* wait(): a zombie child is reaped, or there is no child to wait for.
wait(p, r) ==
    \/ \E q \in Children(p) : pr[q].at = "zombie" /\ pr' = Restrict(Set(p, r), DOMAIN pr \ {q})
    \/ Children(p) = {} /\ pr' = Set(p, r)

Goto(p, place) == [pr[p] EXCEPT !.at = place]
To(p, dir, c, fd) == [pr[p] EXCEPT !.at = "runcmd", !.node = Append(@, dir), !.cmd = c, !.fd = fd]

\* Mutant of main_open: the shell is content with the descriptors it has.
main_open_not ==
    /\ At(shell, "open")
    /\ pr' = Set(shell, Goto(shell, "getcmd"))
    /\ UNCHANGED lines

\* main: the console is opened until descriptor 3 comes back, which is closed.
main_open ==
    /\ At(shell, "open")
    /\ LET fd == pr[shell].fd IN
       pr' = IF Min(FreeFds(fd)) >= 3 THEN Set(shell, Goto(shell, "getcmd"))
             ELSE Set(shell, [pr[shell] EXCEPT !.fd = AddFd(fd, Console)])
    /\ UNCHANGED lines

\* main's loop: read a line, fork a child to run it, wait; end of file ends the shell.
getcmd(c) ==
    /\ At(shell, "getcmd") /\ Len(lines) < MaxLines
    /\ lines' = Append(lines, c)
    /\ fork1(shell, <<Len(lines) + 1>>, c, pr[shell].fd, Goto(shell, "wait"))
getcmd_eof ==
    /\ At(shell, "getcmd") /\ exit(shell)
    /\ UNCHANGED lines
main_wait ==
    /\ At(shell, "wait") /\ wait(shell, Goto(shell, "getcmd"))
    /\ UNCHANGED lines

\* EXEC: the program replaces the shell, or exec fails; without words there is none.
runcmd_exec(p) ==
    /\ At(p, "runcmd") /\ Cmd(p).type = "EXEC"
    /\ (Cmd(p).argv # <<>> /\ pr' = Set(p, Goto(p, "program"))) \/ exit(p)

\* REDIR: close the descriptor and open the file in its place.
runcmd_redir(p) ==
    /\ At(p, "runcmd") /\ Cmd(p).type = "REDIR"
    /\ LET fd == CloseFd(pr[p].fd, Cmd(p).fd) IN
       pr' = Set(p, To(p, "C", Cmd(p).cmd, AddFd(fd, File(Cmd(p).file)))) \/ exit(p)

\* Mutant of runcmd_list: the right part starts without waiting for the left one.
runcmd_list_nowait(p) ==
    /\ At(p, "runcmd") /\ Cmd(p).type = "LIST"
    /\ fork1(p, Append(pr[p].node, "L"), Cmd(p).left, pr[p].fd, To(p, "R", Cmd(p).right, pr[p].fd))

\* LIST: a child runs the left part; after it, this process runs the right one.
runcmd_list(p) ==
    /\ At(p, "runcmd") /\ Cmd(p).type = "LIST"
    /\ fork1(p, Append(pr[p].node, "L"), Cmd(p).left, pr[p].fd, Goto(p, "list_wait"))
list_wait(p) ==
    /\ At(p, "list_wait") /\ wait(p, To(p, "R", Cmd(p).right, pr[p].fd))

\* Descriptors of the two children of a pipe, whose ends were p[0] = a and p[1] = b.
Left(fd, a, b) == CloseFd(CloseFd(AddFd(CloseFd(fd, 1), fd[b]), a), b)
Right(fd, a, b) == CloseFd(CloseFd(AddFd(CloseFd(fd, 0), fd[a]), a), b)

\* PIPE: the pipe and the left child, the right child, then both ends closed and two
\* waits; p[0] and p[1] are where the ends are.
End(p, end) == CHOOSE i \in DOMAIN pr[p].fd : pr[p].fd[i] = Pipe(pr[p].node, end)
runcmd_pipe(p) ==
    /\ At(p, "runcmd") /\ Cmd(p).type = "PIPE"
    /\ LET n == pr[p].node
           fd == AddFd(AddFd(pr[p].fd, Pipe(n, "r")), Pipe(n, "w"))
           a == Min(FreeFds(pr[p].fd))
           b == Min(FreeFds(pr[p].fd) \ {a})
       IN IF Cardinality(FreeFds(pr[p].fd)) < 2 THEN exit(p)
          ELSE fork1(p, Append(n, "L"), Cmd(p).left, Left(fd, a, b), [Goto(p, "pipe_right") EXCEPT !.fd = fd])

\* Mutant of pipe_right: the parent keeps the write end while it waits.
pipe_right_open(p) ==
    /\ At(p, "pipe_right")
    /\ LET fd == pr[p].fd  a == End(p, "r")  b == End(p, "w") IN
       fork1(p, Append(pr[p].node, "R"), Cmd(p).right, Right(fd, a, b), [Goto(p, "pipe_wait") EXCEPT !.fd = CloseFd(fd, a)])

pipe_right(p) ==
    /\ At(p, "pipe_right")
    /\ LET fd == pr[p].fd  a == End(p, "r")  b == End(p, "w") IN
       fork1(p, Append(pr[p].node, "R"), Cmd(p).right, Right(fd, a, b),
             [Goto(p, "pipe_wait") EXCEPT !.fd = CloseFd(CloseFd(fd, a), b)])
pipe_wait(p) ==
    \/ At(p, "pipe_wait") /\ wait(p, Goto(p, "pipe_wait2"))
    \/ At(p, "pipe_wait2") /\ wait(p, Goto(p, "exit"))
pipe_exit(p) == At(p, "exit") /\ exit(p)

\* BACK: a child runs the command and nobody waits for it.
runcmd_back(p) ==
    /\ At(p, "runcmd") /\ Cmd(p).type = "BACK"
    /\ fork1(p, Append(pr[p].node, "C"), Cmd(p).cmd, pr[p].fd, Goto(p, "exit"))

\* Programs: one reads its input to the end and exits; a pipe ends when no process
\* has its write end open.  It may also exit before.
Writers(id) == {q \in DOMAIN pr : \E i \in DOMAIN pr[q].fd : pr[q].fd[i] = Pipe(id, "w")}
program_ends(p) ==
    /\ At(p, "program") /\ (pr[p].fd[0].k = "r" => Writers(pr[p].fd[0].id) = {})
    /\ exit(p)
program_quits(p) == At(p, "program") /\ exit(p) /\ UNCHANGED lines

\* init.c starts the shell with the console as 0, 1 and 2; fewer are allowed for.
Init ==
    /\ lines = <<>>
    /\ \E n \in 0 .. 3 :
           pr = [p \in {shell} |-> [at |-> "open", node |-> shell, cmd |-> [type |-> "none"], parent |-> initproc,
                                    fd |-> [i \in 0 .. NOFILE - 1 |-> IF i < n THEN Console ELSE Closed]]]
Step(p) ==
    /\ \/ runcmd_exec(p) \/ runcmd_redir(p) \/ runcmd_list(p) \/ list_wait(p) \/ runcmd_pipe(p)
       \/ pipe_right(p) \/ pipe_wait(p) \/ pipe_exit(p) \/ runcmd_back(p) \/ program_ends(p)
    /\ UNCHANGED lines
Run == main_wait \/ \E p \in DOMAIN pr : Step(p)
Logout == shell \notin DOMAIN pr /\ UNCHANGED vars
Next ==
    \/ Run \/ main_open \/ getcmd_eof \/ Logout
    \/ \E c \in Cmds : getcmd(c)
    \/ \E p \in DOMAIN pr : program_quits(p)
Spec == Init /\ [][Next]_vars

----------------------------------------------------------------------------
(* Properties *)

\* What descriptors 0 and 1 of the command at node n mean, read off the tree from
\* the root: the innermost pipe or redirection of each counts.
RECURSIVE Meaning(_, _, _, _)
Meaning(c, at, rest, fds) ==
    IF rest = <<>> THEN fds ELSE
    LET n == Append(at, Head(rest)) IN
    CASE c.type = "PIPE" /\ Head(rest) = "L" -> Meaning(c.left, n, Tail(rest), <<fds[1], Pipe(at, "w")>>)
      [] c.type = "PIPE" /\ Head(rest) = "R" -> Meaning(c.right, n, Tail(rest), <<Pipe(at, "r"), fds[2]>>)
      [] c.type = "REDIR" -> Meaning(c.cmd, n, Tail(rest), [fds EXCEPT ![c.fd + 1] = File(c.file)])
      [] c.type = "BACK" -> Meaning(c.cmd, n, Tail(rest), fds)
      [] c.type = "LIST" -> Meaning(IF Head(rest) = "L" THEN c.left ELSE c.right, n, Tail(rest), fds)

\* A program starts with the descriptors its place in the command asks for, the
\* console as 2, and nothing else open: no stray end of a pipe (the dup and close
\* calls of runcmd rely on the lowest descriptor being the one just closed).
Plumbed ==
    \A p \in DOMAIN pr : pr[p].at = "program" =>
        LET n == pr[p].node
            m == Meaning(lines[n[1]], <<n[1]>>, Tail(n), <<Console, Console>>)
        IN pr[p].fd = [i \in 0 .. NOFILE - 1 |->
                          IF i < 2 THEN m[i + 1] ELSE IF i = 2 THEN Console ELSE Closed]

\* The command at a node.
RECURSIVE Subtree(_, _)
Subtree(c, rest) ==
    IF rest = <<>> THEN c
    ELSE Subtree(CASE Head(rest) = "C" -> c.cmd [] Head(rest) = "L" -> c.left [] OTHER -> c.right, Tail(rest))
TypeOf(n) == Subtree(lines[n[1]], Tail(n)).type

\* The parts of a list run one after the other: when the right part runs, only
\* background commands of the left part are still there.
ListInOrder ==
    \A p, q \in DOMAIN pr :
        LET a == pr[p].node  b == pr[q].node IN
        \A i \in 2 .. Len(a) :
            (i <= Len(b) /\ SubSeq(a, 1, i - 1) = SubSeq(b, 1, i - 1) /\ a[i] = "L" /\ b[i] = "R"
             /\ TypeOf(SubSeq(a, 1, i - 1)) = "LIST" /\ pr[p].at # "zombie")
            => \E j \in i .. Len(a) - 1 : TypeOf(SubSeq(a, 1, j)) = "BACK"

\* The prompt comes back: no pipe keeps a reader waiting for a writer that is only
\* an end somebody forgot to close, and no wait waits for ever.
PromptReturns == At(shell, "wait") ~> ~At(shell, "wait")
============================================================================
