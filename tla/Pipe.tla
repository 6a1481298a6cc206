-------------------------------- MODULE Pipe --------------------------------
(***************************************************************************)
(* One pipe of pipe.c, shared by processes that inherit its two ends: the  *)
(* ring with its wrapping counters, the sleeps and wakeups of readers and  *)
(* writers, kill(), and the closing of the ends that frees the pipe.       *)
(*                                                                         *)
(* p->lock is held from the entry of an operation to its return or sleep,  *)
(* so one action is what an operation does in one critical section.        *)
(* kill() does not take p->lock: the step between the test of proc->killed *)
(* and the sleep is an action of its own.                                  *)
(***************************************************************************)
EXTENDS Naturals, Sequences

CONSTANTS
  Procs,
  Bytes,
  PIPESIZE,
  WORD,        \* 2^32: nread and nwrite are unsigned ints
  Addrs,       \* buffers that processes write
  Counts       \* numbers of bytes that processes ask for

ASSUME PipeAssumption ==
  /\ PIPESIZE \in Nat \ {0}
  /\ WORD \in Nat /\ WORD > PIPESIZE /\ WORD % PIPESIZE = 0
  /\ Addrs \subseteq Seq(Bytes) \ {<<>>}
  /\ Counts \subseteq Nat

VARIABLES
  data, nread, nwrite, readopen, writeopen,   \* struct pipe
  live,      \* the page of the pipe is allocated
  holds,     \* the ends that each process has open, "r" and "w"
  closing,   \* the end that a process is about to pipeclose, or "none"
  pc,        \* where each process is
  n,         \* how many bytes it wants to read
  rest,      \* what it still has to write
  got,       \* what the last read returned
  killed     \* proc->killed

ring == <<data, nread, nwrite>>
ends == <<readopen, writeopen, live, holds, closing>>
calls == <<n, rest, got>>
vars == <<ring, ends, pc, calls, killed>>

Places == {"user", "read", "rcheck", "rsleep", "write", "wcheck", "wsleep", "close"}

TypeOK ==
  /\ data \in [0 .. PIPESIZE - 1 -> Bytes]
  /\ nread \in 0 .. WORD - 1 /\ nwrite \in 0 .. WORD - 1
  /\ {readopen, writeopen, live} \subseteq BOOLEAN
  /\ holds \in [Procs -> SUBSET {"r", "w"}]
  /\ closing \in [Procs -> {"none", "r", "w"}]
  /\ pc \in [Procs -> Places]
  /\ n \in [Procs -> Counts \cup {0}]
  /\ rest \in [Procs -> Seq(Bytes)]
  /\ got \in Seq(Bytes)
  /\ killed \in [Procs -> BOOLEAN]

Least(a, b) == IF a < b THEN a ELSE b

\* nwrite - nread in unsigned arithmetic.
Count == (nwrite + WORD - nread) % WORD

Full == nwrite = (nread + PIPESIZE) % WORD

LockFree == \A p \in Procs : pc[p] \notin {"rcheck", "wcheck"}

\* pc after p goes to place and the sleepers at chan are woken to do again.
Wake(p, place, chan, again) ==
  pc' = [x \in Procs |-> IF x = p THEN place ELSE IF pc[x] = chan THEN again ELSE pc[x]]

Goto(p, place) == pc' = [pc EXCEPT ![p] = place]

-----------------------------------------------------------------------------
\* The system call read, up to acquire(&p->lock).
read(p) ==
  /\ pc[p] = "user" /\ ~killed[p] /\ "r" \in holds[p]
  /\ \E k \in Counts : n' = [n EXCEPT ![p] = k]
  /\ Goto(p, "read")
  /\ UNCHANGED <<ring, ends, rest, got, killed>>

\* piperead of an empty pipe: return -1 when killed, go to sleep otherwise.
piperead_empty(p) ==
  /\ pc[p] = "read" /\ LockFree
  /\ nread = nwrite /\ writeopen
  /\ IF killed[p] THEN Goto(p, "user") /\ n' = [n EXCEPT ![p] = 0]
                  ELSE Goto(p, "rcheck") /\ n' = n
  /\ UNCHANGED <<ring, ends, rest, got, killed>>

piperead_sleep(p) ==
  /\ pc[p] = "rcheck"
  /\ Goto(p, "rsleep")
  /\ UNCHANGED <<ring, ends, calls, killed>>

\* Mutant of piperead: the writers are not woken.
piperead_silent(p) ==
  LET k == Least(n[p], Count) IN
  /\ pc[p] = "read" /\ LockFree
  /\ nread # nwrite \/ ~writeopen
  /\ got' = [i \in 1 .. k |-> data[(nread + i - 1) % PIPESIZE]]
  /\ nread' = (nread + k) % WORD
  /\ n' = [n EXCEPT ![p] = 0]
  /\ Goto(p, "user")
  /\ UNCHANGED <<data, nwrite, ends, rest, killed>>

\* Mutant of piperead: it does not stop when the pipe is empty.
piperead_greedy(p) ==
  LET k == n[p] IN
  /\ pc[p] = "read" /\ LockFree
  /\ nread # nwrite \/ ~writeopen
  /\ got' = [i \in 1 .. k |-> data[(nread + i - 1) % PIPESIZE]]
  /\ nread' = (nread + k) % WORD
  /\ n' = [n EXCEPT ![p] = 0]
  /\ Wake(p, "user", "wsleep", "write")
  /\ UNCHANGED <<data, nwrite, ends, rest, killed>>

\* piperead of what there is, nothing at the end of the file.
piperead(p) ==
  LET k == Least(n[p], Count) IN
  /\ pc[p] = "read" /\ LockFree
  /\ nread # nwrite \/ ~writeopen
  /\ got' = [i \in 1 .. k |-> data[(nread + i - 1) % PIPESIZE]]
  /\ nread' = (nread + k) % WORD
  /\ n' = [n EXCEPT ![p] = 0]
  /\ Wake(p, "user", "wsleep", "write")
  /\ UNCHANGED <<data, nwrite, ends, rest, killed>>

\* The system call write, up to acquire(&p->lock).
write(p) ==
  /\ pc[p] = "user" /\ ~killed[p] /\ "w" \in holds[p]
  /\ \E s \in Addrs : rest' = [rest EXCEPT ![p] = s]
  /\ Goto(p, "write")
  /\ UNCHANGED <<ring, ends, n, got, killed>>

\* pipewrite's loop puts the first k bytes of rest into the ring.
Put(p, k) ==
  /\ data' = [j \in 0 .. PIPESIZE - 1 |->
                IF \E i \in 1 .. k : (nwrite + i - 1) % PIPESIZE = j
                THEN rest[p][CHOOSE i \in 1 .. k : (nwrite + i - 1) % PIPESIZE = j]
                ELSE data[j]]
  /\ nwrite' = (nwrite + k) % WORD
  /\ UNCHANGED nread

\* Mutant of pipewrite: the readers are not woken.
pipewrite_quiet(p) ==
  LET k == Len(rest[p]) IN
  /\ pc[p] = "write" /\ LockFree
  /\ Count + k <= PIPESIZE
  /\ Put(p, k)
  /\ rest' = [rest EXCEPT ![p] = <<>>]
  /\ Goto(p, "user")
  /\ UNCHANGED <<ends, n, got, killed>>

\* pipewrite of bytes that all fit.
pipewrite(p) ==
  LET k == Len(rest[p]) IN
  /\ pc[p] = "write" /\ LockFree
  /\ Count + k <= PIPESIZE
  /\ Put(p, k)
  /\ rest' = [rest EXCEPT ![p] = <<>>]
  /\ Wake(p, "user", "rsleep", "read")
  /\ UNCHANGED <<ends, n, got, killed>>

\* pipewrite fills the pipe, with bytes left: wake the readers and sleep.
pipewrite_full(p) ==
  LET k == PIPESIZE - Count IN
  /\ pc[p] = "write" /\ LockFree
  /\ Len(rest[p]) > k /\ readopen /\ ~killed[p]
  /\ Put(p, k)
  /\ rest' = [rest EXCEPT ![p] = SubSeq(@, k + 1, Len(@))]
  /\ Wake(p, "wcheck", "rsleep", "read")
  /\ UNCHANGED <<ends, n, got, killed>>

pipewrite_sleep(p) ==
  /\ pc[p] = "wcheck"
  /\ Goto(p, "wsleep")
  /\ UNCHANGED <<ring, ends, calls, killed>>

\* pipewrite fills the pipe, with bytes left: return -1, and wake nobody.
pipewrite_fail(p) ==
  LET k == PIPESIZE - Count IN
  /\ pc[p] = "write" /\ LockFree
  /\ Len(rest[p]) > k /\ (~readopen \/ killed[p])
  /\ Put(p, k)
  /\ rest' = [rest EXCEPT ![p] = <<>>]
  /\ Goto(p, "user")
  /\ UNCHANGED <<ends, n, got, killed>>

-----------------------------------------------------------------------------
\* fileclose, by close() or exit(): the last reference to an end closes it.
fileclose(p, e) ==
  LET last == \A x \in Procs \ {p} : e \notin holds[x] IN
  /\ pc[p] = "user" /\ e \in holds[p]
  /\ holds' = [holds EXCEPT ![p] = @ \ {e}]
  /\ closing' = [closing EXCEPT ![p] = IF last THEN e ELSE "none"]
  /\ Goto(p, IF last THEN "close" ELSE "user")
  /\ UNCHANGED <<ring, readopen, writeopen, live, calls, killed>>

\* Mutant of pipeclose: one closed end is enough to free the page.
pipeclose_early(p) ==
  LET r == readopen /\ closing[p] # "r"
      w == writeopen /\ closing[p] # "w" IN
  /\ pc[p] = "close" /\ LockFree
  /\ readopen' = r /\ writeopen' = w
  /\ live' = (r /\ w)
  /\ closing' = [closing EXCEPT ![p] = "none"]
  /\ IF closing[p] = "w" THEN Wake(p, "user", "rsleep", "read")
                         ELSE Wake(p, "user", "wsleep", "write")
  /\ UNCHANGED <<ring, holds, calls, killed>>

\* Mutant of pipeclose: the sleepers at the wrong channel are woken.
pipeclose_swapped(p) ==
  LET r == readopen /\ closing[p] # "r"
      w == writeopen /\ closing[p] # "w" IN
  /\ pc[p] = "close" /\ LockFree
  /\ readopen' = r /\ writeopen' = w
  /\ live' = (r \/ w)
  /\ closing' = [closing EXCEPT ![p] = "none"]
  /\ IF closing[p] = "r" THEN Wake(p, "user", "rsleep", "read")
                         ELSE Wake(p, "user", "wsleep", "write")
  /\ UNCHANGED <<ring, holds, calls, killed>>

pipeclose(p) ==
  LET r == readopen /\ closing[p] # "r"
      w == writeopen /\ closing[p] # "w" IN
  /\ pc[p] = "close" /\ LockFree
  /\ readopen' = r /\ writeopen' = w
  /\ live' = (r \/ w)
  /\ closing' = [closing EXCEPT ![p] = "none"]
  /\ IF closing[p] = "w" THEN Wake(p, "user", "rsleep", "read")
                         ELSE Wake(p, "user", "wsleep", "write")
  /\ UNCHANGED <<ring, holds, calls, killed>>

\* kill(): mark the process, and wake it if it is asleep by then.
kill(p) ==
  /\ ~killed[p] /\ holds[p] # {}
  /\ killed' = [killed EXCEPT ![p] = TRUE]
  /\ pc' = [pc EXCEPT ![p] = CASE @ = "rsleep" -> "read"
                               [] @ = "wsleep" -> "write"
                               [] OTHER -> @]
  /\ UNCHANGED <<ring, ends, calls>>

\* fork(): the child has what the parent has open.
fork(p, c) ==
  /\ pc[p] = "user" /\ ~killed[p] /\ holds[p] # {}
  /\ pc[c] = "user" /\ holds[c] = {}
  /\ holds' = [holds EXCEPT ![c] = holds[p]]
  /\ killed' = [killed EXCEPT ![c] = FALSE]
  /\ UNCHANGED <<ring, readopen, writeopen, live, closing, pc, calls>>

\* pipealloc, by a process without ends (in p's slot there may be a new one);
\* the page holds whatever it held before.
pipealloc(p) ==
  /\ ~live /\ pc[p] = "user" /\ holds[p] = {}
  /\ readopen' = TRUE /\ writeopen' = TRUE
  /\ nread' = 0 /\ nwrite' = 0
  /\ live' = TRUE
  /\ holds' = [holds EXCEPT ![p] = {"r", "w"}]
  /\ killed' = [killed EXCEPT ![p] = FALSE]
  /\ UNCHANGED <<data, closing, pc, calls>>

-----------------------------------------------------------------------------
Init ==
  /\ data \in [0 .. PIPESIZE - 1 -> Bytes]
  /\ nread = 0 /\ nwrite = 0
  /\ readopen = FALSE /\ writeopen = FALSE /\ live = FALSE
  /\ holds = [p \in Procs |-> {}]
  /\ closing = [p \in Procs |-> "none"]
  /\ pc = [p \in Procs |-> "user"]
  /\ n = [p \in Procs |-> 0]
  /\ rest = [p \in Procs |-> <<>>]
  /\ got = <<>>
  /\ killed = [p \in Procs |-> FALSE]

\* What a process does in the kernel once it is there.
Kernel(p) ==
  \/ piperead_empty(p) \/ piperead_sleep(p) \/ piperead(p)
  \/ pipewrite(p) \/ pipewrite_full(p) \/ pipewrite_sleep(p) \/ pipewrite_fail(p)
  \/ pipeclose(p)

Next ==
  \E p \in Procs :
    \/ read(p) \/ write(p) \/ Kernel(p) \/ kill(p) \/ pipealloc(p)
    \/ \E e \in {"r", "w"} : fileclose(p, e)
    \/ \E c \in Procs \ {p} : fork(p, c)

Spec == Init /\ [][Next]_vars

\* A RUNNABLE process is scheduled, and a spinlock that is free again and
\* again is acquired in the end.
FairSpec == Spec /\ \A p \in Procs : SF_vars(Kernel(p))
-----------------------------------------------------------------------------
(* Properties *)

\* A writer asleep in pipewrite waits for room that is not there, from a reader
\* that exists: no wakeup of piperead or pipeclose is lost (pipe.c:84-91, 117).
WriterHasReason == \A p \in Procs : pc[p] = "wsleep" => Full /\ readopen

\* A reader asleep in piperead is woken by the close of the last writer, and by
\* the bytes that end its reason to sleep ("pipe-empty", pipe.c:105), unless a
\* killed writer left them: pipewrite returns -1 from a full pipe without the
\* wakeup that its other exits make (pipe.c:85-88).
ReaderWoken ==
  [][\A p \in Procs : pc[p] = "rsleep" /\ pc'[p] = "rsleep" =>
       /\ writeopen'
       /\ nread = nwrite /\ nread' # nwrite' => \E q \in Procs : pc[q] = "write" /\ killed[q]]_vars

\* No wakeup of a pipe is lost, of a writer or of a reader.
NoLostWakeup == []WriterHasReason /\ ReaderWoken

\* At the end of the file a reader does not stay in the kernel: who reads
\* once the last writer has closed returns (pipe.c:63-64, 105).
EofReturns ==
  \A p \in Procs :
    pc[p] \in {"read", "rcheck", "rsleep"} /\ live /\ ~writeopen ~> pc[p] = "user"

\* A killed process leaves the pipe: kill() wakes it from its sleep.
KilledReturns ==
  \A p \in Procs : killed[p] /\ pc[p] # "user" ~> pc[p] = "user"

\* The page is freed once, and nobody is or gets inside a freed pipe
\* (pipe.c:69-73, with the references of file.c:55-79).
NoUseAfterFree ==
  \A p \in Procs : pc[p] # "user" \/ holds[p] # {} => live

\* The ring, read through counters that wrap around, is a bounded FIFO channel.
Fifo == INSTANCE Channel
          WITH q <- [i \in 1 .. Count |-> data[(nread + i - 1) % PIPESIZE]],
               todo <- rest
IsFifo == Fifo!Spec
=============================================================================
