------------------------------ MODULE Channel -------------------------------
(***************************************************************************)
(* What a pipe promises: bytes come out in the order in which they went    *)
(* in, none is lost, made up or read twice, and at most PIPESIZE wait.     *)
(***************************************************************************)
EXTENDS Naturals, Sequences

CONSTANTS Procs, Bytes, PIPESIZE

VARIABLES
  q,       \* the bytes in the channel
  todo,    \* what each process still has to send
  got      \* what was received last

chanVars == <<q, todo, got>>

Init ==
  /\ q = <<>>
  /\ todo = [p \in Procs |-> <<>>]
  /\ got = <<>>

Offer(p) ==
  /\ todo[p] = <<>>
  /\ todo'[p] \in Seq(Bytes)
  /\ todo' = [todo EXCEPT ![p] = todo'[p]]
  /\ UNCHANGED <<q, got>>

\* Some of the bytes go into the channel, and what does not fit may be dropped
\* by a sender that gives up.
Send(p) ==
  \E k \in 0 .. Len(todo[p]) :
    /\ Len(q) + k <= PIPESIZE
    /\ q' = q \o SubSeq(todo[p], 1, k)
    /\ todo' = [todo EXCEPT ![p] = SubSeq(@, k + 1, Len(@))]
    /\ UNCHANGED got

GiveUp(p) ==
  \E k \in 0 .. Len(todo[p]) :
    /\ Len(q) + k = PIPESIZE
    /\ q' = q \o SubSeq(todo[p], 1, k)
    /\ todo' = [todo EXCEPT ![p] = <<>>]
    /\ UNCHANGED got

Receive ==
  \E k \in 0 .. Len(q) :
    /\ got' = SubSeq(q, 1, k)
    /\ q' = SubSeq(q, k + 1, Len(q))
    /\ UNCHANGED todo

\* The page of a pipe is freed with its last end, and what was not read is gone.  The
\* channel has no ends, so it may be emptied at any time; that a page in use is not
\* freed is a property of Pipe of its own.
Reset == q' = <<>> /\ UNCHANGED <<todo, got>>

Next == Reset \/ Receive \/ \E p \in Procs : Offer(p) \/ Send(p) \/ GiveUp(p)

Spec == Init /\ [][Next]_chanVars
=============================================================================
