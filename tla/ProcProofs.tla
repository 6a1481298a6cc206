----------------------------- MODULE ProcProofs -----------------------------
(***************************************************************************)
(* Proofs about Proc, for every number of slots, CPUs, levels and channels *)
(* and every quantum: the run queues and the CPUs, then parents and        *)
(* children, killed processes, and the refinement of Mlfq.                 *)
(***************************************************************************)
EXTENDS Proc, WellFoundedInduction, TLAPS

\* The invariants are long formulas: the provers get more time for them.
USE SMTT(30), ZenonT(30)

-----------------------------------------------------------------------------
(* The run queues of mlf.c, as sequences and as linked lists *)

\* The ends of a queue of n processes, and of what is left of it once its
\* first process is unlinked, are indices.
LEMMA EndsAreIndices ==
  ASSUME NEW n \in Nat, n # 0
  PROVE  /\ 1 \in 1 .. n
         /\ n # 1 => 1 \in 1 .. n - 1 /\ n - 1 \in 1 .. n - 1
  BY SMT

\* Sequences: their elements, the empty one, and what Append, Head and Tail do.
LEMMA ElementOfSeq ==
  ASSUME NEW S, NEW s \in Seq(S), NEW n \in 1 .. Len(s)
  PROVE  s[n] \in S
  OBVIOUS

\* A queue that is not empty has a length that is not 0 (first and last of mlf.c).
LEMMA EmptySeq ==
  ASSUME NEW S
  PROVE  <<>> \in Seq(S) /\ Len(<<>>) = 0 /\ \A s \in Seq(S) : s # <<>> => Len(s) \in Nat \ {0}
  OBVIOUS

\* A queue as a function on its indices.
LEMMA LenProperties ==
  ASSUME NEW S, NEW s \in Seq(S)
  PROVE  Len(s) \in Nat /\ s \in [1 .. Len(s) -> S] /\ DOMAIN s = 1 .. Len(s)
  OBVIOUS

\* encolar adds at the tail.
LEMMA AppendProperties ==
  ASSUME NEW S, NEW s \in Seq(S), NEW x \in S
  PROVE  /\ Append(s, x) \in Seq(S) /\ Append(s, x) # <<>> /\ Len(Append(s, x)) = Len(s) + 1
         /\ Append(s, x)[Len(s) + 1] = x /\ \A i \in 1 .. Len(s) : Append(s, x)[i] = s[i]
  OBVIOUS

\* desencolar takes from the head.
LEMMA HeadTailProperties ==
  ASSUME NEW S, NEW s \in Seq(S), s # <<>>
  PROVE  /\ Head(s) \in S /\ Tail(s) \in Seq(S) /\ Len(Tail(s)) = Len(s) - 1
         /\ \A i \in 1 .. Len(Tail(s)) : Tail(s)[i] = s[i + 1]
  OBVIOUS

\* make_runnable of a process that is not RUNNABLE keeps the queues intact.
LEMMA EnqueueIntact ==
  ASSUME TypeOK, QueuesIntact, NEW p \in Procs, NEW l \in Levels,
         state[p] # "RUNNABLE", make_runnable(p, l)
  PROVE  QueuesIntact'
<1>. DEFINE q == order[l]
<1>0. /\ state \in [Procs -> States] /\ level \in [Procs -> Levels]
      /\ next \in [Procs -> Procs \cup {Null}] /\ size \in [Levels -> Int]
      /\ first \in [Levels -> Procs \cup {Null}] /\ last \in [Levels -> Procs \cup {Null}]
      /\ order \in [Levels -> Seq(Procs)]
  BY Zenon DEF TypeOK
<1>1. /\ q \in Seq(Procs) /\ Len(q) \in Nat
      /\ order'[l] = Append(q, p)
      /\ \A m \in Levels : m # l => order'[m] = order[m]
  BY <1>0 DEF make_runnable, encolar
<1>2. /\ Len(order'[l]) = Len(q) + 1
      /\ order'[l][Len(q) + 1] = p
      /\ \A i \in 1 .. Len(q) : order'[l][i] = q[i]
  BY <1>1, AppendProperties
<1>3. /\ state' = [state EXCEPT ![p] = "RUNNABLE"]
      /\ level' = [level EXCEPT ![p] = l]
  BY Zenon DEF make_runnable, encolar
<1>4. \A m \in Levels : \A i \in 1 .. Len(order[m]) :
        /\ order[m][i] \in Procs /\ order[m][i] # p
        /\ state[order[m][i]] = "RUNNABLE" /\ level[order[m][i]] = m
        /\ \A j \in 1 .. Len(order[m]) : order[m][i] = order[m][j] => i = j
  <2>1. ASSUME NEW m \in Levels, NEW i \in 1 .. Len(order[m])
        PROVE  order[m][i] \in Procs
    BY <1>0, ElementOfSeq, Zenon
  <2>. QED
    BY <2>1 DEF QueuesIntact, Queued
<1>5. Queued'
  <2>1. ASSUME NEW m \in Levels, NEW i \in 1 .. Len(order'[m])
        PROVE  /\ state'[order'[m][i]] = "RUNNABLE" /\ level'[order'[m][i]] = m
               /\ \A j \in 1 .. Len(order'[m]) : order'[m][i] = order'[m][j] => i = j
    <3>1. CASE m # l
      <4>1. order'[m] = order[m]
        BY <3>1, <1>1, Zenon
      <4>2. i \in 1 .. Len(order[m])
        BY <4>1, Zenon
      <4>. QED
        BY <4>1, <4>2, <1>0, <1>3, <1>4
    <3>2. CASE m = l /\ i \in 1 .. Len(q)
      <4>1. /\ order'[m][i] = order[m][i] /\ order[m][i] \in Procs /\ order[m][i] # p
            /\ state[order[m][i]] = "RUNNABLE" /\ level[order[m][i]] = m
            /\ \A j \in 1 .. Len(q) : q[i] = q[j] => i = j
        BY <3>2, <1>2, <1>4, Zenon
      <4>2. state'[order'[m][i]] = "RUNNABLE" /\ level'[order'[m][i]] = m
        BY <4>1, <1>0, <1>3, Zenon
      <4>3. ASSUME NEW j \in 1 .. Len(order'[m]), order'[m][i] = order'[m][j] PROVE i = j
        <5>1. j \in 1 .. Len(q) \/ j = Len(q) + 1
          BY <3>2, <1>1, <1>2
        <5>. QED
          BY <3>2, <4>1, <4>3, <5>1, <1>2, Zenon
      <4>. QED
        BY <4>2, <4>3, Zenon
    <3>3. CASE m = l /\ i = Len(q) + 1
      BY <3>3, <1>0, <1>1, <1>2, <1>3, <1>4
    <3>. QED
      BY <3>1, <3>2, <3>3, <2>1, <1>1, <1>2
  <2>2. ASSUME NEW r \in Procs, state'[r] = "RUNNABLE"
        PROVE  \E i \in 1 .. Len(order'[level'[r]]) : order'[level'[r]][i] = r
    <3>1. CASE r = p
      BY <3>1, <1>0, <1>1, <1>2, <1>3
    <3>2. CASE r # p
      <4>1. state[r] = "RUNNABLE" /\ level'[r] = level[r] /\ level[r] \in Levels
        BY <3>2, <2>2, <1>0, <1>3, Zenon
      <4>2. PICK i \in 1 .. Len(order[level[r]]) : order[level[r]][i] = r
        BY <4>1, Zenon DEF QueuesIntact, Queued
      <4>3. i \in 1 .. Len(order'[level[r]]) /\ order'[level[r]][i] = r
        BY <4>1, <4>2, <1>1, <1>2
      <4>. QED
        BY <4>1, <4>3, Zenon
    <3>. QED
      BY <3>1, <3>2, Zenon
  <2>. QED
    BY <2>1, <2>2, Zenon DEF Queued
<1>6. \A m \in Levels :
        /\ size[m] = Len(order[m])
        /\ order[m] = <<>> => first[m] = Null /\ last[m] = Null
        /\ order[m] # <<>> => first[m] = order[m][1] /\ last[m] = order[m][Len(order[m])]
        /\ \A i \in 1 .. Len(order[m]) - 1 : next[order[m][i]] = order[m][i + 1]
  BY Zenon DEF QueuesIntact, Linked
<1>7. ASSUME NEW m \in Levels
      PROVE  Linked(m)'
  <2>1. CASE m # l
    <3>1. order'[m] = order[m] /\ size'[m] = size[m] /\ first'[m] = first[m] /\ last'[m] = last[m]
      BY <2>1, <1>0, <1>1, Zenon DEF make_runnable, encolar
    <3>2. \A i \in 1 .. Len(order[m]) - 1 : next'[order[m][i]] = next[order[m][i]]
      <4>1. CASE first[l] = Null
        BY <4>1, Zenon DEF make_runnable, encolar
      <4>2. CASE first[l] # Null
        <5>1. q # <<>> /\ last[l] = q[Len(q)] /\ Len(q) \in 1 .. Len(q)
          BY <4>2, <1>1 DEF QueuesIntact, Linked
        <5>2. next' = [next EXCEPT ![last[l]] = p] /\ level[last[l]] = l
          BY <4>2, <5>1 DEF make_runnable, encolar, QueuesIntact, Queued
        <5>3. \A i \in 1 .. Len(order[m]) - 1 : order[m][i] \in Procs /\ level[order[m][i]] = m
          BY <1>0, <1>4
        <5>. QED
          BY <5>2, <5>3, <2>1, <1>0, <1>4
      <4>. QED
        BY <4>1, <4>2, Zenon
    <3>3. ASSUME NEW i \in 1 .. Len(order'[m]) - 1
          PROVE  next'[order'[m][i]] = order'[m][i + 1]
      <4>1. i \in 1 .. Len(order[m]) - 1
        BY <3>1, Zenon
      <4>2. next[order[m][i]] = order[m][i + 1]
        BY <4>1, <1>6, Zenon
      <4>. QED
        BY <3>1, <3>2, <4>1, <4>2, Zenon
    <3>. QED
      BY <3>1, <3>3, <1>6, Zenon DEF Linked
  <2>2. CASE m = l
    <3>1. size'[l] = Len(order'[l]) /\ last'[l] = p /\ order'[l] # <<>>
      <4>1. size' = [size EXCEPT ![l] = @ + 1] /\ last' = [last EXCEPT ![l] = p]
        BY Zenon DEF make_runnable, encolar
      <4>2. size'[l] = size[l] + 1 /\ last'[l] = p
        BY <4>1, <1>0, Zenon
      <4>3. order'[l] # <<>>
        BY <1>1, AppendProperties
      <4>. QED
        BY <4>2, <4>3, <1>2, <1>6, Zenon
    <3>2. CASE first[l] = Null
      <4>1. q = <<>>
        <5>1. ASSUME q # <<>> PROVE FALSE
          <6>1. 1 \in 1 .. Len(q) /\ first[l] = q[1]
            BY <5>1, <1>1, <1>6, EmptySeq
          <6>2. order[l][1] \in Procs
            BY <6>1, <1>4, Zenon
          <6>. QED
            BY <6>1, <6>2, <3>2, ProcAssumption DEF Null, Procs
        <5>. QED
          BY <5>1, Zenon
      <4>2. first'[l] = p
        BY <3>2, <1>0, Zenon DEF make_runnable, encolar
      <4>. QED
        BY <4>1, <4>2, <3>1, <2>2, <1>2 DEF Linked
    <3>3. CASE first[l] # Null
      <4>1. q # <<>> /\ last[l] = q[Len(q)] /\ Len(q) \in 1 .. Len(q) /\ first[l] = q[1]
        BY <3>3, <1>1 DEF QueuesIntact, Linked
      <4>2. next' = [next EXCEPT ![last[l]] = p] /\ first'[l] = q[1]
        BY <3>3, <4>1, <1>0, Zenon DEF make_runnable, encolar
      <4>3. ASSUME NEW i \in 1 .. Len(q)
            PROVE  next'[q[i]] = order'[l][i + 1]
        <5>1. CASE i = Len(q)
          BY <5>1, <4>1, <4>2, <1>0, <1>2, <1>4, Zenon
        <5>2. CASE i # Len(q)
          <6>1. q[i] # q[Len(q)] /\ next[q[i]] = q[i + 1]
            BY <5>2, <4>1, <4>3, <1>1 DEF QueuesIntact, Queued, Linked
          <6>. QED
            BY <6>1, <5>2, <4>1, <4>2, <4>3, <1>0, <1>1, <1>2, <1>4
        <5>. QED
          BY <5>1, <5>2, Zenon
      <4>. QED
        BY <4>1, <4>2, <4>3, <3>1, <2>2, <1>1, <1>2 DEF Linked
    <3>. QED
      BY <3>2, <3>3, Zenon
  <2>. QED
    BY <2>1, <2>2, Zenon
<1>. QED
  BY <1>5, <1>7, Zenon DEF QueuesIntact

\* make_running of the first process of a level keeps the queues intact.  The
\* pid test of desencolar is right because the processes in use have distinct
\* pids.
LEMMA DequeueIntact ==
  ASSUME TypeOK, QueuesIntact, UniquePids, NEW l \in Levels, first[l] # Null,
         make_running(first[l])
  PROVE  QueuesIntact'
<1>. DEFINE q == order[l]
            p == first[l]
<1>0. /\ state \in [Procs -> States] /\ level \in [Procs -> Levels]
      /\ size \in [Levels -> Int]
      /\ first \in [Levels -> Procs \cup {Null}] /\ last \in [Levels -> Procs \cup {Null}]
      /\ order \in [Levels -> Seq(Procs)]
  BY Zenon DEF TypeOK
<1>1. \A m \in Levels :
        /\ size[m] = Len(order[m])
        /\ order[m] = <<>> => first[m] = Null /\ last[m] = Null
        /\ order[m] # <<>> => first[m] = order[m][1] /\ last[m] = order[m][Len(order[m])]
        /\ \A i \in 1 .. Len(order[m]) - 1 : next[order[m][i]] = order[m][i + 1]
  BY Zenon DEF QueuesIntact, Linked
<1>2. /\ q \in Seq(Procs) /\ q # <<>> /\ Len(q) \in Nat \ {0}
      /\ p = q[1] /\ last[l] = q[Len(q)]
      /\ 1 \in 1 .. Len(q) /\ Len(q) \in 1 .. Len(q)
  BY <1>0, <1>1, EmptySeq
<1>3. \A m \in Levels : \A i \in 1 .. Len(order[m]) :
        /\ order[m][i] \in Procs
        /\ state[order[m][i]] = "RUNNABLE" /\ level[order[m][i]] = m
        /\ \A j \in 1 .. Len(order[m]) : order[m][i] = order[m][j] => i = j
  <2>1. ASSUME NEW m \in Levels, NEW i \in 1 .. Len(order[m])
        PROVE  order[m][i] \in Procs
    BY <1>0, ElementOfSeq, Zenon
  <2>. QED
    BY <2>1, Zenon DEF QueuesIntact, Queued
<1>4. p \in Procs /\ level[p] = l /\ last[l] \in Procs /\ state[p] = "RUNNABLE"
  BY <1>2, <1>3
<1>5. /\ order' = [order EXCEPT ![l] = Tail(q)] /\ size' = [size EXCEPT ![l] = @ - 1]
      /\ next' = next /\ level' = level
      /\ state' = [state EXCEPT ![p] = "RUNNING"]
  BY <1>4, Zenon DEF make_running, desencolar
<1>6. /\ order'[l] = Tail(q) /\ Len(order'[l]) = Len(q) - 1
      /\ \A i \in 1 .. Len(q) - 1 : order'[l][i] = q[i + 1]
      /\ \A m \in Levels : m # l => order'[m] = order[m]
  BY <1>0, <1>2, <1>5, HeadTailProperties, Zenon
<1>7. Queued'
  <2>1. ASSUME NEW m \in Levels, NEW i \in 1 .. Len(order'[m])
        PROVE  /\ state'[order'[m][i]] = "RUNNABLE" /\ level'[order'[m][i]] = m
               /\ \A j \in 1 .. Len(order'[m]) : order'[m][i] = order'[m][j] => i = j
    <3>1. CASE m # l
      <4>1. order'[m] = order[m] /\ i \in 1 .. Len(order[m])
        BY <3>1, <1>6, Zenon
      <4>2. /\ order[m][i] # p /\ order[m][i] \in Procs
            /\ state[order[m][i]] = "RUNNABLE" /\ level[order[m][i]] = m
            /\ \A j \in 1 .. Len(order[m]) : order[m][i] = order[m][j] => i = j
        BY <4>1, <3>1, <1>3, <1>4
      <4>. QED
        BY <4>1, <4>2, <1>0, <1>5, Zenon
    <3>2. CASE m = l
      <4>1. i \in 1 .. Len(q) - 1 /\ i + 1 \in 1 .. Len(q) /\ order'[l][i] = q[i + 1]
        BY <3>2, <1>2, <1>6
      <4>2. q[i + 1] # p
        BY <4>1, <1>2, <1>3
      <4>3. \A j \in 1 .. Len(order'[l]) : q[i + 1] = order'[l][j] => i = j
        BY <4>1, <1>2, <1>3, <1>6
      <4>. QED
        BY <4>1, <4>2, <4>3, <3>2, <1>0, <1>3, <1>5
    <3>. QED
      BY <3>1, <3>2, Zenon
  <2>2. ASSUME NEW r \in Procs, state'[r] = "RUNNABLE"
        PROVE  \E i \in 1 .. Len(order'[level'[r]]) : order'[level'[r]][i] = r
    <3>1. r # p /\ state[r] = "RUNNABLE" /\ level'[r] = level[r] /\ level[r] \in Levels
      BY <2>2, <1>0, <1>4, <1>5, Zenon
    <3>2. PICK i \in 1 .. Len(order[level[r]]) : order[level[r]][i] = r
      BY <3>1, Zenon DEF QueuesIntact, Queued
    <3>3. CASE level[r] # l
      BY <3>1, <3>2, <3>3, <1>6, Zenon
    <3>4. CASE level[r] = l
      <4>1. i # 1 /\ i - 1 \in 1 .. Len(q) - 1
        BY <3>1, <3>2, <3>4, <1>2
      <4>2. order'[l][i - 1] = r
        BY <4>1, <3>2, <3>4, <1>2, <1>6
      <4>. QED
        BY <4>1, <4>2, <3>1, <3>4, <1>6, Zenon
    <3>. QED
      BY <3>3, <3>4, Zenon
  <2>. QED
    BY <2>1, <2>2, Zenon DEF Queued
<1>8. ASSUME NEW m \in Levels
      PROVE  Linked(m)'
  <2>1. CASE m # l
    <3>1. order'[m] = order[m] /\ size'[m] = size[m] /\ first'[m] = first[m] /\ last'[m] = last[m]
      BY <2>1, <1>0, <1>4, <1>5, <1>6, Zenon DEF make_running, desencolar
    <3>. QED
      BY <3>1, <1>1, <1>5 DEF Linked
  <2>2. CASE m = l
    <3>1. size'[l] = Len(order'[l])
      BY <1>0, <1>1, <1>5, <1>6, Zenon
    <3>2. \A i \in 1 .. Len(order'[l]) - 1 : next'[order'[l][i]] = order'[l][i + 1]
      BY <1>1, <1>2, <1>5, <1>6
    <3>3. CASE Len(q) = 1
      <4>1. pid[last[l]] = pid[first[l]]
        BY <3>3, <1>2, Zenon
      <4>2. first'[l] = Null /\ last'[l] = Null
        BY <4>1, <1>0, <1>4, Zenon DEF make_running, desencolar
      <4>3. order'[l] = <<>>
        <5>1. Tail(q) \in Seq(Procs) /\ Len(Tail(q)) = 0
          BY <3>3, <1>2, HeadTailProperties
        <5>. QED
          BY <5>1, <1>6, EmptySeq, Zenon
      <4>. QED
        BY <4>2, <4>3, <3>1, <3>2, <2>2, Zenon DEF Linked
    <3>4. CASE Len(q) # 1
      <4>1. last[l] # p
        BY <3>4, <1>2, <1>3, Zenon
      <4>2. pid[last[l]] # pid[first[l]]
        BY <4>1, <1>4, Zenon DEF UniquePids
      <4>3. first'[l] = next[p] /\ last'[l] = last[l]
        BY <4>2, <1>0, <1>4, Zenon DEF make_running, desencolar
      <4>4. 1 \in 1 .. Len(q) - 1 /\ Len(q) - 1 \in 1 .. Len(q) - 1
        <5>1. Len(q) \in Nat /\ Len(q) # 0
          BY <1>2, Zenon
        <5>. HIDE DEF q
        <5>. QED
          BY <5>1, <3>4, EndsAreIndices, Zenon
      <4>5. next[q[1]] = q[1 + 1] /\ order'[l][1] = q[1 + 1]
        <5>1. \A i \in 1 .. Len(q) - 1 : next[q[i]] = q[i + 1] /\ order'[l][i] = q[i + 1]
          BY <1>1, <1>6, Zenon
        <5>. QED
          BY <5>1, <4>4, Zenon
      <4>6. order'[l][Len(q) - 1] = q[(Len(q) - 1) + 1] /\ (Len(q) - 1) + 1 = Len(q)
        BY <4>4, <1>2, <1>6
      <4>7. order'[l] # <<>>
        <5>1. Tail(q) \in Seq(Procs) /\ Len(Tail(q)) # 0
          BY <3>4, <1>2, HeadTailProperties
        <5>. QED
          BY <5>1, <1>6, EmptySeq, Zenon
      <4>. QED
        BY <4>3, <4>5, <4>6, <4>7, <3>1, <3>2, <2>2, <1>2, <1>6, Zenon DEF Linked
    <3>. QED
      BY <3>3, <3>4, Zenon
  <2>. QED
    BY <2>1, <2>2, Zenon
<1>. QED
  BY <1>7, <1>8, Zenon DEF QueuesIntact

\* A step that touches neither the queues nor what is RUNNABLE, nor the level
\* of a RUNNABLE process, keeps the queues intact.
LEMMA FrameIntact ==
  ASSUME TypeOK, QueuesIntact, UNCHANGED queues,
         \A p \in Procs : state'[p] = "RUNNABLE" <=> state[p] = "RUNNABLE",
         \A p \in Procs : state[p] = "RUNNABLE" => level'[p] = level[p]
  PROVE  QueuesIntact'
<1>0. order \in [Levels -> Seq(Procs)]
  BY Zenon DEF TypeOK
<1>1. \A l \in Levels : \A i \in 1 .. Len(order[l]) : order[l][i] \in Procs
  BY <1>0, ElementOfSeq, Zenon
<1>2. Queued'
  BY <1>1 DEF QueuesIntact, Queued, queues
<1>3. \A l \in Levels : Linked(l)'
  BY Zenon DEF QueuesIntact, Linked, queues
<1>. QED
  BY <1>2, <1>3, Zenon DEF QueuesIntact

\* The part of TypeOK that encolar and desencolar can disturb.
QueueTypes ==
  /\ state \in [Procs -> States] /\ level \in [Procs -> Levels]
  /\ next \in [Procs -> Procs \cup {Null}]
  /\ first \in [Levels -> Procs \cup {Null}] /\ last \in [Levels -> Procs \cup {Null}]
  /\ size \in [Levels -> Int] /\ ptsize \in Int
  /\ order \in [Levels -> Seq(Procs)]

\* encolar keeps the types of the queues and of the table.
LEMMA EnqueueType ==
  ASSUME TypeOK, NEW p \in Procs, NEW l \in Levels, make_runnable(p, l)
  PROVE  QueueTypes'
<1>1. order' \in [Levels -> Seq(Procs)]
  <2>1. order \in [Levels -> Seq(Procs)] /\ Append(order[l], p) \in Seq(Procs)
    BY AppendProperties DEF TypeOK
  <2>. QED
    BY <2>1, Zenon DEF make_runnable, encolar
<1>2. QueueTypes
  BY Zenon DEF TypeOK, QueueTypes
<1>3. /\ state' \in [Procs -> States] /\ level' \in [Procs -> Levels]
      /\ last' \in [Levels -> Procs \cup {Null}]
      /\ size' \in [Levels -> Int] /\ ptsize' \in Int
  BY <1>2 DEF QueueTypes, make_runnable, encolar, States
<1>4. next' \in [Procs -> Procs \cup {Null}] /\ first' \in [Levels -> Procs \cup {Null}]
  <2>1. \/ first' = [first EXCEPT ![l] = p] /\ next' = next
        \/ next' = [next EXCEPT ![last[l]] = p] /\ first' = first
    BY Zenon DEF make_runnable, encolar
  <2>2. next \in [Procs -> Procs \cup {Null}] /\ first \in [Levels -> Procs \cup {Null}]
    BY <1>2, Zenon DEF QueueTypes
  <2>. QED
    BY <2>1, <2>2, Zenon
<1>. QED
  BY <1>1, <1>3, <1>4, Zenon DEF QueueTypes

\* desencolar keeps the types of the queues and of the table.
LEMMA DequeueType ==
  ASSUME TypeOK, QueuesIntact, NEW l \in Levels, first[l] # Null, make_running(first[l])
  PROVE  QueueTypes' /\ first[l] \in Procs
<1>1. first[l] \in Procs /\ order[l] \in Seq(Procs) /\ order[l] # <<>>
  BY Zenon DEF TypeOK, QueuesIntact, Linked
<1>2. Tail(order[l]) \in Seq(Procs) /\ 1 \in 1 .. Len(order[l]) /\ first[l] = order[l][1]
  <2>1. Tail(order[l]) \in Seq(Procs) /\ Len(order[l]) \in Nat \ {0}
    BY <1>1, HeadTailProperties, EmptySeq, Zenon
  <2>2. first[l] = order[l][1]
    BY <1>1, Zenon DEF QueuesIntact, Linked
  <2>3. 1 \in 1 .. Len(order[l])
    BY <2>1, EndsAreIndices, Zenon
  <2>. QED
    BY <2>1, <2>2, <2>3, Zenon
<1>3. level[first[l]] = l
  BY <1>2 DEF QueuesIntact, Queued
<1>4. order' \in [Levels -> Seq(Procs)]
  BY <1>2, <1>3, Zenon DEF TypeOK, make_running, desencolar
<1>5. QueueTypes
  BY Zenon DEF TypeOK, QueueTypes
<1>6. /\ state' \in [Procs -> States] /\ level' \in [Procs -> Levels]
      /\ next' \in [Procs -> Procs \cup {Null}]
      /\ size' \in [Levels -> Int] /\ ptsize' \in Int
  BY <1>1, <1>3, <1>5 DEF QueueTypes, make_running, desencolar, States
<1>7. first' \in [Levels -> Procs \cup {Null}] /\ last' \in [Levels -> Procs \cup {Null}]
  BY <1>1, <1>3, <1>5, Zenon DEF QueueTypes, make_running, desencolar
<1>. QED
  BY <1>1, <1>4, <1>6, <1>7, Zenon DEF QueueTypes

-----------------------------------------------------------------------------
(* The table *)

\* Who is on a CPU, and who holds ptable.lock.
CpuInv ==
  /\ \A c \in CPUs :
       /\ mode[c] = "run" =>
            proc[c] \in Procs /\ state[proc[c]] = "RUNNING" /\ sw[proc[c]] = "none"
       /\ mode[c] = "run" /\ ctx[proc[c]] \notin Interruptible => lock = c
       /\ mode[c] = "idle" => proc[c] = Null
       /\ mode[c] = "sched" => lock = c
  /\ \A p \in Procs : state[p] = "RUNNING" => \E c \in CPUs : mode[c] = "run" /\ proc[c] = p
  /\ \A c, d \in CPUs : proc[c] = proc[d] /\ proc[c] # Null => c = d

\* A slot being filled by fork is an EMBRYO of one parent.
ForkInv ==
  /\ \A p \in Procs : ctx[p] \in {"fork", "forked"} =>
       /\ child[p] \in Procs /\ state[child[p]] = "EMBRYO"
       /\ ctx[p] = "forked" => ctx[child[p]] = "user"
  /\ \A p, q \in Procs : ctx[p] \in {"fork", "forked"} /\ ctx[q] \in {"fork", "forked"}
                           /\ child[p] = child[q] => p = q

\* A slot that has no process, or a dead one, is in no system call.
CtxInv ==
  \A p \in Procs :
    /\ state[p] \in {"UNUSED", "EMBRYO"} => ctx[p] \in {"user", "zombie"}
    /\ state[p] = "ZOMBIE" => ctx[p] = "zombie"
    /\ state[p] \in {"RUNNABLE", "SLEEPING"} => ctx[p] \in Interruptible

PidInv ==
  /\ \A p \in Procs : pid[p] < nextpid /\ (state[p] # "UNUSED" => pid[p] > 0)
  /\ UniquePids

\* A CPU inside a wakeup holds the lock, and was interrupted or is idle.
WakeInv ==
  waking # Null =>
    /\ lock # NoCpu
    /\ \A c \in CPUs : lock = c =>
         mode[c] = "idle" \/ (mode[c] = "run" /\ ctx[proc[c]] \in Interruptible)

\* A running process has not used up its quantum.
QuantumInv == \A p \in Procs : state[p] = "RUNNING" => quantum[p] < MAX_QUANTUM

IInv ==
  /\ TypeOK /\ QueuesIntact /\ CpuInv /\ WakeInv /\ ForkInv /\ CtxInv /\ PidInv
  /\ NoPanic /\ QuantumInv


\* The part of TypeOK the control of processes and CPUs needs.
CtlTypes ==
  /\ state \in [Procs -> States] /\ ctx \in [Procs -> Contexts]
  /\ sw \in [Procs -> {"none", "yield", "sleep", "wait", "new"}]
  /\ child \in [Procs -> Procs \cup {Null}]
  /\ mode \in [CPUs -> Modes] /\ proc \in [CPUs -> Procs \cup {Null}]

\* The quanta stay within bounds when no clock tick and no switch happens.
LEMMA QuantumFrame ==
  ASSUME QuantumInv, UNCHANGED quantum,
         \A p \in Procs : state'[p] = "RUNNING" => state[p] = "RUNNING"
  PROVE  QuantumInv'
  BY Zenon DEF QuantumInv

\* Pids stay unique when none is given out and no slot comes into use.
LEMMA PidFrame ==
  ASSUME PidInv, UNCHANGED <<pid, nextpid>>,
         \A p \in Procs : state'[p] # "UNUSED" => state[p] # "UNUSED"
  PROVE  PidInv'
  BY Zenon DEF PidInv, UniquePids

\* A process that calls sched() hands its CPU, with the lock, to scheduler().
LEMMA SchedCpu ==
  ASSUME CtlTypes, CpuInv, NEW c \in CPUs, mode[c] = "run", lock \in {c, NoCpu},
         NEW s \in States, s # "RUNNING", state' = [state EXCEPT ![proc[c]] = s],
         mode' = [mode EXCEPT ![c] = "sched"], proc' = proc, lock' = c,
         \A q \in Procs : q # proc[c] => sw'[q] = sw[q] /\ ctx'[q] = ctx[q]
  PROVE  CpuInv'
<1>. DEFINE p == proc[c]
<1>1. p \in Procs /\ NoCpu \notin CPUs
  BY ProcAssumption, Zenon DEF CpuInv
<1>2. \A d \in CPUs : d # c => proc[d] # p /\ mode'[d] = mode[d] /\ mode[d] # "sched"
  BY <1>1 DEF CpuInv, CtlTypes, Procs, Null
<1>3. ASSUME NEW d \in CPUs, mode'[d] = "run"
      PROVE  /\ d # c /\ proc[d] \in Procs /\ state'[proc[d]] = "RUNNING"
             /\ sw'[proc[d]] = "none" /\ ctx'[proc[d]] \in Interruptible
  BY <1>1, <1>2, <1>3 DEF CpuInv, CtlTypes
<1>4. ASSUME NEW q \in Procs, state'[q] = "RUNNING"
      PROVE  \E d \in CPUs : mode'[d] = "run" /\ proc'[d] = q
  BY <1>1, <1>2, <1>4 DEF CpuInv, CtlTypes
<1>5. \A d \in CPUs : (mode'[d] = "idle" => proc[d] = Null) /\ (mode'[d] = "sched" => d = c)
  BY <1>2 DEF CpuInv, CtlTypes
<1>. QED
  BY <1>1, <1>3, <1>4, <1>5 DEF CpuInv

\* What waking at most one sleeping process does to the table.
Woken ==
  /\ QueueTypes' /\ QueuesIntact'
  /\ \A r \in Procs : \/ state'[r] = state[r]
                      \/ state[r] = "SLEEPING" /\ state'[r] = "RUNNABLE"

\* make_runnable of a sleeping process wakes it and keeps the queues.
LEMMA WakeOne ==
  ASSUME IInv, NEW q \in Procs, NEW l \in Levels, state[q] = "SLEEPING", make_runnable(q, l)
  PROVE  Woken
<1>1. QueueTypes' /\ QueuesIntact'
  BY EnqueueType, EnqueueIntact, Zenon DEF IInv
<1>2. state' = [state EXCEPT ![q] = "RUNNABLE"] /\ state \in [Procs -> States]
  BY Zenon DEF IInv, TypeOK, make_runnable
<1>. QED
  BY <1>1, <1>2, Zenon DEF Woken

\* Nobody is woken when the queues, levels and states stay as they are.
LEMMA WakeNone ==
  ASSUME IInv, UNCHANGED <<queues, level, state>>
  PROVE  Woken
<1>1. QueueTypes'
  BY Zenon DEF IInv, TypeOK, QueueTypes, queues
<1>2. QueuesIntact'
  BY FrameIntact, Zenon DEF IInv
<1>. QED
  BY <1>1, <1>2, Zenon DEF Woken

\* up and down stay within the levels.
LEMMA UpDownLevels ==
  ASSUME TypeOK, NEW p \in Procs
  PROVE  up(p) \in Levels /\ down(p) \in Levels
<1>1. level[p] \in Levels
  BY Zenon DEF TypeOK
<1>. QED
  BY <1>1, ProcAssumption DEF Levels, up, down

\* wakeup1 of the parent wakes it if it sleeps in wait() and nobody otherwise.
LEMMA WakeParentWakes ==
  ASSUME IInv, NEW q, WakeParent(q)
  PROVE  Woken
  BY WakeOne, WakeNone, UpDownLevels, Zenon DEF IInv, WakeParent

\* scheduler() finding no process gives the lock back and keeps the invariant.
LEMMA ScheduleRestKeeps ==
  ASSUME IInv, NEW c \in CPUs, ScheduleRest(c)
  PROVE  IInv'
<1>1. /\ mode[c] = "sched" /\ lock = c /\ waking = Null /\ lock' = NoCpu
      /\ proc' = [proc EXCEPT ![c] = Null] /\ mode' = [mode EXCEPT ![c] = "idle"]
      /\ indice' = [indice EXCEPT ![c] = 0] /\ 0 \in Levels
      /\ UNCHANGED <<state, ctx, sw, child, queues, level, pid, nextpid, panic, waking, quantum>>
  BY ProcAssumption DEF IInv, ScheduleRest, CpuInv, WakeInv, Levels, flow
<1>2. CtlTypes
  BY Zenon DEF IInv, TypeOK, CtlTypes
<1>3. TypeOK'
  BY <1>1 DEF IInv, TypeOK, ScheduleRest, queues, flow, Modes
<1>4. QueuesIntact'
  BY <1>1, <1>2, FrameIntact, Zenon DEF IInv, CtlTypes
<1>5. CpuInv'
  BY <1>1, <1>2, ProcAssumption DEF IInv, CpuInv, CtlTypes, Interruptible, Null, Procs
<1>6. ForkInv'
  BY <1>1, <1>2, Zenon DEF IInv, ForkInv, CtlTypes
<1>7. CtxInv'
  BY <1>1, <1>2, Zenon DEF IInv, CtxInv, CtlTypes, Interruptible, Null, Procs
<1>8. PidInv' /\ NoPanic' /\ QuantumInv'
  BY Zenon, <1>1, <1>2, PidFrame, QuantumFrame DEF IInv, CtlTypes, NoPanic
<1>9. WakeInv'
  BY <1>1, <1>2, ProcAssumption, Zenon DEF IInv, WakeInv, CpuInv, CtlTypes, Interruptible, Null, Procs
<1>. QED
  BY <1>3, <1>4, <1>5, <1>6, <1>7, <1>8, <1>9, Zenon DEF IInv

\* System call entry keeps the invariant.
LEMMA SyscallKeeps ==
  ASSUME IInv, NEW c \in CPUs, Syscall(c)
  PROVE  IInv'
<1>. DEFINE p == proc[c]
<1>1. /\ p \in Procs /\ state[p] = "RUNNING" /\ mode[c] = "run" /\ ctx[p] = "user"
      /\ ctx' = [ctx EXCEPT ![p] = Toward(p, "kern")]
      /\ UNCHANGED <<state, mode, proc, lock, sw, child, queues, level, pid, nextpid, panic, waking, quantum>>
  BY Zenon DEF IInv, Syscall, RunsIn, CpuInv, cpus
<1>2. CtlTypes
  BY Zenon DEF IInv, TypeOK, CtlTypes
<1>3. TypeOK'
  BY <1>1, Zenon DEF IInv, TypeOK, Syscall, queues, Toward, Contexts, cpus
<1>4. QueuesIntact'
  BY <1>1, <1>2, FrameIntact, Zenon DEF IInv, CtlTypes
<1>5. CpuInv'
  BY <1>1, <1>2 DEF IInv, CpuInv, CtlTypes, Interruptible, Toward
<1>6. ForkInv'
  BY <1>1, <1>2, Zenon DEF IInv, ForkInv, CtlTypes, Toward
<1>7. CtxInv'
  BY <1>1, <1>2, Zenon DEF IInv, CtxInv, CtlTypes, Interruptible, Toward
<1>8. PidInv' /\ NoPanic' /\ QuantumInv'
  BY Zenon, <1>1, <1>2, PidFrame, QuantumFrame DEF IInv, CtlTypes, NoPanic
<1>9. WakeInv'
  BY <1>1, <1>2, ProcAssumption, Zenon DEF IInv, WakeInv, CpuInv, CtlTypes, Interruptible, Toward
<1>. QED
  BY <1>3, <1>4, <1>5, <1>6, <1>7, <1>8, <1>9, Zenon DEF IInv

\* A fault that kills the process keeps the invariant.
LEMMA FaultKeeps ==
  ASSUME IInv, NEW c \in CPUs, Fault(c)
  PROVE  IInv'
<1>. DEFINE p == proc[c]
<1>1. /\ p \in Procs /\ state[p] = "RUNNING" /\ mode[c] = "run" /\ ctx[p] = "user"
      /\ ctx' = [ctx EXCEPT ![p] = "exiting"]
      /\ killed' = [killed EXCEPT ![p] = TRUE]
      /\ UNCHANGED <<state, mode, proc, lock, sw, child, queues, level, pid, nextpid, panic, waking, quantum>>
  BY Zenon DEF IInv, Fault, RunsIn, CpuInv, cpus
<1>2. CtlTypes
  BY Zenon DEF IInv, TypeOK, CtlTypes
<1>3. TypeOK'
  BY <1>1 DEF IInv, TypeOK, Fault, queues, Contexts, cpus
<1>4. QueuesIntact'
  BY <1>1, <1>2, FrameIntact, Zenon DEF IInv, CtlTypes
<1>5. CpuInv'
  BY <1>1, <1>2 DEF IInv, CpuInv, CtlTypes, Interruptible
<1>6. ForkInv'
  BY <1>1, <1>2 DEF IInv, ForkInv, CtlTypes
<1>7. CtxInv'
  BY <1>1, <1>2, Zenon DEF IInv, CtxInv, CtlTypes, Interruptible
<1>8. PidInv' /\ NoPanic' /\ QuantumInv'
  BY Zenon, <1>1, <1>2, PidFrame, QuantumFrame DEF IInv, CtlTypes, NoPanic
<1>9. WakeInv'
  BY <1>1, <1>2, ProcAssumption, Zenon DEF IInv, WakeInv, CpuInv, CtlTypes, Interruptible
<1>. QED
  BY <1>3, <1>4, <1>5, <1>6, <1>7, <1>8, <1>9, Zenon DEF IInv

\* The return of a system call, to user space or to exit(), keeps the invariant.
LEMMA SyscallReturnKeeps ==
  ASSUME IInv, NEW c \in CPUs, SyscallReturn(c)
  PROVE  IInv'
<1>. DEFINE p == proc[c]
<1>1. /\ p \in Procs /\ state[p] = "RUNNING" /\ mode[c] = "run" /\ ctx[p] = "kern"
      /\ ctx' = [ctx EXCEPT ![p] = Toward(p, "user")]
      /\ UNCHANGED <<state, mode, proc, lock, sw, child, queues, level, pid, nextpid, panic, waking, quantum>>
  BY Zenon DEF IInv, SyscallReturn, RunsIn, CpuInv, cpus
<1>2. CtlTypes
  BY Zenon DEF IInv, TypeOK, CtlTypes
<1>3. TypeOK'
  BY <1>1, Zenon DEF IInv, TypeOK, SyscallReturn, queues, Toward, Contexts, cpus
<1>4. QueuesIntact'
  BY <1>1, <1>2, FrameIntact, Zenon DEF IInv, CtlTypes
<1>5. CpuInv'
  BY <1>1, <1>2 DEF IInv, CpuInv, CtlTypes, Interruptible, Toward
<1>6. ForkInv'
  BY <1>1, <1>2, Zenon DEF IInv, ForkInv, CtlTypes, Toward
<1>7. CtxInv'
  BY <1>1, <1>2, Zenon DEF IInv, CtxInv, CtlTypes, Interruptible, Toward
<1>8. PidInv' /\ NoPanic' /\ QuantumInv'
  BY Zenon, <1>1, <1>2, PidFrame, QuantumFrame DEF IInv, CtlTypes, NoPanic
<1>9. WakeInv'
  BY <1>1, <1>2, ProcAssumption, Zenon DEF IInv, WakeInv, CpuInv, CtlTypes, Interruptible, Toward
<1>. QED
  BY <1>3, <1>4, <1>5, <1>6, <1>7, <1>8, <1>9, Zenon DEF IInv

\* Entering exit() keeps the invariant.
LEMMA ExitCallKeeps ==
  ASSUME IInv, NEW c \in CPUs, ExitCall(c)
  PROVE  IInv'
<1>. DEFINE p == proc[c]
<1>1. /\ p \in Procs /\ state[p] = "RUNNING" /\ mode[c] = "run" /\ ctx[p] = "kern"
      /\ ctx' = [ctx EXCEPT ![p] = "exiting"]
      /\ UNCHANGED <<state, mode, proc, lock, sw, child, queues, level, pid, nextpid, panic, waking, quantum>>
  BY Zenon DEF IInv, ExitCall, RunsIn, CpuInv, cpus
<1>2. CtlTypes
  BY Zenon DEF IInv, TypeOK, CtlTypes
<1>3. TypeOK'
  BY <1>1, Zenon DEF IInv, TypeOK, ExitCall, queues, Contexts, cpus
<1>4. QueuesIntact'
  BY <1>1, <1>2, FrameIntact, Zenon DEF IInv, CtlTypes
<1>5. CpuInv'
  BY <1>1, <1>2 DEF IInv, CpuInv, CtlTypes, Interruptible
<1>6. ForkInv'
  BY <1>1, <1>2, Zenon DEF IInv, ForkInv, CtlTypes
<1>7. CtxInv'
  BY <1>1, <1>2, Zenon DEF IInv, CtxInv, CtlTypes, Interruptible
<1>8. PidInv' /\ NoPanic' /\ QuantumInv'
  BY Zenon, <1>1, <1>2, PidFrame, QuantumFrame DEF IInv, CtlTypes, NoPanic
<1>9. WakeInv'
  BY <1>1, <1>2, ProcAssumption, Zenon DEF IInv, WakeInv, CpuInv, CtlTypes, Interruptible
<1>. QED
  BY <1>3, <1>4, <1>5, <1>6, <1>7, <1>8, <1>9, Zenon DEF IInv

\* fork's error paths, which free the slot without the lock, keep the invariant:
\* nobody else uses an EMBRYO.
LEMMA ForkFailKeeps ==
  ASSUME IInv, NEW c \in CPUs, ForkFail(c)
  PROVE  IInv'
<1>. DEFINE p == proc[c]
            np == child[p]
<1>1. /\ p \in Procs /\ ctx[p] = "fork" /\ state[p] = "RUNNING"
      /\ np \in Procs /\ state[np] = "EMBRYO" /\ np # p
      /\ state' = [state EXCEPT ![np] = "UNUSED"] /\ ctx' = [ctx EXCEPT ![p] = "kern"]
      /\ child' = [child EXCEPT ![p] = Null]
      /\ UNCHANGED <<mode, proc, lock, sw, queues, level, pid, nextpid, panic, waking, quantum>>
  BY Zenon DEF IInv, ForkFail, RunsIn, CpuInv, ForkInv, cpus
<1>2. CtlTypes
  BY Zenon DEF IInv, TypeOK, CtlTypes
<1>3. TypeOK'
  BY <1>1, Zenon DEF IInv, TypeOK, ForkFail, queues, States, Contexts, cpus
<1>4. QueuesIntact'
  BY <1>1, <1>2, FrameIntact, Zenon DEF IInv, CtlTypes
<1>5. CpuInv'
  BY <1>1, <1>2 DEF IInv, CpuInv, CtlTypes, Interruptible
<1>6. ForkInv'
  BY <1>1, <1>2 DEF IInv, ForkInv, CtlTypes
<1>7. CtxInv'
  BY <1>1, <1>2, Zenon DEF IInv, CtxInv, CtlTypes, Interruptible
<1>8. PidInv' /\ NoPanic' /\ QuantumInv'
  BY Zenon, <1>1, <1>2, PidFrame, QuantumFrame DEF IInv, CtlTypes, NoPanic
<1>9. WakeInv'
  BY <1>1, <1>2, ProcAssumption, Zenon DEF IInv, WakeInv, CpuInv, CtlTypes, Interruptible
<1>. QED
  BY <1>3, <1>4, <1>5, <1>6, <1>7, <1>8, <1>9, Zenon DEF IInv

\* fork's writes to the child without the lock keep the invariant: nobody else
\* uses an EMBRYO.
LEMMA ForkCopyKeeps ==
  ASSUME IInv, NEW c \in CPUs, ForkCopy(c)
  PROVE  IInv'
<1>. DEFINE p == proc[c]
            np == child[p]
<1>1. /\ p \in Procs /\ ctx[p] = "fork" /\ state[p] = "RUNNING"
      /\ np \in Procs /\ state[np] = "EMBRYO" /\ np # p
      /\ ctx' = [ctx EXCEPT ![p] = "forked", ![np] = "user"]
      /\ sw' = [sw EXCEPT ![np] = "new"] /\ parent' = [parent EXCEPT ![np] = p]
      /\ UNCHANGED <<state, mode, proc, lock, child, queues, level, pid, nextpid, panic, waking, quantum>>
  BY Zenon DEF IInv, ForkCopy, RunsIn, CpuInv, ForkInv, cpus
<1>2. CtlTypes
  BY Zenon DEF IInv, TypeOK, CtlTypes
<1>3. TypeOK'
  BY Zenon, <1>1 DEF IInv, TypeOK, ForkCopy, queues, States, Contexts, cpus
<1>4. QueuesIntact'
  BY <1>1, <1>2, FrameIntact, Zenon DEF IInv, CtlTypes
<1>5. CpuInv'
  BY <1>1, <1>2 DEF IInv, CpuInv, CtlTypes, Interruptible
<1>6. ForkInv'
  BY <1>1, <1>2 DEF IInv, ForkInv, CtlTypes
<1>7. CtxInv'
  BY <1>1, <1>2, Zenon DEF IInv, CtxInv, CtlTypes, Interruptible
<1>8. PidInv' /\ NoPanic' /\ QuantumInv'
  BY Zenon, <1>1, <1>2, PidFrame, QuantumFrame DEF IInv, CtlTypes, NoPanic
<1>9. WakeInv'
  BY <1>1, <1>2, ProcAssumption, Zenon DEF IInv, WakeInv, CpuInv, CtlTypes, Interruptible
<1>. QED
  BY <1>3, <1>4, <1>5, <1>6, <1>7, <1>8, <1>9, Zenon DEF IInv

\* The last step of exit(), into sched() with the lock, keeps the invariant.
LEMMA ExitSchedKeeps ==
  ASSUME IInv, NEW c \in CPUs, ExitSched(c)
  PROVE  IInv'
<1>. DEFINE p == proc[c]
<1>1. /\ p \in Procs /\ state[p] = "RUNNING" /\ mode[c] = "run" /\ ctx[p] = "zombie" /\ lock = c /\ waking = Null
      /\ state' = [state EXCEPT ![p] = "ZOMBIE"]
      /\ mode' = [mode EXCEPT ![c] = "sched"]
      /\ UNCHANGED <<ctx, proc, lock, sw, child, queues, level, pid, nextpid, panic, waking, quantum>>
  BY Zenon DEF IInv, ExitSched, RunsIn, CpuInv, Interruptible, flow
<1>2. CtlTypes
  BY Zenon DEF IInv, TypeOK, CtlTypes
<1>3. TypeOK'
  BY <1>1 DEF IInv, TypeOK, ExitSched, queues, States, Modes, flow
<1>4. QueuesIntact'
  BY <1>1, <1>2, FrameIntact, Zenon DEF IInv, CtlTypes
<1>5. CpuInv'
  <2>1. /\ "ZOMBIE" \in States /\ lock' = c /\ CpuInv
        /\ \A q \in Procs : q # p => sw'[q] = sw[q] /\ ctx'[q] = ctx[q]
    BY <1>1, <1>2, Zenon DEF IInv, CtlTypes, States
  <2>. QED
    BY Zenon, <1>1, <1>2, <2>1, SchedCpu
<1>6. ForkInv'
  BY <1>1, <1>2, Zenon DEF IInv, ForkInv, CtlTypes
<1>7. CtxInv'
  BY <1>1, <1>2, Zenon DEF IInv, CtxInv, CtlTypes, Interruptible
<1>8. PidInv' /\ NoPanic' /\ QuantumInv'
  BY Zenon, <1>1, <1>2, PidFrame, QuantumFrame DEF IInv, CtlTypes, NoPanic
<1>9. WakeInv'
  BY <1>1, <1>2, ProcAssumption, Zenon DEF IInv, WakeInv, CpuInv, CtlTypes, Interruptible
<1>. QED
  BY <1>3, <1>4, <1>5, <1>6, <1>7, <1>8, <1>9, Zenon DEF IInv

\* wait() returning -1 keeps the invariant.
LEMMA WaitNoneKeeps ==
  ASSUME IInv, NEW c \in CPUs, WaitNone(c)
  PROVE  IInv'
<1>. DEFINE p == proc[c]
<1>1. /\ p \in Procs /\ state[p] = "RUNNING" /\ mode[c] = "run" /\ ctx[p] \in {"kern", "wait"}
      /\ lock \in {c, NoCpu} /\ lock' = NoCpu /\ waking = Null
      /\ ctx' = [ctx EXCEPT ![p] = "kern"]
      /\ UNCHANGED <<state, mode, proc, sw, child, queues, level, pid, nextpid, panic, waking, quantum>>
  BY Zenon DEF IInv, WaitNone, Scans, WakeInv, RunsIn, CpuInv, cpus
<1>2. CtlTypes
  BY Zenon DEF IInv, TypeOK, CtlTypes
<1>3. TypeOK'
  BY <1>1 DEF IInv, TypeOK, WaitNone, queues, Contexts, cpus
<1>4. QueuesIntact'
  BY <1>1, <1>2, FrameIntact, Zenon DEF IInv, CtlTypes
<1>5. CpuInv'
  BY <1>1, <1>2, ProcAssumption DEF IInv, CpuInv, CtlTypes, Interruptible
<1>6. ForkInv'
  BY <1>1, <1>2, Zenon DEF IInv, ForkInv, CtlTypes
<1>7. CtxInv'
  BY <1>1, <1>2, Zenon DEF IInv, CtxInv, CtlTypes, Interruptible
<1>8. PidInv' /\ NoPanic' /\ QuantumInv'
  BY Zenon, <1>1, <1>2, PidFrame, QuantumFrame DEF IInv, CtlTypes, NoPanic
<1>9. WakeInv'
  BY <1>1, <1>2, ProcAssumption, Zenon DEF IInv, WakeInv, CpuInv, CtlTypes, Interruptible
<1>. QED
  BY <1>3, <1>4, <1>5, <1>6, <1>7, <1>8, <1>9, Zenon DEF IInv

\* wait() going to sleep with the lock keeps the invariant.
LEMMA WaitSleepKeeps ==
  ASSUME IInv, NEW c \in CPUs, WaitSleep(c)
  PROVE  IInv'
<1>. DEFINE p == proc[c]
<1>1. /\ p \in Procs /\ state[p] = "RUNNING" /\ mode[c] = "run" /\ lock \in {c, NoCpu}
      /\ waking = Null /\ ctx[p] \in {"kern", "wait"}
      /\ state' = [state EXCEPT ![p] = "SLEEPING"] /\ ctx' = [ctx EXCEPT ![p] = "kern"]
      /\ sw' = [sw EXCEPT ![p] = "wait"] /\ chan' = [chan EXCEPT ![p] = p]
      /\ mode' = [mode EXCEPT ![c] = "sched"] /\ lock' = c
      /\ UNCHANGED <<proc, indice, child, queues, level, pid, nextpid, panic, waking, quantum>>
  BY Zenon DEF IInv, WakeInv, WaitSleep, RunsIn, CpuInv, Scans, sched
<1>2. CtlTypes
  BY Zenon DEF IInv, TypeOK, CtlTypes
<1>3. TypeOK'
  BY <1>1 DEF IInv, TypeOK, WaitSleep, queues, States, Contexts, Modes
<1>4. QueuesIntact'
  BY <1>1, <1>2, FrameIntact, Zenon DEF IInv, CtlTypes
<1>5. CpuInv'
  <2>1. /\ "SLEEPING" \in States /\ lock' = c /\ CpuInv
        /\ \A q \in Procs : q # p => sw'[q] = sw[q] /\ ctx'[q] = ctx[q]
    BY <1>1, <1>2, Zenon DEF IInv, CtlTypes, States
  <2>. QED
    BY Zenon, <1>1, <1>2, <2>1, SchedCpu
<1>6. ForkInv'
  BY <1>1, <1>2, Zenon DEF IInv, ForkInv, CtlTypes
<1>7. CtxInv'
  BY <1>1, <1>2, Zenon DEF IInv, CtxInv, CtlTypes, Interruptible
<1>8. PidInv' /\ NoPanic' /\ QuantumInv'
  BY Zenon, <1>1, <1>2, PidFrame, QuantumFrame DEF IInv, CtlTypes, NoPanic
<1>9. WakeInv'
  BY <1>1, <1>2, ProcAssumption, Zenon DEF IInv, WakeInv, CpuInv, CtlTypes, Interruptible
<1>. QED
  BY <1>3, <1>4, <1>5, <1>6, <1>7, <1>8, <1>9, Zenon DEF IInv

\* sleep() on a channel keeps the invariant.
LEMMA sleepKeeps ==
  ASSUME IInv, NEW c \in CPUs, NEW ch \in Chans, sleep(c, ch)
  PROVE  IInv'
<1>. DEFINE p == proc[c]
<1>1. /\ p \in Procs /\ state[p] = "RUNNING" /\ mode[c] = "run" /\ lock = NoCpu
      /\ waking = Null /\ ctx[p] \in {"kern", "exiting"}
      /\ state' = [state EXCEPT ![p] = "SLEEPING"] /\ chan' = [chan EXCEPT ![p] = ch]
      /\ sw' = [sw EXCEPT ![p] = "sleep"]
      /\ mode' = [mode EXCEPT ![c] = "sched"] /\ lock' = c
      /\ UNCHANGED <<proc, indice, ctx, child, queues, level, pid, nextpid, panic, waking, quantum>>
  BY Zenon DEF IInv, WakeInv, sleep, RunsIn, CpuInv, acquire, sched
<1>2. CtlTypes
  BY Zenon DEF IInv, TypeOK, CtlTypes
<1>3. TypeOK'
  BY <1>1 DEF IInv, TypeOK, sleep, queues, States, Contexts, Modes
<1>4. QueuesIntact'
  BY <1>1, <1>2, FrameIntact, Zenon DEF IInv, CtlTypes
<1>5. CpuInv'
  <2>1. /\ "SLEEPING" \in States /\ lock' = c /\ CpuInv
        /\ \A q \in Procs : q # p => sw'[q] = sw[q] /\ ctx'[q] = ctx[q]
    BY <1>1, <1>2, Zenon DEF IInv, CtlTypes, States
  <2>. QED
    BY Zenon, <1>1, <1>2, <2>1, SchedCpu
<1>6. ForkInv'
  BY <1>1, <1>2, Zenon DEF IInv, ForkInv, CtlTypes
<1>7. CtxInv'
  BY <1>1, <1>2, Zenon DEF IInv, CtxInv, CtlTypes, Interruptible
<1>8. PidInv' /\ NoPanic' /\ QuantumInv'
  BY Zenon, <1>1, <1>2, PidFrame, QuantumFrame DEF IInv, CtlTypes, NoPanic
<1>9. WakeInv'
  BY <1>1, <1>2, ProcAssumption, Zenon DEF IInv, WakeInv, CpuInv, CtlTypes, Interruptible
<1>. QED
  BY <1>3, <1>4, <1>5, <1>6, <1>7, <1>8, <1>9, Zenon DEF IInv

\* set_priority keeps the invariant: the caller runs, so it is in no queue.
LEMMA set_priorityKeeps ==
  ASSUME IInv, NEW c \in CPUs, NEW x \in PriorityArgs, set_priority(c, x)
  PROVE  IInv'
<1>. DEFINE p == proc[c]
<1>1. /\ p \in Procs /\ state[p] = "RUNNING"
      /\ level' = [level EXCEPT ![p] = x] /\ x \in Levels
      /\ UNCHANGED <<state, mode, proc, lock, ctx, sw, child, queues, pid, nextpid, panic, waking, quantum>>
  BY ProcAssumption, Zenon DEF IInv, set_priority, RunsIn, CpuInv, cpus, flow
<1>2. CtlTypes
  BY Zenon DEF IInv, TypeOK, CtlTypes
<1>3. TypeOK'
  BY <1>1 DEF IInv, TypeOK, set_priority, queues, cpus, flow
<1>4. QueuesIntact'
  BY <1>1, <1>2, FrameIntact DEF IInv, CtlTypes
<1>5. CpuInv'
  BY <1>1, <1>2, Zenon DEF IInv, CpuInv, CtlTypes, Interruptible
<1>6. ForkInv'
  BY <1>1, <1>2, Zenon DEF IInv, ForkInv, CtlTypes
<1>7. CtxInv'
  BY <1>1, <1>2, Zenon DEF IInv, CtxInv, CtlTypes, Interruptible
<1>8. PidInv' /\ NoPanic' /\ QuantumInv'
  BY Zenon, <1>1, <1>2, PidFrame, QuantumFrame DEF IInv, CtlTypes, NoPanic
<1>9. WakeInv'
  BY <1>1, <1>2, ProcAssumption, Zenon DEF IInv, WakeInv, CpuInv, CtlTypes, Interruptible
<1>. QED
  BY <1>3, <1>4, <1>5, <1>6, <1>7, <1>8, <1>9, Zenon DEF IInv

\* The slot, the child, the process and the sleeper that the scans of allocproc,
\* wait(), kill and wakeup1 stop at.
LEMMA allocprocTakes ==
  ASSUME NEW c, allocproc(c)
  PROVE  \E np \in Procs :
           /\ state[np] = "UNUSED" /\ state' = [state EXCEPT ![np] = "EMBRYO"]
           /\ pid' = [pid EXCEPT ![np] = nextpid] /\ child' = [child EXCEPT ![proc[c]] = np]
<1>1. PICK np \in FirstOf({q \in Procs : state[q] = "UNUSED"}) :
        /\ state' = [state EXCEPT ![np] = "EMBRYO"]
        /\ pid' = [pid EXCEPT ![np] = nextpid] /\ child' = [child EXCEPT ![proc[c]] = np]
  BY Zenon DEF allocproc
<1>2. np \in Procs /\ state[np] = "UNUSED"
  BY Zenon DEF FirstOf
<1>. QED
  BY <1>1, <1>2, Zenon

\* wait() stops at a zombie child.
LEMMA WaitReapTakes ==
  ASSUME NEW c, WaitReap(c)
  PROVE  \E z \in Procs :
           /\ parent[z] = proc[c] /\ state[z] = "ZOMBIE" /\ state' = [state EXCEPT ![z] = "UNUSED"]
           /\ pid' = [pid EXCEPT ![z] = 0] /\ parent' = [parent EXCEPT ![z] = Null]
           /\ killed' = [killed EXCEPT ![z] = FALSE]
<1>1. PICK z \in FirstOf(ZombieChildren(proc[c])) :
        /\ state' = [state EXCEPT ![z] = "UNUSED"]
        /\ pid' = [pid EXCEPT ![z] = 0] /\ parent' = [parent EXCEPT ![z] = Null]
        /\ killed' = [killed EXCEPT ![z] = FALSE]
  BY Zenon DEF WaitReap
<1>2. z \in Procs /\ parent[z] = proc[c] /\ state[z] = "ZOMBIE"
  BY Zenon DEF FirstOf, ZombieChildren, Children
<1>. QED
  BY <1>1, <1>2, Zenon

\* kill stops at a slot with the pid, and wakes its process if it sleeps.
LEMMA killTakes ==
  ASSUME NEW c, NEW n, kill(c, n)
  PROVE  \E q \in Procs :
           /\ killed' = [killed EXCEPT ![q] = TRUE]
           /\ \/ state[q] = "SLEEPING" /\ make_runnable(q, level[q])
              \/ state[q] # "SLEEPING" /\ UNCHANGED <<queues, level, state>>
<1>1. PICK q \in FirstOf({r \in Procs : pid[r] = n}) :
        /\ killed' = [killed EXCEPT ![q] = TRUE]
        /\ \/ state[q] = "SLEEPING" /\ make_runnable(q, level[q])
           \/ state[q] # "SLEEPING" /\ UNCHANGED <<queues, level, state>>
  BY Zenon DEF kill
<1>2. q \in Procs
  BY Zenon DEF FirstOf
<1>. QED
  BY <1>1, <1>2, Zenon

\* A step of wakeup1 makes one sleeper runnable.
LEMMA wakeupTakes ==
  ASSUME NEW c, NEW ch, wakeup(c, ch)
  PROVE  /\ \E q \in Sleepers(ch) : make_runnable(q, up(q))
         /\ (lock' = c /\ waking' = ch) \/ (lock' = NoCpu /\ waking' = Null)
<1>1. PICK q \in FirstOf(Sleepers(ch)) :
        /\ make_runnable(q, up(q))
        /\ lock' = IF Sleepers(ch) \ {q} # {} THEN c ELSE NoCpu
        /\ waking' = IF Sleepers(ch) \ {q} # {} THEN ch ELSE Null
  BY Zenon DEF wakeup
<1>2. q \in Sleepers(ch)
  BY Zenon DEF FirstOf
<1>. QED
  BY <1>1, <1>2, Zenon

\* allocproc giving out a slot and a pid keeps the invariant.
LEMMA allocprocKeeps ==
  ASSUME IInv, NEW c \in CPUs, allocproc(c)
  PROVE  IInv'
<1>. DEFINE p == proc[c]
<1>0. PICK np \in Procs :
        /\ state[np] = "UNUSED" /\ state' = [state EXCEPT ![np] = "EMBRYO"]
        /\ pid' = [pid EXCEPT ![np] = nextpid] /\ child' = [child EXCEPT ![p] = np]
  BY allocprocTakes, Zenon
<1>1. /\ p \in Procs /\ state[p] = "RUNNING" /\ ctx[p] = "kern"
      /\ np \in Procs /\ state[np] = "UNUSED" /\ np # p
      /\ state' = [state EXCEPT ![np] = "EMBRYO"] /\ ctx' = [ctx EXCEPT ![p] = "fork"]
      /\ child' = [child EXCEPT ![p] = np]
      /\ pid' = [pid EXCEPT ![np] = nextpid] /\ nextpid' = nextpid + 1
      /\ UNCHANGED <<mode, proc, lock, sw, queues, level, panic, waking, quantum>>
  <2>1. mode[c] = "run" /\ ctx[p] = "kern" /\ CpuInv
    BY Zenon DEF IInv, allocproc, RunsIn
  <2>2. /\ ctx' = [ctx EXCEPT ![p] = "fork"] /\ nextpid' = nextpid + 1
        /\ UNCHANGED <<mode, proc, lock, sw, queues, level, panic, waking, quantum>>
    BY Zenon DEF allocproc, cpus
  <2>3. p \in Procs /\ state[p] = "RUNNING"
    BY <2>1, Zenon DEF CpuInv
  <2>. QED
    BY <1>0, <2>1, <2>2, <2>3, Zenon
<1>2. CtlTypes
  BY Zenon DEF IInv, TypeOK, CtlTypes
<1>3. TypeOK'
  BY <1>1 DEF IInv, TypeOK, allocproc, queues, States, Contexts, cpus
<1>4. QueuesIntact'
  BY <1>1, <1>2, FrameIntact, Zenon DEF IInv, CtlTypes
<1>5. CpuInv'
  BY <1>1, <1>2 DEF IInv, CpuInv, CtlTypes, Interruptible
<1>6. ForkInv'
  BY <1>1, <1>2 DEF IInv, ForkInv, CtlTypes
<1>7. CtxInv'
  BY <1>1, <1>2, Zenon DEF IInv, CtxInv, CtlTypes, Interruptible
<1>8. PidInv' /\ NoPanic' /\ QuantumInv'
  <2>1. pid \in [Procs -> Nat] /\ nextpid \in Nat
    BY Zenon DEF IInv, TypeOK
  <2>2. \A q \in Procs : pid[q] < nextpid /\ (state[q] # "UNUSED" => pid[q] > 0)
    BY Zenon DEF IInv, PidInv
  <2>3. \A q \in Procs : pid'[q] < nextpid' /\ (state'[q] # "UNUSED" => pid'[q] > 0)
    BY <1>1, <1>2, <2>1, <2>2 DEF CtlTypes
  <2>4. UniquePids'
    BY <1>1, <1>2, <2>1, <2>2 DEF IInv, CtlTypes, PidInv, UniquePids
  <2>. QED
    BY Zenon, <1>1, <1>2, <2>3, <2>4, QuantumFrame DEF IInv, NoPanic, PidInv, CtlTypes
<1>9. WakeInv'
  BY <1>1, <1>2, ProcAssumption, Zenon DEF IInv, WakeInv, CpuInv, CtlTypes, Interruptible
<1>. QED
  BY <1>3, <1>4, <1>5, <1>6, <1>7, <1>8, <1>9, Zenon DEF IInv

\* wait() freeing a zombie keeps the invariant.
LEMMA WaitReapKeeps ==
  ASSUME IInv, NEW c \in CPUs, WaitReap(c)
  PROVE  IInv'
<1>. DEFINE p == proc[c]
<1>0. PICK z \in Procs :
        /\ state[z] = "ZOMBIE" /\ state' = [state EXCEPT ![z] = "UNUSED"]
        /\ pid' = [pid EXCEPT ![z] = 0] /\ parent' = [parent EXCEPT ![z] = Null]
        /\ killed' = [killed EXCEPT ![z] = FALSE]
  BY ZenonT(40), WaitReapTakes
<1>1. /\ p \in Procs /\ state[p] = "RUNNING" /\ mode[c] = "run" /\ ctx[p] \in {"kern", "wait"}
      /\ lock \in {c, NoCpu} /\ lock' = NoCpu /\ waking = Null
      /\ z \in Procs /\ state[z] = "ZOMBIE" /\ z # p
      /\ state' = [state EXCEPT ![z] = "UNUSED"] /\ ctx' = [ctx EXCEPT ![p] = "kern"]
      /\ pid' = [pid EXCEPT ![z] = 0] /\ parent' = [parent EXCEPT ![z] = Null]
      /\ killed' = [killed EXCEPT ![z] = FALSE]
      /\ UNCHANGED <<mode, proc, child, sw, queues, level, nextpid, panic,
                     chan, quantum, indice, waking>>
  <2>1. /\ mode[c] = "run" /\ ctx[p] \in {"kern", "wait"} /\ lock \in {c, NoCpu}
        /\ lock = NoCpu \/ (lock = c /\ ctx[p] = "wait" /\ waking = Null)
        /\ CpuInv /\ WakeInv
    BY Zenon DEF IInv, WaitReap, RunsIn, Scans
  <2>2. /\ ctx' = [ctx EXCEPT ![p] = "kern"] /\ lock' = NoCpu
        /\ UNCHANGED <<mode, proc, child, sw, queues, level, nextpid, panic,
                       chan, quantum, indice, waking>>
    BY Zenon DEF WaitReap, cpus
  <2>3. p \in Procs /\ state[p] = "RUNNING"
    BY <2>1, Zenon DEF CpuInv
  <2>4. waking = Null
    BY <2>1, Zenon DEF WakeInv
  <2>. QED
    BY ZenonT(40), <1>0, <2>1, <2>2, <2>3, <2>4
<1>2. CtlTypes
  BY Zenon DEF IInv, TypeOK, CtlTypes
<1>3. TypeOK'
  BY <1>1, Zenon DEF IInv, TypeOK, queues, States, Contexts
<1>4. QueuesIntact'
  BY <1>1, <1>2, FrameIntact, Zenon DEF IInv, CtlTypes
<1>5. CpuInv'
  BY <1>1, <1>2 DEF IInv, CpuInv, CtlTypes, Interruptible
<1>6. ForkInv'
  BY <1>1, <1>2, Zenon DEF IInv, ForkInv, CtlTypes
<1>7. CtxInv'
  BY <1>1, <1>2, Zenon DEF IInv, CtxInv, CtlTypes, Interruptible
<1>8. PidInv' /\ NoPanic' /\ QuantumInv'
  <2>1. pid \in [Procs -> Nat] /\ nextpid \in Nat
    BY Zenon DEF IInv, TypeOK
  <2>2. \A q \in Procs : pid[q] < nextpid /\ (state[q] # "UNUSED" => pid[q] > 0)
    BY Zenon DEF IInv, PidInv
  <2>3. \A q \in Procs : pid'[q] < nextpid' /\ (state'[q] # "UNUSED" => pid'[q] > 0)
    BY <1>1, <1>2, <2>1, <2>2 DEF CtlTypes
  <2>4. UniquePids'
    BY <1>1, <1>2, <2>1, <2>2 DEF IInv, CtlTypes, PidInv, UniquePids
  <2>. QED
    BY Zenon, <1>1, <1>2, <2>3, <2>4, QuantumFrame DEF IInv, NoPanic, PidInv, CtlTypes
<1>9. WakeInv'
  BY <1>1, <1>2, ProcAssumption, Zenon DEF IInv, WakeInv, CpuInv, CtlTypes, Interruptible
<1>. QED
  BY <1>3, <1>4, <1>5, <1>6, <1>7, <1>8, <1>9, Zenon DEF IInv

\* kill, of a sleeping process or of any slot, keeps the invariant.
LEMMA killKeeps ==
  ASSUME IInv, NEW c \in CPUs, NEW n \in Int, kill(c, n)
  PROVE  IInv'
<1>10. PICK q \in Procs : \/ state[q] = "SLEEPING" /\ make_runnable(q, level[q])
                         \/ UNCHANGED <<queues, level, state>>
  BY killTakes, Zenon
<1>1. /\ killed' \in [Procs -> BOOLEAN]
      /\ UNCHANGED <<lock, waking, ctx, panic, pid, nextpid, parent, chan, quantum, mode, proc, indice, sw, child>>
  <2>1. killed \in [Procs -> BOOLEAN] /\ \E p \in Procs : killed' = [killed EXCEPT ![p] = TRUE]
    BY killTakes, Zenon DEF IInv, TypeOK
  <2>2. killed' \in [Procs -> BOOLEAN]
    BY <2>1, Zenon
  <2>. QED
    BY <2>2, Zenon DEF kill, cpus, flow
<1>0. Woken
  <2>1. CASE state[q] = "SLEEPING" /\ make_runnable(q, level[q])
    BY <1>10, <2>1, WakeOne, Zenon DEF IInv, TypeOK
  <2>2. CASE UNCHANGED <<queues, level, state>>
    BY <2>2, WakeNone, Zenon
  <2>. QED
    BY Zenon, <1>10, <2>1, <2>2
<1>2. CtlTypes /\ QueueTypes'
  BY <1>0, Zenon DEF Woken, IInv, TypeOK, CtlTypes
<1>3. TypeOK'
  BY Zenon, <1>1, <1>2 DEF IInv, TypeOK, QueueTypes, Contexts, Panics
<1>4. QueuesIntact'
  BY Zenon, <1>0 DEF Woken
<1>5. CpuInv'
  BY <1>0, <1>1, <1>2 DEF IInv, CpuInv, CtlTypes, Woken, Interruptible
<1>6. ForkInv'
  BY <1>0, <1>1, <1>2 DEF IInv, ForkInv, CtlTypes, Woken
<1>7. CtxInv'
  BY <1>0, <1>1, <1>2, Zenon DEF IInv, CtxInv, CtlTypes, Woken, Interruptible
<1>8. PidInv' /\ NoPanic' /\ QuantumInv'
  BY Zenon, <1>0, <1>1, <1>2, PidFrame, QuantumFrame DEF IInv, CtlTypes, Woken, NoPanic
<1>9. WakeInv'
  BY <1>1, <1>2, ProcAssumption, Zenon DEF IInv, WakeInv, CpuInv, CtlTypes, Interruptible
<1>. QED
  BY <1>3, <1>4, <1>5, <1>6, <1>7, <1>8, <1>9, Zenon DEF IInv

\* One step of wakeup keeps the invariant.
LEMMA wakeupKeeps ==
  ASSUME IInv, NEW c \in CPUs, NEW ch \in Chans, wakeup(c, ch)
  PROVE  IInv'
<1>10. /\ \E q \in Sleepers(ch) : make_runnable(q, up(q))
       /\ (lock' = c /\ waking' = ch) \/ (lock' = NoCpu /\ waking' = Null)
  BY wakeupTakes, Zenon
<1>1. /\ lock \in {c, NoCpu} /\ lock' \in {c, NoCpu} /\ waking' \in Chans \cup {Null}
      /\ waking' # Null => lock' = c
      /\ mode[c] = "idle" \/ (mode[c] = "run" /\ ctx[proc[c]] \in Interruptible)
      /\ UNCHANGED <<killed, ctx, panic, pid, nextpid, parent, chan, quantum, mode, proc, indice, sw, child>>
  BY <1>10, ProcAssumption DEF IInv, WakeInv, wakeup, cpus, flow, RunsIn, Null
<1>0. Woken
  BY Zenon, <1>10, WakeOne, UpDownLevels DEF IInv, Sleepers
<1>2. CtlTypes /\ QueueTypes'
  BY <1>0, Zenon DEF Woken, IInv, TypeOK, CtlTypes
<1>3. TypeOK'
  BY Zenon, <1>1, <1>2 DEF IInv, TypeOK, QueueTypes, Contexts, Panics
<1>4. QueuesIntact'
  BY Zenon, <1>0 DEF Woken
<1>5. CpuInv'
  BY <1>0, <1>1, <1>2, ProcAssumption DEF IInv, CpuInv, CtlTypes, Woken, Interruptible
<1>6. ForkInv'
  BY <1>0, <1>1, <1>2, Zenon DEF IInv, ForkInv, CtlTypes, Woken
<1>7. CtxInv'
  BY <1>0, <1>1, <1>2, Zenon DEF IInv, CtxInv, CtlTypes, Woken, Interruptible
<1>8. PidInv' /\ NoPanic' /\ QuantumInv'
  BY Zenon, <1>0, <1>1, <1>2, PidFrame, QuantumFrame DEF IInv, CtlTypes, Woken, NoPanic
<1>9. WakeInv'
  BY <1>1, <1>2, ProcAssumption DEF IInv, WakeInv, CpuInv, CtlTypes, Interruptible
<1>. QED
  BY <1>3, <1>4, <1>5, <1>6, <1>7, <1>8, <1>9, Zenon DEF IInv

\* exit() passing its children to init keeps the invariant.
LEMMA ExitReparentKeeps ==
  ASSUME IInv, NEW c \in CPUs, ExitReparent(c)
  PROVE  IInv'
<1>. DEFINE p == proc[c]
<1>1. /\ p \in Procs /\ ctx[p] = "reparent" /\ state[p] = "RUNNING" /\ mode[c] = "run"
      /\ parent' \in [Procs -> Procs \cup {Null}]
      /\ ctx' = [ctx EXCEPT ![p] = "zombie"]
      /\ UNCHANGED <<lock, waking, killed, panic, pid, nextpid, chan, quantum, mode, proc, indice, sw, child>>
  BY ProcAssumption DEF IInv, TypeOK, CpuInv, ExitReparent, cpus, RunsIn, Initproc, Procs
<1>0. Woken
  BY Zenon, WakeParentWakes, WakeNone DEF ExitReparent
<1>2. CtlTypes /\ QueueTypes'
  BY <1>0, Zenon DEF Woken, IInv, TypeOK, CtlTypes
<1>3. TypeOK'
  BY Zenon, <1>1, <1>2 DEF IInv, TypeOK, QueueTypes, Contexts, Panics
<1>4. QueuesIntact'
  BY Zenon, <1>0 DEF Woken
<1>5. CpuInv'
  BY <1>0, <1>1, <1>2 DEF IInv, CpuInv, CtlTypes, Woken, Interruptible
<1>6. ForkInv'
  BY <1>0, <1>1, <1>2 DEF IInv, ForkInv, CtlTypes, Woken
<1>7. CtxInv'
  BY <1>0, <1>1, <1>2, Zenon DEF IInv, CtxInv, CtlTypes, Woken, Interruptible
<1>8. PidInv' /\ NoPanic' /\ QuantumInv'
  BY Zenon, <1>0, <1>1, <1>2, PidFrame, QuantumFrame DEF IInv, CtlTypes, Woken, NoPanic
<1>9. WakeInv'
  BY <1>1, <1>2, ProcAssumption, Zenon DEF IInv, WakeInv, CpuInv, CtlTypes, Interruptible
<1>. QED
  BY <1>3, <1>4, <1>5, <1>6, <1>7, <1>8, <1>9, Zenon DEF IInv

\* exit() waking the parent, or the panic of init, keeps the invariant.
LEMMA ExitKeeps ==
  ASSUME IInv, NEW c \in CPUs, Exit(c)
  PROVE  IInv'
<1>. DEFINE p == proc[c]
<1>0. Woken
  BY Zenon, WakeParentWakes, WakeNone DEF Exit
<1>1. /\ p \in Procs /\ ctx[p] = "exiting" /\ state[p] = "RUNNING" /\ mode[c] = "run"
      /\ UNCHANGED <<waking, killed, pid, nextpid, parent, chan, quantum, mode, proc,
                     indice, sw, child>>
  BY ZenonT(40) DEF IInv, CpuInv, Exit, RunsIn, cpus
<1>2. CtlTypes /\ QueueTypes'
  BY <1>0, Zenon DEF Woken, IInv, TypeOK, CtlTypes
<1>3. CASE p = Initproc
  <2>1. panic' = "init exiting" /\ ctx' = ctx /\ lock' = lock /\ state' = state
    BY Zenon, <1>3 DEF Exit
  <2>2. TypeOK'
    BY Zenon, <1>1, <1>2, <2>1 DEF IInv, TypeOK, QueueTypes, Panics
  <2>3. CpuInv' /\ ForkInv' /\ CtxInv' /\ WakeInv'
    <3>1. CpuInv'
      BY Zenon, <1>1, <2>1 DEF IInv, CpuInv
    <3>2. ForkInv' /\ CtxInv'
      BY Zenon, <1>1, <2>1 DEF IInv, ForkInv, CtxInv
    <3>3. WakeInv'
      BY Zenon, <1>1, <2>1 DEF IInv, WakeInv
    <3>. QED
      BY <3>1, <3>2, <3>3, Zenon
  <2>4. PidInv' /\ NoPanic' /\ QuantumInv'
    BY Zenon, <1>1, <2>1, PidFrame, QuantumFrame DEF IInv, NoPanic
  <2>. QED
    BY <1>0, <2>2, <2>3, <2>4, Zenon DEF IInv, Woken
<1>4. CASE p # Initproc
  <2>1. /\ ctx' = [ctx EXCEPT ![p] = "reparent"] /\ panic' = panic
        /\ lock = NoCpu /\ lock' = c /\ waking = Null
    BY Zenon, <1>4 DEF IInv, WakeInv, Exit, acquire
  <2>2. TypeOK'
    BY <1>1, <1>2, <2>1, Zenon DEF IInv, TypeOK, QueueTypes, Contexts
  <2>3. CpuInv'
    <3>1. \A d \in CPUs : d # c => proc[d] # p /\ mode[d] # "sched"
      BY <1>1, <2>1, ProcAssumption DEF IInv, CpuInv, Procs, Null
    <3>2. \A d \in CPUs : mode[d] = "run" => ctx[proc[d]] \in Interruptible
      BY <2>1, ProcAssumption, Zenon DEF IInv, CpuInv
    <3>3. mode[c] # "sched" /\ \A r \in Procs : state'[r] = "RUNNING" <=> state[r] = "RUNNING"
      BY Zenon, <1>0, <1>1 DEF Woken
    <3>. QED
      BY <1>1, <1>2, <2>1, <3>1, <3>2, <3>3 DEF IInv, CpuInv, CtlTypes
  <2>4. ForkInv'
    BY <1>0, <1>1, <1>2, <2>1 DEF IInv, ForkInv, CtlTypes, Woken
  <2>5. CtxInv'
    BY <1>0, <1>1, <1>2, <2>1, Zenon DEF IInv, CtxInv, CtlTypes, Woken, Interruptible
  <2>6. PidInv' /\ NoPanic' /\ QuantumInv' /\ WakeInv'
    BY Zenon, <1>0, <1>1, <1>2, <2>1, PidFrame, QuantumFrame DEF IInv, CtlTypes, Woken, NoPanic, WakeInv
  <2>. QED
    BY <1>0, <2>2, <2>3, <2>4, <2>5, <2>6, Zenon DEF IInv, Woken
<1>. QED
  BY <1>3, <1>4, Zenon

\* fork queues its child at level 0 and keeps the invariant.
LEMMA ForkPublishKeeps ==
  ASSUME IInv, NEW c \in CPUs, ForkPublish(c)
  PROVE  IInv'
<1>. DEFINE p == proc[c]
            np == child[p]
<1>1. /\ p \in Procs /\ ctx[p] = "forked" /\ state[p] = "RUNNING" /\ mode[c] = "run"
      /\ np \in Procs /\ state[np] = "EMBRYO" /\ np # p /\ ctx[np] = "user"
      /\ make_runnable(np, 0) /\ 0 \in Levels
      /\ state' = [state EXCEPT ![np] = "RUNNABLE"] /\ ctx' = [ctx EXCEPT ![p] = "kern"]
      /\ child' = [child EXCEPT ![p] = Null]
      /\ UNCHANGED <<mode, proc, indice, lock, sw, pid, parent, chan, killed, quantum,
                     nextpid, waking, panic>>
  <2>1. p \in Procs /\ ctx[p] = "forked" /\ state[p] = "RUNNING" /\ mode[c] = "run"
    BY Zenon DEF IInv, CpuInv, ForkPublish, RunsIn
  <2>2. np \in Procs /\ state[np] = "EMBRYO" /\ np # p /\ ctx[np] = "user"
    BY Zenon, <2>1 DEF IInv, ForkInv
  <2>3. 0 \in Levels
    BY ProcAssumption DEF Levels
  <2>. QED
    BY <2>1, <2>2, <2>3, Zenon DEF ForkPublish, make_runnable, cpus
<1>2. CtlTypes
  BY Zenon DEF IInv, TypeOK, CtlTypes
<1>3. TypeOK'
  BY Zenon, <1>1, EnqueueType DEF IInv, TypeOK, QueueTypes, Contexts
<1>4. QueuesIntact'
  BY Zenon, <1>1, EnqueueIntact DEF IInv
<1>5. CpuInv'
  BY <1>1, <1>2 DEF IInv, CpuInv, CtlTypes, Interruptible
<1>6. ForkInv'
  BY <1>1, <1>2, Zenon DEF IInv, ForkInv, CtlTypes
<1>7. CtxInv'
  BY <1>1, <1>2, Zenon DEF IInv, CtxInv, CtlTypes, Interruptible
<1>8. PidInv' /\ NoPanic' /\ QuantumInv'
  BY Zenon, <1>1, <1>2, PidFrame, QuantumFrame DEF IInv, CtlTypes, NoPanic
<1>9. WakeInv'
  BY <1>1, <1>2, ProcAssumption, Zenon DEF IInv, WakeInv, CpuInv, CtlTypes, Interruptible
<1>. QED
  BY <1>3, <1>4, <1>5, <1>6, <1>7, <1>8, <1>9, Zenon DEF IInv

\* A clock tick, with or without yield, keeps the invariant.
LEMMA TimerKeeps ==
  ASSUME IInv, NEW c \in CPUs, Timer(c)
  PROVE  IInv'
<1>. DEFINE p == proc[c]
<1>1. /\ p \in Procs /\ state[p] = "RUNNING" /\ mode[c] = "run" /\ ctx[p] \in Interruptible
      /\ UNCHANGED <<pid, parent, chan, killed, nextpid, waking, child, panic, proc, indice>>
  BY Zenon DEF IInv, CpuInv, Timer, cpus, sched
<1>2. CtlTypes /\ quantum \in [Procs -> 0 .. MAX_QUANTUM] /\ quantum[p] < MAX_QUANTUM
  BY <1>1, Zenon DEF IInv, TypeOK, CtlTypes, QuantumInv
<1>3. CASE MustExit(p, ctx[p])
  <2>1. /\ ctx' = [ctx EXCEPT ![p] = "exiting"]
        /\ UNCHANGED <<quantum, queues, level, state, lock, mode, sw>>
    BY Zenon, <1>3 DEF Timer, cpus
  <2>2. TypeOK'
    BY <1>1, <2>1, Zenon DEF IInv, TypeOK, queues, Contexts
  <2>3. QueuesIntact'
    BY <2>1, FrameIntact, Zenon DEF IInv
  <2>4. CpuInv'
    BY <1>1, <1>2, <2>1 DEF IInv, CpuInv, CtlTypes, Interruptible
  <2>5. ForkInv'
    BY <1>1, <1>2, <2>1, Zenon DEF IInv, ForkInv, CtlTypes
  <2>6. CtxInv' /\ WakeInv'
    BY <1>1, <1>2, <2>1 DEF IInv, CtxInv, WakeInv, CtlTypes, Interruptible
  <2>7. PidInv' /\ NoPanic' /\ QuantumInv'
    BY Zenon, <1>1, <2>1, PidFrame, QuantumFrame DEF IInv, NoPanic
  <2>. QED
    BY <2>2, <2>3, <2>4, <2>5, <2>6, <2>7, Zenon DEF IInv
<1>4. CASE ~MustExit(p, ctx[p]) /\ quantum[p] + 1 # MAX_QUANTUM
  <2>1. /\ quantum' = [quantum EXCEPT ![p] = @ + 1]
        /\ UNCHANGED <<ctx, queues, level, state, lock, mode, sw>>
    BY Zenon, <1>4 DEF Timer, cpus
  <2>2. quantum[p] + 1 \in 0 .. MAX_QUANTUM /\ quantum[p] + 1 < MAX_QUANTUM
    <3>1. quantum[p] \in 0 .. MAX_QUANTUM /\ MAX_QUANTUM \in Nat
      BY <1>1, <1>2, ProcAssumption, Zenon
    <3>. QED
      BY <1>2, <1>4, <3>1
  <2>3. TypeOK'
    BY <1>1, <2>1, <2>2, Zenon DEF IInv, TypeOK, queues
  <2>4. QueuesIntact'
    BY <2>1, FrameIntact, Zenon DEF IInv
  <2>5. CpuInv'
    BY Zenon, <1>1, <2>1 DEF IInv, CpuInv
  <2>6. ForkInv' /\ CtxInv' /\ WakeInv'
    BY <1>1, <2>1, Zenon DEF IInv, ForkInv, CtxInv, WakeInv
  <2>7. PidInv' /\ NoPanic'
    BY Zenon, <1>1, <2>1, PidFrame DEF IInv, NoPanic
  <2>8. QuantumInv'
    BY Zenon, <1>1, <1>2, <2>1, <2>2 DEF IInv, QuantumInv
  <2>. QED
    BY <2>3, <2>4, <2>5, <2>6, <2>7, <2>8, Zenon DEF IInv
<1>5. CASE ~MustExit(p, ctx[p]) /\ quantum[p] + 1 = MAX_QUANTUM
  <2>1. /\ quantum' = [quantum EXCEPT ![p] = @ + 1] /\ lock = NoCpu /\ lock' = c
        /\ make_runnable(p, down(p)) /\ state' = [state EXCEPT ![p] = "RUNNABLE"]
        /\ mode' = [mode EXCEPT ![c] = "sched"] /\ sw' = [sw EXCEPT ![p] = "yield"]
        /\ ctx' = ctx /\ waking = Null
    BY Zenon, <1>5 DEF IInv, WakeInv, Timer, acquire, sched, make_runnable
  <2>2. quantum[p] + 1 \in 0 .. MAX_QUANTUM
    <3>1. quantum[p] \in 0 .. MAX_QUANTUM /\ MAX_QUANTUM \in Nat
      BY <1>1, <1>2, ProcAssumption, Zenon
    <3>. QED
      BY <1>5, <3>1
  <2>3. down(p) \in Levels
    BY Zenon, <1>1, UpDownLevels DEF IInv
  <2>4. QueueTypes' /\ QueuesIntact'
    BY Zenon, <1>1, <2>1, <2>3, EnqueueType, EnqueueIntact DEF IInv
  <2>5. TypeOK'
    BY Zenon, <1>1, <2>1, <2>2, <2>4 DEF IInv, TypeOK, QueueTypes, Modes
  <2>6. CpuInv'
    <3>1. /\ "RUNNABLE" \in States /\ CpuInv
          /\ \A q \in Procs : q # p => sw'[q] = sw[q] /\ ctx'[q] = ctx[q]
      BY <1>1, <1>2, <2>1, Zenon DEF IInv, CtlTypes, States
    <3>. QED
      BY Zenon, <1>1, <1>2, <2>1, <3>1, SchedCpu
  <2>7. ForkInv'
    BY <1>1, <1>2, <2>1, Zenon DEF IInv, ForkInv, CtlTypes
  <2>8. CtxInv' /\ WakeInv'
    BY <1>1, <1>2, <2>1, Zenon DEF IInv, CtxInv, WakeInv, CtlTypes, Interruptible
  <2>9. PidInv' /\ NoPanic'
    BY Zenon, <1>1, <1>2, <2>1, PidFrame DEF IInv, NoPanic, CtlTypes
  <2>10. QuantumInv'
    BY <1>1, <1>2, <2>1, Zenon DEF IInv, QuantumInv, CtlTypes
  <2>. QED
    BY <2>4, <2>5, <2>6, <2>7, <2>8, <2>9, <2>10, Zenon DEF IInv
<1>. QED
  BY <1>3, <1>4, <1>5, Zenon

\* scheduler() takes the first process of a level, which is RUNNABLE.
LEMMA ScheduleTakes ==
  ASSUME IInv, NEW c \in CPUs, Schedule(c)
  PROVE  \E l \in Levels :
           /\ first[l] # Null /\ first[l] \in Procs /\ state[first[l]] = "RUNNABLE"
           /\ make_running(first[l]) /\ state' = [state EXCEPT ![first[l]] = "RUNNING"]
           /\ indice' = [indice EXCEPT ![c] = l] /\ proc' = [proc EXCEPT ![c] = first[l]]
           /\ mode' = [mode EXCEPT ![c] = "run"] /\ quantum' = [quantum EXCEPT ![first[l]] = 0]
           /\ Resume(c, first[l])
           /\ UNCHANGED <<panic, pid, parent, killed, nextpid, waking, child>>
<1>0. PICK l \in FirstOf(Pending(c)) :
        /\ indice' = [indice EXCEPT ![c] = l]
        /\ state[first[l]] = "RUNNABLE" =>
             /\ proc' = [proc EXCEPT ![c] = first[l]] /\ make_running(first[l])
             /\ quantum' = [quantum EXCEPT ![first[l]] = 0] /\ mode' = [mode EXCEPT ![c] = "run"]
             /\ Resume(c, first[l]) /\ UNCHANGED panic
  BY Zenon DEF Schedule
<1>. DEFINE p == first[l]
<1>1. l \in Levels /\ p # Null
  BY Zenon DEF FirstOf, Pending
<1>2. p \in Procs /\ state[p] = "RUNNABLE"
  <2>1. order[l] \in Seq(Procs) /\ p \in Procs
    BY <1>1, Zenon DEF IInv, TypeOK
  <2>2. order[l] # <<>> /\ p = order[l][1]
    BY <1>1, Zenon DEF IInv, QueuesIntact, Linked
  <2>3. 1 \in 1 .. Len(order[l])
    BY <2>1, <2>2, EmptySeq, LenProperties
  <2>4. \A i \in 1 .. Len(order[l]) : state[order[l][i]] = "RUNNABLE"
    BY <1>1, Zenon DEF IInv, QueuesIntact, Queued
  <2>. QED
    BY <2>1, <2>2, <2>3, <2>4, Zenon
<1>3. /\ make_running(p) /\ state' = [state EXCEPT ![p] = "RUNNING"]
      /\ indice' = [indice EXCEPT ![c] = l] /\ proc' = [proc EXCEPT ![c] = p]
      /\ mode' = [mode EXCEPT ![c] = "run"] /\ quantum' = [quantum EXCEPT ![p] = 0]
      /\ Resume(c, p)
      /\ UNCHANGED <<panic, pid, parent, killed, nextpid, waking, child>>
  BY <1>0, <1>2, Zenon DEF Schedule, make_running
<1>. QED
  BY Zenon, <1>1, <1>2, <1>3

\* What p goes on with when it gets a CPU: its own context, unless wait() or the
\* killed test after yield() send it elsewhere.
LEMMA ResumeContext ==
  ASSUME IInv, NEW c, NEW p \in Procs, state[p] = "RUNNABLE", Resume(c, p)
  PROVE  \E x \in {"wait", "exiting", ctx[p]} :
           /\ ctx' = [ctx EXCEPT ![p] = x] /\ x \in Contexts
           /\ x \in {"fork", "forked"} => x = ctx[p]
           /\ x \notin Interruptible => x = "wait" /\ lock' = c
           /\ x = "user" => ~(sw[p] = "yield" /\ killed[p]) /\ ctx[p] = "user"
<1>1. ctx[p] \in Interruptible /\ ctx \in [Procs -> Contexts]
  BY Zenon DEF IInv, TypeOK, CtxInv
<1>2. CASE sw[p] = "wait"
  <2>1. ctx' = [ctx EXCEPT ![p] = "wait"] /\ lock' = c
    BY <1>2, Zenon DEF Resume
  <2>. QED
    BY Zenon, <2>1 DEF Contexts, Interruptible
<1>3. CASE sw[p] # "wait" /\ sw[p] = "yield" /\ MustExit(p, ctx[p])
  <2>1. ctx' = [ctx EXCEPT ![p] = "exiting"]
    BY <1>3, Zenon DEF Resume
  <2>. QED
    BY Zenon, <2>1 DEF Contexts, Interruptible
<1>4. CASE sw[p] # "wait" /\ ~(sw[p] = "yield" /\ MustExit(p, ctx[p]))
  <2>1. ctx' = [ctx EXCEPT ![p] = ctx[p]]
    BY ZenonT(40), <1>4 DEF Resume
  <2>. QED
    BY Zenon, <1>1, <1>4, <2>1 DEF Contexts, Interruptible, MustExit
<1>. QED
  BY Zenon, <1>2, <1>3, <1>4

\* scheduler() taking the first process of a queue keeps the invariant.
LEMMA ScheduleKeeps ==
  ASSUME IInv, NEW c \in CPUs, Schedule(c)
  PROVE  IInv'
<1>1. PICK l \in Levels :
        /\ first[l] # Null /\ first[l] \in Procs /\ state[first[l]] = "RUNNABLE"
        /\ make_running(first[l]) /\ state' = [state EXCEPT ![first[l]] = "RUNNING"]
        /\ indice' = [indice EXCEPT ![c] = l] /\ proc' = [proc EXCEPT ![c] = first[l]]
        /\ mode' = [mode EXCEPT ![c] = "run"] /\ quantum' = [quantum EXCEPT ![first[l]] = 0]
        /\ Resume(c, first[l])
        /\ UNCHANGED <<panic, pid, parent, killed, nextpid, waking, child>>
  BY ScheduleTakes, Zenon
<1>. DEFINE p == first[l]
<1>2. p \in Procs /\ state[p] = "RUNNABLE"
  BY <1>1, Zenon
<1>3. /\ make_running(p) /\ state' = [state EXCEPT ![p] = "RUNNING"]
      /\ indice' = [indice EXCEPT ![c] = l] /\ proc' = [proc EXCEPT ![c] = p]
      /\ mode' = [mode EXCEPT ![c] = "run"] /\ quantum' = [quantum EXCEPT ![p] = 0]
      /\ Resume(c, p)
      /\ UNCHANGED <<panic, pid, parent, killed, nextpid, waking, child>>
  BY <1>1, Zenon
<1>4. /\ lock \in {c, NoCpu} /\ mode[c] \in {"idle", "sched"} /\ waking = Null
      /\ NoCpu \notin CPUs
  BY Zenon, ProcAssumption DEF IInv, WakeInv, Schedule, InLoop
<1>5. CtlTypes /\ chan \in [Procs -> Chans \cup Procs \cup {Null}] /\ ctx[p] \in Interruptible
  BY <1>2, Zenon DEF IInv, TypeOK, CtlTypes, CtxInv
<1>6. PICK x \in {"wait", "exiting", ctx[p]} :
        /\ ctx' = [ctx EXCEPT ![p] = x] /\ x \in Contexts
        /\ x \in {"fork", "forked"} => x = ctx[p]
        /\ x \notin Interruptible => x = "wait" /\ lock' = c
        /\ x = "user" => ~(sw[p] = "yield" /\ killed[p]) /\ ctx[p] = "user"
  BY <1>2, <1>3, ResumeContext, Zenon
<1>7. /\ sw' = [sw EXCEPT ![p] = "none"] /\ lock' \in {c, NoCpu}
      /\ chan' \in [Procs -> Chans \cup Procs \cup {Null}]
  BY <1>2, <1>3, <1>5, Zenon DEF Resume
<1>8. QueueTypes' /\ QueuesIntact'
  BY Zenon, <1>1, <1>3, DequeueType, DequeueIntact DEF IInv, PidInv
<1>9. TypeOK'
  <2>1. /\ quantum' \in [Procs -> 0 .. MAX_QUANTUM] /\ indice' \in [CPUs -> Levels]
        /\ mode' \in [CPUs -> Modes] /\ proc' \in [CPUs -> Procs \cup {Null}]
    <3>1. 0 \in 0 .. MAX_QUANTUM
      BY ProcAssumption
    <3>. QED
      BY <1>1, <1>2, <1>3, <3>1 DEF IInv, TypeOK, Modes
  <2>2. ctx' \in [Procs -> Contexts] /\ lock' \in CPUs \cup {NoCpu}
    BY Zenon, <1>5, <1>6, <1>7 DEF CtlTypes
  <2>3. sw' \in [Procs -> {"none", "yield", "sleep", "wait", "new"}]
    BY Zenon, <1>5, <1>7 DEF CtlTypes
  <2>4. /\ pid' \in [Procs -> Nat] /\ parent' \in [Procs -> Procs \cup {Null}]
        /\ killed' \in [Procs -> BOOLEAN] /\ nextpid' \in Nat
        /\ waking' \in Chans \cup {Null} /\ panic' \in Panics
        /\ child' \in [Procs -> Procs \cup {Null}]
    BY <1>3, Zenon DEF IInv, TypeOK
  <2>. QED
    BY ZenonT(40), <1>7, <1>8, <2>1, <2>2, <2>3, <2>4 DEF TypeOK, QueueTypes
<1>10. CpuInv'
  <2>1. \A d \in CPUs : d # c => proc[d] # p /\ mode[d] # "sched"
    BY <1>2, <1>4, <1>5 DEF IInv, CpuInv, CtlTypes, Modes, Procs, Null
  <2>2. \A d \in CPUs : d # c /\ mode[d] = "run" => ctx[proc[d]] \in Interruptible
    <3>1. \A d \in CPUs : mode[d] = "run" /\ ctx[proc[d]] \notin Interruptible => lock = d
      BY Zenon DEF IInv, CpuInv
    <3>. QED
      BY ZenonT(40), <1>4, <3>1
  <2>4. \A q \in Procs : state[q] = "RUNNING" =>
          \E d \in CPUs : d # c /\ mode[d] = "run" /\ proc[d] = q
    BY <1>4, Zenon DEF IInv, CpuInv
  <2>5. ASSUME NEW d \in CPUs, mode'[d] = "run"
        PROVE  /\ proc'[d] \in Procs /\ state'[proc'[d]] = "RUNNING" /\ sw'[proc'[d]] = "none"
               /\ ctx'[proc'[d]] \notin Interruptible => lock' = d
    <3>1. CASE d = c
      BY ZenonT(40), <1>2, <1>3, <1>5, <1>6, <1>7, <3>1 DEF CtlTypes
    <3>2. CASE d # c
      BY ZenonT(40), <1>2, <1>3, <1>5, <1>6, <1>7, <2>1, <2>2, <2>5, <3>2 DEF IInv, CpuInv, CtlTypes
    <3>. QED
      BY <3>1, <3>2, Zenon
  <2>6. \A d \in CPUs : (mode'[d] = "idle" => proc'[d] = Null) /\ mode'[d] # "sched"
    BY <1>3, <1>5, <2>1, Zenon DEF IInv, CpuInv, CtlTypes
  <2>7. \A q \in Procs : state'[q] = "RUNNING" => \E d \in CPUs : mode'[d] = "run" /\ proc'[d] = q
    BY <1>2, <1>3, <1>5, <2>4 DEF CtlTypes
  <2>8. \A d, e \in CPUs : proc'[d] = proc'[e] /\ proc'[d] # Null => d = e
    BY <1>3, <1>5, <2>1 DEF IInv, CpuInv, CtlTypes
  <2>. QED
    BY Zenon, <2>5, <2>6, <2>7, <2>8 DEF CpuInv
<1>11. ForkInv'
  BY <1>2, <1>3, <1>5, <1>6 DEF IInv, ForkInv, CtlTypes
<1>12. CtxInv' /\ WakeInv'
  BY Zenon, <1>2, <1>3, <1>4, <1>5, <1>6 DEF IInv, CtxInv, WakeInv, CtlTypes
<1>13. PidInv' /\ NoPanic'
  BY Zenon, <1>2, <1>3, <1>5, PidFrame DEF IInv, NoPanic, CtlTypes
<1>14. QuantumInv'
  <2>1. quantum \in [Procs -> 0 .. MAX_QUANTUM]
    BY Zenon DEF IInv, TypeOK
  <2>. QED
    BY <1>2, <1>3, <1>5, <2>1, ProcAssumption DEF IInv, QuantumInv, CtlTypes
<1>. QED
  BY Zenon, <1>8, <1>9, <1>10, <1>11, <1>12, <1>13, <1>14 DEF IInv

\* The initial table satisfies the inductive invariant.
LEMMA InitKeeps == Init => IInv
<1>. SUFFICES ASSUME Init PROVE IInv
  BY Zenon
<1>. USE ProcAssumption
<1>1. 0 \in Levels /\ Initproc \in Procs /\ Null \notin Procs
  BY DEF Levels, Initproc, Procs, Null
<1>2. order \in [Levels -> Seq(Procs)]
  <2>1. <<Initproc>> \in Seq(Procs) /\ <<>> \in Seq(Procs)
    BY <1>1
  <2>. QED
    BY <1>1, <2>1, Zenon DEF Init
<1>3. TypeOK
  BY <1>1, <1>2 DEF Init, TypeOK, States, Modes, Contexts, Panics
<1>4. QueuesIntact
  <2>1. Queued
    BY <1>1 DEF Init, Queued
  <2>2. \A l \in Levels : Linked(l)
    BY <1>1 DEF Init, Linked
  <2>. QED
    BY <2>1, <2>2, Zenon DEF QueuesIntact
<1>5. CpuInv /\ ForkInv /\ CtxInv /\ WakeInv
  BY <1>1, Zenon DEF Init, CpuInv, ForkInv, CtxInv, WakeInv, Interruptible
<1>6. PidInv /\ NoPanic /\ QuantumInv
  BY <1>1 DEF Init, PidInv, UniquePids, NoPanic, QuantumInv
<1>. QED
  BY <1>3, <1>4, <1>5, <1>6, Zenon DEF IInv

\* Every step of the machine keeps the inductive invariant.
LEMMA NextKeeps == IInv /\ [Next]_vars => IInv'
<1>. SUFFICES ASSUME IInv, [Next]_vars PROVE IInv'
  BY Zenon
<1>1. CASE UNCHANGED vars
  <2>1. TypeOK' /\ CtxInv' /\ ForkInv' /\ NoPanic' /\ QuantumInv'
    BY Zenon, <1>1 DEF IInv, TypeOK, CtxInv, ForkInv, NoPanic, QuantumInv, vars, queues, cpus, flow
  <2>2. QueuesIntact'
    BY Zenon, <1>1, FrameIntact DEF IInv, vars
  <2>3. CpuInv' /\ WakeInv'
    BY Zenon, <1>1 DEF IInv, CpuInv, WakeInv, vars, cpus, flow
  <2>4. PidInv'
    BY <1>1, PidFrame, Zenon DEF IInv, vars
  <2>. QED
    BY <2>1, <2>2, <2>3, <2>4, Zenon DEF IInv
<1>2. ASSUME NEW c \in CPUs, SchedStep(c)
      PROVE  IInv'
  BY <1>2, ScheduleKeeps, ScheduleRestKeeps, wakeupKeeps, Zenon DEF SchedStep
<1>3. ASSUME NEW c \in CPUs, KernelStep(c)
      PROVE  IInv'
  BY Zenon, <1>3, SyscallReturnKeeps, ForkFailKeeps, ForkCopyKeeps, ForkPublishKeeps, ExitKeeps,
     ExitReparentKeeps, ExitSchedKeeps, WaitReapKeeps, WaitNoneKeeps, WaitSleepKeeps
     DEF KernelStep
<1>4. ASSUME NEW c \in CPUs, Request(c)
      PROVE  IInv'
  <2>1. \A n \in KillArgs : n \in Int
    BY ProcAssumption, Zenon
  <2>. QED
    BY Zenon, <1>4, <2>1, SyscallKeeps, FaultKeeps, allocprocKeeps, ExitCallKeeps, WaitReapKeeps,
       WaitNoneKeeps, WaitSleepKeeps, set_priorityKeeps, sleepKeeps, wakeupKeeps, killKeeps
       DEF Request
<1>. QED
  BY <1>1, <1>2, <1>3, <1>4, TimerKeeps, Zenon DEF Next, Running, Halted

\* The inductive invariant holds in every reachable state.
THEOREM Invariance == Spec => []IInv
<1>. QED
  BY InitKeeps, NextKeeps, PTL DEF Spec

\* Every variable keeps its type: levels stay below MLF_LEVELS, quanta within
\* MAX_QUANTUM, links inside the table.
THEOREM TypeCorrect == Spec => []TypeOK
<1>1. IInv => TypeOK
  BY Zenon DEF IInv
<1>. QED
  BY <1>1, Invariance, PTL

\* encolar and desencolar keep the linked run queues intact: exactly the
\* RUNNABLE processes are queued, each once and at its own level.
THEOREM QueuesAreIntact == Spec => []QueuesIntact
<1>1. IInv => QueuesIntact
  BY Zenon DEF IInv
<1>. QED
  BY <1>1, Invariance, PTL

\* scheduler() never meets a queued process that is not RUNNABLE.
THEOREM SchedulerNeverPanics == Spec => []NoPanic
<1>1. IInv => NoPanic
  BY Zenon DEF IInv
<1>. QED
  BY <1>1, Invariance, PTL

\* ptable.lock held across swtch gives every RUNNING process exactly one CPU.
THEOREM EachOnOneCpu == Spec => []OneCpuEach
<1>1. IInv => OneCpuEach
  BY Zenon DEF IInv, CpuInv, OneCpuEach
<1>. QED
  BY <1>1, Invariance, PTL

\* allocproc, fork's error path and wait keep the pids in use distinct.
THEOREM PidsAreUnique == Spec => []UniquePids
<1>1. IInv => UniquePids
  BY Zenon DEF IInv, PidInv
<1>. QED
  BY <1>1, Invariance, PTL

-----------------------------------------------------------------------------
(* Parents and children, killed processes, and the refinement of Mlfq *)

\* The process on a CPU is RUNNING (scheduler()).
LEMMA OnCpu ==
  ASSUME IInv, NEW c \in CPUs, mode[c] = "run"
  PROVE  proc[c] \in Procs /\ state[proc[c]] = "RUNNING"
<1>1. CpuInv
  BY Zenon DEF IInv
<1>. QED
  BY <1>1, Zenon DEF CpuInv

\* A RUNNING process is not in swtch.
LEMMA RunningNotSwitched ==
  ASSUME IInv, NEW p \in Procs, state[p] = "RUNNING"
  PROVE  sw[p] = "none"
<1>1. CpuInv
  BY Zenon DEF IInv
<1>2. PICK c \in CPUs : mode[c] = "run" /\ proc[c] = p
  BY <1>1, Zenon DEF CpuInv
<1>. QED
  BY <1>1, <1>2, Zenon DEF CpuInv

\* The child that fork is making is an EMBRYO.
LEMMA ForkedChild ==
  ASSUME IInv, NEW c \in CPUs, RunsIn(c, "fork") \/ RunsIn(c, "forked")
  PROVE  /\ proc[c] \in Procs /\ state[proc[c]] = "RUNNING"
         /\ child[proc[c]] \in Procs /\ state[child[proc[c]]] = "EMBRYO"
<1>1. mode[c] = "run" /\ ctx[proc[c]] \in {"fork", "forked"} /\ ForkInv
  BY Zenon DEF IInv, RunsIn
<1>2. proc[c] \in Procs /\ state[proc[c]] = "RUNNING"
  BY <1>1, OnCpu, Zenon
<1>. QED
  BY <1>1, <1>2, Zenon DEF ForkInv

\* p is asleep in wait().
InWait(p) == p \in Procs /\ state[p] = "SLEEPING" /\ chan[p] = p

\* p is in the part of exit() that holds ptable.lock.
Exiting(p) == state[p] = "RUNNING" /\ ctx[p] \in {"reparent", "zombie"}

\* Who is whose child.  A slot that is not in use is nobody's, up to the moment
\* when fork makes it its own.
TreeInv ==
  \A p \in Procs :
    /\ parent[p] # p
    /\ state[p] = "UNUSED" => parent[p] = Null
    /\ ctx[p] = "fork" => parent[child[p]] = Null
    /\ ctx[p] = "forked" => parent[child[p]] = p

\* init stays, and does not get past the panic of exit().
InitInv ==
  /\ InUse(Initproc) /\ state[Initproc] # "ZOMBIE"
  /\ parent[Initproc] = Null
  /\ ctx[Initproc] \notin {"reparent", "zombie"}

\* A process in exit() has woken its parent, which has not slept since, and then
\* has no children left.
ExitInv ==
  \A p \in Procs : Exiting(p) =>
    /\ ~InWait(parent[p])
    /\ ctx[p] = "zombie" => \A q \in Procs : parent[q] # p

FamilyInv == ParentAlive /\ WaiterHasReason /\ TreeInv /\ InitInv /\ ExitInv

-----------------------------------------------------------------------------
\* A step keeps the families when it changes no parent, makes and frees no
\* process, and begins neither a wait nor the locked part of an exit.
LEMMA FamilyFrame ==
  ASSUME IInv, FamilyInv, UNCHANGED parent,
         \A p \in Procs : \A s \in {"UNUSED", "EMBRYO", "ZOMBIE"} : state'[p] = s <=> state[p] = s,
         \A p \in Procs : InWait(p)' => InWait(p) /\ killed'[p] = killed[p],
         \A p \in Procs : ctx'[p] \in {"fork", "forked"} => ctx'[p] = ctx[p] /\ child'[p] = child[p],
         \A p \in Procs : Exiting(p)' => Exiting(p) /\ ctx'[p] = ctx[p],
         ctx'[Initproc] \notin {"reparent", "zombie"}
  PROVE  FamilyInv'
<1>1. /\ parent \in [Procs -> Procs \cup {Null}] /\ child \in [Procs -> Procs \cup {Null}]
      /\ Initproc \in Procs /\ Null \notin Procs
  BY ProcAssumption DEF IInv, TypeOK, Initproc, Procs, Null
<1>2. \A p \in Procs : (InUse(p)' <=> InUse(p)) /\ (state'[p] = "ZOMBIE" <=> state[p] = "ZOMBIE")
  BY Zenon DEF InUse
<1>3. ParentAlive'
  BY <1>1, <1>2, Zenon DEF FamilyInv, ParentAlive
<1>4. WaiterHasReason'
  <2>1. ASSUME NEW p \in Procs, state'[p] = "SLEEPING", chan'[p] = p
        PROVE  state[p] = "SLEEPING" /\ chan[p] = p /\ killed'[p] = killed[p]
    BY <2>1, Zenon DEF InWait
  <2>. QED
    BY <1>1, <1>2, <2>1 DEF FamilyInv, WaiterHasReason, Children, ZombieChildren
<1>5. TreeInv'
  BY <1>1 DEF FamilyInv, TreeInv
<1>6. InitInv'
  BY <1>1, <1>2, Zenon DEF FamilyInv, InitInv
<1>7. ExitInv'
  BY <1>1 DEF FamilyInv, ExitInv, InWait, Exiting
<1>. QED
  BY <1>3, <1>4, <1>5, <1>6, <1>7, Zenon DEF FamilyInv

\* What waking at most one process, and nothing else, means for the table.
LEMMA WokenFrame ==
  ASSUME IInv, Woken
  PROVE  /\ \A p \in Procs : \A s \in {"UNUSED", "EMBRYO", "ZOMBIE", "RUNNING"} : state'[p] = s <=> state[p] = s
         /\ \A p \in Procs : state'[p] = "SLEEPING" => state[p] = "SLEEPING"
  BY Zenon DEF Woken

\* A step that leaves the table as it is keeps the families.
LEMMA StillKeepsFamily ==
  ASSUME IInv, FamilyInv, UNCHANGED <<state, parent, chan, child, ctx, killed>>
  PROVE  FamilyInv'
<1>1. ctx[Initproc] \notin {"reparent", "zombie"}
  BY Zenon DEF FamilyInv, InitInv
<1>. QED
  BY <1>1, FamilyFrame, Zenon DEF InWait, Exiting

\* So does a running process that moves between user space, a system call and
\* the start of exit().
LEMMA MoveKeepsFamily ==
  ASSUME IInv, FamilyInv, UNCHANGED <<state, parent, chan, child>>,
         NEW p \in Procs, state[p] = "RUNNING",
         NEW x \in {"user", "kern", "exiting"}, ctx' = [ctx EXCEPT ![p] = x],
         \A q \in Procs : q # p => killed'[q] = killed[q]
  PROVE  FamilyInv'
<1>1. /\ ctx \in [Procs -> Contexts] /\ Initproc \in Procs
      /\ ctx[Initproc] \notin {"reparent", "zombie"}
  BY ProcAssumption DEF IInv, TypeOK, FamilyInv, InitInv, Initproc, Procs
<1>2. \A q \in Procs : InWait(q)' => InWait(q) /\ killed'[q] = killed[q]
  BY Zenon DEF InWait
<1>3. \A q \in Procs : Exiting(q)' => Exiting(q) /\ ctx'[q] = ctx[q]
  BY <1>1, Zenon DEF Exiting
<1>4. \A q \in Procs : ctx'[q] \in {"fork", "forked"} => ctx'[q] = ctx[q] /\ child'[q] = child[q]
  BY <1>1, Zenon
<1>5. ctx'[Initproc] \notin {"reparent", "zombie"}
  BY <1>1, Zenon
<1>. QED
  BY <1>2, <1>3, <1>4, <1>5, FamilyFrame, Zenon

\* System call entry and return, a fault, and the call of exit().
LEMMA ControlKeepsFamily ==
  ASSUME IInv, FamilyInv, NEW c \in CPUs,
         Syscall(c) \/ Fault(c) \/ SyscallReturn(c) \/ ExitCall(c) \/ WaitNone(c)
  PROVE  FamilyInv'
<1>. DEFINE p == proc[c]
<1>1. p \in Procs /\ state[p] = "RUNNING"
  <2>1. mode[c] = "run"
    BY Zenon DEF Syscall, Fault, SyscallReturn, ExitCall, WaitNone, Scans, RunsIn
  <2>. QED
    BY <2>1, OnCpu, Zenon
<1>2. UNCHANGED <<state, parent, chan, child>>
  BY Zenon DEF Syscall, Fault, SyscallReturn, ExitCall, WaitNone
<1>3. \A q \in Procs : q # p => killed'[q] = killed[q]
  BY Zenon DEF IInv, TypeOK, Syscall, Fault, SyscallReturn, ExitCall, WaitNone
<1>4. \E x \in {"user", "kern", "exiting"} : ctx' = [ctx EXCEPT ![p] = x]
  BY Zenon DEF Syscall, Fault, SyscallReturn, ExitCall, WaitNone, Toward
<1>. QED
  BY <1>1, <1>2, <1>3, <1>4, MoveKeepsFamily, Zenon

\* scheduler() finding no process, and set_priority.
LEMMA QuietKeepsFamily ==
  ASSUME IInv, FamilyInv, NEW c \in CPUs,
         ScheduleRest(c) \/ \E x \in PriorityArgs : set_priority(c, x)
  PROVE  FamilyInv'
<1>1. UNCHANGED <<state, parent, chan, child, ctx, killed>>
  BY Zenon DEF ScheduleRest, set_priority, flow
<1>. QED
  BY <1>1, StillKeepsFamily, Zenon

\* sleep() on a channel: no channel is a process.
LEMMA sleepKeepsFamily ==
  ASSUME IInv, FamilyInv, NEW c \in CPUs, NEW ch \in Chans, sleep(c, ch)
  PROVE  FamilyInv'
<1>. DEFINE p == proc[c]
<1>1. /\ p \in Procs /\ state[p] = "RUNNING"
      /\ state' = [state EXCEPT ![p] = "SLEEPING"] /\ chan' = [chan EXCEPT ![p] = ch]
      /\ UNCHANGED <<parent, ctx, child, killed>>
  BY Zenon DEF IInv, CpuInv, sleep, RunsIn
<1>2. /\ state \in [Procs -> States] /\ chan \in [Procs -> Chans \cup Procs \cup {Null}]
      /\ ch \notin Procs /\ ctx[Initproc] \notin {"reparent", "zombie"}
  BY ProcAssumption DEF IInv, TypeOK, FamilyInv, InitInv, Procs
<1>3. \A q \in Procs : \A t \in {"UNUSED", "EMBRYO", "ZOMBIE"} : state'[q] = t <=> state[q] = t
  BY <1>1, <1>2, Zenon
<1>4. \A q \in Procs : InWait(q)' => InWait(q) /\ killed'[q] = killed[q]
  BY <1>1, <1>2, Zenon DEF InWait
<1>5. \A q \in Procs : Exiting(q)' => Exiting(q) /\ ctx'[q] = ctx[q]
  BY <1>1, <1>2, Zenon DEF Exiting
<1>. QED
  BY <1>1, <1>2, <1>3, <1>4, <1>5, FamilyFrame, Zenon

\* One step of wakeup.
LEMMA wakeupKeepsFamily ==
  ASSUME IInv, FamilyInv, NEW c \in CPUs, NEW ch \in Chans, wakeup(c, ch)
  PROVE  FamilyInv'
<1>1. \E q \in Sleepers(ch) : make_runnable(q, up(q))
  BY wakeupTakes, Zenon
<1>2. Woken
  BY Zenon, <1>1, WakeOne, UpDownLevels DEF IInv, Sleepers
<1>3. UNCHANGED <<parent, chan, ctx, child, killed>>
  BY Zenon DEF wakeup, flow
<1>4. /\ \A p \in Procs : \A t \in {"UNUSED", "EMBRYO", "ZOMBIE", "RUNNING"} : state'[p] = t <=> state[p] = t
      /\ \A p \in Procs : state'[p] = "SLEEPING" => state[p] = "SLEEPING"
  BY <1>2, WokenFrame, Zenon
<1>5. \A p \in Procs : InWait(p)' => InWait(p) /\ killed'[p] = killed[p]
  BY <1>3, <1>4, Zenon DEF InWait
<1>6. \A p \in Procs : Exiting(p)' => Exiting(p) /\ ctx'[p] = ctx[p]
  BY <1>3, <1>4, Zenon DEF Exiting
<1>7. ctx'[Initproc] \notin {"reparent", "zombie"}
  BY <1>3, Zenon DEF FamilyInv, InitInv
<1>. QED
  BY <1>3, <1>4, <1>5, <1>6, <1>7, FamilyFrame, Zenon

\* kill: the process it marks does not stay asleep.
LEMMA killKeepsFamily ==
  ASSUME IInv, FamilyInv, NEW c \in CPUs, NEW n \in Int, kill(c, n)
  PROVE  FamilyInv'
<1>1. PICK q \in Procs :
        /\ killed' = [killed EXCEPT ![q] = TRUE]
        /\ \/ state[q] = "SLEEPING" /\ make_runnable(q, level[q])
           \/ state[q] # "SLEEPING" /\ UNCHANGED <<queues, level, state>>
  BY killTakes, Zenon
<1>2. /\ killed' = [killed EXCEPT ![q] = TRUE]
      /\ UNCHANGED <<parent, chan, ctx, child>>
  BY <1>1, Zenon DEF kill, flow
<1>3. Woken /\ state'[q] # "SLEEPING"
  <2>1. CASE state[q] = "SLEEPING" /\ make_runnable(q, level[q])
    <3>1. Woken
      BY <1>1, <2>1, WakeOne, Zenon DEF IInv, TypeOK
    <3>2. state' = [state EXCEPT ![q] = "RUNNABLE"] /\ state \in [Procs -> States]
      BY Zenon, <2>1 DEF make_runnable, IInv, TypeOK
    <3>. QED
      BY <1>1, <3>1, <3>2, Zenon
  <2>2. CASE state[q] # "SLEEPING" /\ UNCHANGED <<queues, level, state>>
    BY Zenon, <2>2, WakeNone
  <2>. QED
    BY Zenon, <1>1, <2>1, <2>2
<1>4. /\ \A p \in Procs : \A t \in {"UNUSED", "EMBRYO", "ZOMBIE", "RUNNING"} : state'[p] = t <=> state[p] = t
      /\ \A p \in Procs : state'[p] = "SLEEPING" => state[p] = "SLEEPING"
  BY <1>3, WokenFrame, Zenon
<1>5. \A p \in Procs : InWait(p)' => InWait(p) /\ killed'[p] = killed[p]
  <2>1. killed \in [Procs -> BOOLEAN]
    BY Zenon DEF IInv, TypeOK
  <2>. QED
    BY <1>2, <1>3, <1>4, <2>1, Zenon DEF InWait
<1>6. \A p \in Procs : Exiting(p)' => Exiting(p) /\ ctx'[p] = ctx[p]
  BY <1>2, <1>4, Zenon DEF Exiting
<1>7. ctx'[Initproc] \notin {"reparent", "zombie"}
  BY <1>2, Zenon DEF FamilyInv, InitInv
<1>. QED
  BY <1>2, <1>4, <1>5, <1>6, <1>7, FamilyFrame, Zenon

\* A clock tick, with or without yield.
LEMMA TimerKeepsFamily ==
  ASSUME IInv, FamilyInv, NEW c \in CPUs, Timer(c)
  PROVE  FamilyInv'
<1>. DEFINE p == proc[c]
<1>1. p \in Procs /\ state[p] = "RUNNING" /\ UNCHANGED <<parent, chan, killed, child>>
  BY Zenon DEF IInv, CpuInv, Timer
<1>2. CASE ctx' = [ctx EXCEPT ![p] = "exiting"] /\ UNCHANGED state
  BY <1>1, <1>2, MoveKeepsFamily, Zenon
<1>3. CASE UNCHANGED <<ctx, state>>
  BY <1>1, <1>3, StillKeepsFamily, Zenon
<1>4. CASE ctx' = ctx /\ state' = [state EXCEPT ![p] = "RUNNABLE"]
  <2>1. state \in [Procs -> States]
    BY Zenon DEF IInv, TypeOK
  <2>2. \A q \in Procs : \A t \in {"UNUSED", "EMBRYO", "ZOMBIE"} : state'[q] = t <=> state[q] = t
    BY <1>1, <1>4, <2>1, Zenon
  <2>3. \A q \in Procs : InWait(q)' => InWait(q) /\ killed'[q] = killed[q]
    BY <1>1, <1>4, <2>1, Zenon DEF InWait
  <2>4. \A q \in Procs : Exiting(q)' => Exiting(q) /\ ctx'[q] = ctx[q]
    BY <1>1, <1>4, <2>1, Zenon DEF Exiting
  <2>5. ctx'[Initproc] \notin {"reparent", "zombie"}
    BY <1>4, Zenon DEF FamilyInv, InitInv
  <2>. QED
    BY <1>1, <1>4, <2>2, <2>3, <2>4, <2>5, FamilyFrame, Zenon
<1>. QED
  BY Zenon, <1>2, <1>3, <1>4 DEF Timer, make_runnable

\* scheduler() giving the CPU to a process.
LEMMA ScheduleKeepsFamily ==
  ASSUME IInv, FamilyInv, NEW c \in CPUs, Schedule(c)
  PROVE  FamilyInv'
<1>1. PICK l \in Levels :
        /\ first[l] # Null /\ first[l] \in Procs /\ state[first[l]] = "RUNNABLE"
        /\ make_running(first[l]) /\ state' = [state EXCEPT ![first[l]] = "RUNNING"]
        /\ indice' = [indice EXCEPT ![c] = l] /\ proc' = [proc EXCEPT ![c] = first[l]]
        /\ mode' = [mode EXCEPT ![c] = "run"] /\ quantum' = [quantum EXCEPT ![first[l]] = 0]
        /\ Resume(c, first[l])
        /\ UNCHANGED <<panic, pid, parent, killed, nextpid, waking, child>>
  BY ScheduleTakes, Zenon
<1>. DEFINE p == first[l]
<1>2. PICK x \in {"wait", "exiting", ctx[p]} :
        /\ ctx' = [ctx EXCEPT ![p] = x] /\ x \in Contexts
        /\ x \in {"fork", "forked"} => x = ctx[p]
        /\ x \notin Interruptible => x = "wait" /\ lock' = c
        /\ x = "user" => ~(sw[p] = "yield" /\ killed[p]) /\ ctx[p] = "user"
  BY <1>1, ResumeContext, Zenon
<1>3. /\ p \in Procs /\ state[p] = "RUNNABLE" /\ state' = [state EXCEPT ![p] = "RUNNING"]
      /\ UNCHANGED <<parent, killed, child>>
      /\ x \notin {"reparent", "zombie"}
  BY <1>1, <1>2, Zenon DEF Interruptible
<1>4. /\ state \in [Procs -> States] /\ ctx \in [Procs -> Contexts]
      /\ \A q \in Procs : q # p => chan'[q] = chan[q]
  BY <1>1, Zenon DEF IInv, TypeOK, Resume
<1>. HIDE DEF p
<1>5. \A q \in Procs : \A t \in {"UNUSED", "EMBRYO", "ZOMBIE"} : state'[q] = t <=> state[q] = t
  BY <1>3, <1>4, Zenon
<1>6. \A q \in Procs : InWait(q)' => InWait(q) /\ killed'[q] = killed[q]
  BY <1>3, <1>4, Zenon DEF InWait
<1>7. \A q \in Procs : Exiting(q)' => Exiting(q) /\ ctx'[q] = ctx[q]
  BY <1>2, <1>3, <1>4, Zenon DEF Exiting
<1>8. \A q \in Procs : ctx'[q] \in {"fork", "forked"} => ctx'[q] = ctx[q] /\ child'[q] = child[q]
  BY <1>2, <1>3, <1>4, Zenon
<1>9. ctx'[Initproc] \notin {"reparent", "zombie"}
  BY <1>2, <1>3, <1>4 DEF FamilyInv, InitInv
<1>. QED
  BY <1>3, <1>5, <1>6, <1>7, <1>8, <1>9, FamilyFrame, Zenon

\* The types that the steps of fork, exit and wait need.
FamilyTypes ==
  /\ state \in [Procs -> States] /\ ctx \in [Procs -> Contexts]
  /\ parent \in [Procs -> Procs \cup {Null}] /\ child \in [Procs -> Procs \cup {Null}]
  /\ chan \in [Procs -> Chans \cup Procs \cup {Null}] /\ killed \in [Procs -> BOOLEAN]
  /\ Initproc \in Procs /\ Null \notin Procs

\* The inductive invariant of ProcProofs gives these types.
LEMMA FamilyTyped == IInv => FamilyTypes
<1>1. Initproc \in Procs /\ Null \notin Procs
  BY ProcAssumption DEF Initproc, Procs, Null
<1>. QED
  BY <1>1, Zenon DEF IInv, TypeOK, FamilyTypes

\* allocproc: the slot it takes was nobody's child.
LEMMA allocprocKeepsFamily ==
  ASSUME IInv, FamilyInv, NEW c \in CPUs, allocproc(c)
  PROVE  FamilyInv'
<1>. DEFINE p == proc[c]
<1>0. PICK np \in Procs :
        /\ state[np] = "UNUSED" /\ state' = [state EXCEPT ![np] = "EMBRYO"]
        /\ child' = [child EXCEPT ![p] = np]
  BY allocprocTakes, Zenon
<1>1. /\ p \in Procs /\ state[p] = "RUNNING"
      /\ np \in Procs /\ state[np] = "UNUSED" /\ np # p
      /\ state' = [state EXCEPT ![np] = "EMBRYO"] /\ ctx' = [ctx EXCEPT ![p] = "fork"]
      /\ child' = [child EXCEPT ![p] = np]
      /\ UNCHANGED <<parent, chan, killed>>
  <2>1. mode[c] = "run"
    BY Zenon DEF allocproc, RunsIn
  <2>2. ctx' = [ctx EXCEPT ![p] = "fork"] /\ UNCHANGED <<parent, chan, killed>>
    BY Zenon DEF allocproc
  <2>3. p \in Procs /\ state[p] = "RUNNING"
    BY <2>1, OnCpu, Zenon
  <2>. QED
    BY <1>0, <2>2, <2>3, Zenon
<1>2. FamilyTypes
  BY FamilyTyped, Zenon
<1>3. ParentAlive'
  BY <1>1, <1>2, Zenon DEF FamilyInv, ParentAlive, InUse, FamilyTypes
<1>4. WaiterHasReason'
  BY <1>1, <1>2 DEF FamilyInv, WaiterHasReason, Children, ZombieChildren, FamilyTypes
<1>5. TreeInv'
  BY <1>1, <1>2, Zenon DEF FamilyInv, TreeInv, FamilyTypes
<1>6. InitInv'
  BY <1>1, <1>2, Zenon DEF FamilyInv, InitInv, InUse, FamilyTypes
<1>7. ExitInv'
  BY <1>1, <1>2, Zenon DEF FamilyInv, ExitInv, InWait, Exiting, FamilyTypes
<1>. QED
  BY <1>3, <1>4, <1>5, <1>6, <1>7, Zenon DEF FamilyInv

\* fork's error paths: the slot goes back as nobody's child.
LEMMA ForkFailKeepsFamily ==
  ASSUME IInv, FamilyInv, NEW c \in CPUs, ForkFail(c)
  PROVE  FamilyInv'
<1>. DEFINE p == proc[c]
            np == child[p]
<1>1. /\ p \in Procs /\ ctx[p] = "fork" /\ state[p] = "RUNNING"
      /\ np \in Procs /\ state[np] = "EMBRYO" /\ np # p
      /\ state' = [state EXCEPT ![np] = "UNUSED"] /\ ctx' = [ctx EXCEPT ![p] = "kern"]
      /\ child' = [child EXCEPT ![p] = Null]
      /\ UNCHANGED <<parent, chan, killed>>
  BY Zenon DEF IInv, ForkFail, RunsIn, CpuInv, ForkInv
<1>2. FamilyTypes
  BY FamilyTyped, Zenon
<1>3. ParentAlive'
  BY <1>1, <1>2, Zenon DEF FamilyInv, ParentAlive, InUse, FamilyTypes
<1>4. WaiterHasReason'
  BY <1>1, <1>2 DEF FamilyInv, WaiterHasReason, Children, ZombieChildren, FamilyTypes
<1>5. TreeInv'
  BY <1>1, <1>2, Zenon DEF FamilyInv, TreeInv, FamilyTypes
<1>6. InitInv'
  BY <1>1, <1>2, Zenon DEF FamilyInv, InitInv, InUse, FamilyTypes
<1>7. ExitInv'
  BY <1>1, <1>2, Zenon DEF FamilyInv, ExitInv, InWait, Exiting, FamilyTypes
<1>. QED
  BY <1>3, <1>4, <1>5, <1>6, <1>7, Zenon DEF FamilyInv

\* fork making the slot its child takes it from nobody.
LEMMA ForkCopyKeepsFamily ==
  ASSUME IInv, FamilyInv, NEW c \in CPUs, ForkCopy(c)
  PROVE  FamilyInv'
<1>. DEFINE p == proc[c]
            np == child[p]
<1>1. /\ p \in Procs /\ ctx[p] = "fork" /\ state[p] = "RUNNING"
      /\ np \in Procs /\ state[np] = "EMBRYO" /\ np # p
      /\ ctx' = [ctx EXCEPT ![p] = "forked", ![np] = "user"]
      /\ parent' = [parent EXCEPT ![np] = p]
      /\ UNCHANGED <<state, child, chan, killed>>
      /\ \A q \in Procs : q # p /\ ctx[q] \in {"fork", "forked"} => child[q] # np
  BY Zenon DEF IInv, ForkCopy, RunsIn, CpuInv, ForkInv
<1>2. FamilyTypes /\ parent[np] = Null
  BY <1>1, FamilyTyped, Zenon DEF FamilyInv, TreeInv
<1>3. ParentAlive'
  BY <1>1, <1>2, Zenon DEF FamilyInv, ParentAlive, InUse, FamilyTypes
<1>4. WaiterHasReason'
  BY <1>1, <1>2 DEF FamilyInv, WaiterHasReason, Children, ZombieChildren, FamilyTypes
<1>5. TreeInv'
  BY <1>1, <1>2 DEF FamilyInv, TreeInv, FamilyTypes
<1>6. InitInv'
  BY <1>1, <1>2, Zenon DEF FamilyInv, InitInv, InUse, FamilyTypes
<1>7. ExitInv'
  BY <1>1, <1>2 DEF FamilyInv, ExitInv, InWait, Exiting, FamilyTypes
<1>. QED
  BY <1>3, <1>4, <1>5, <1>6, <1>7, Zenon DEF FamilyInv

\* fork's child comes to life with its parent running.
LEMMA ForkPublishKeepsFamily ==
  ASSUME IInv, FamilyInv, NEW c \in CPUs, ForkPublish(c)
  PROVE  FamilyInv'
<1>. DEFINE p == proc[c]
            np == child[p]
<1>1. /\ p \in Procs /\ ctx[p] = "forked" /\ state[p] = "RUNNING"
      /\ np \in Procs /\ state[np] = "EMBRYO" /\ np # p
      /\ state' = [state EXCEPT ![np] = "RUNNABLE"] /\ ctx' = [ctx EXCEPT ![p] = "kern"]
      /\ child' = [child EXCEPT ![p] = Null]
      /\ UNCHANGED <<parent, chan, killed>>
  BY Zenon DEF IInv, ForkPublish, RunsIn, CpuInv, ForkInv, make_runnable
<1>2. FamilyTypes /\ parent[np] = p
  BY <1>1, FamilyTyped, Zenon DEF FamilyInv, TreeInv
<1>3. ParentAlive'
  BY <1>1, <1>2, Zenon DEF FamilyInv, ParentAlive, InUse, FamilyTypes
<1>4. WaiterHasReason'
  BY <1>1, <1>2 DEF FamilyInv, WaiterHasReason, Children, ZombieChildren, FamilyTypes
<1>5. TreeInv'
  BY <1>1, <1>2, Zenon DEF FamilyInv, TreeInv, FamilyTypes
<1>6. InitInv'
  BY <1>1, <1>2, Zenon DEF FamilyInv, InitInv, InUse, FamilyTypes
<1>7. ExitInv'
  BY <1>1, <1>2, Zenon DEF FamilyInv, ExitInv, InWait, Exiting, FamilyTypes
<1>. QED
  BY <1>3, <1>4, <1>5, <1>6, <1>7, Zenon DEF FamilyInv

\* Who is in the locked part of exit() holds ptable.lock.
LEMMA ExitingHoldsLock ==
  ASSUME IInv, NEW p \in Procs, Exiting(p)
  PROVE  \E c \in CPUs : mode[c] = "run" /\ proc[c] = p /\ lock = c
  BY DEF IInv, CpuInv, Exiting, Interruptible

\* exit() waking its parent: the parent is not in wait() afterwards.
LEMMA ExitKeepsFamily ==
  ASSUME IInv, FamilyInv, NEW c \in CPUs, Exit(c)
  PROVE  FamilyInv'
<1>. DEFINE p == proc[c]
<1>1. /\ p \in Procs /\ state[p] = "RUNNING" /\ ctx[p] = "exiting"
      /\ UNCHANGED <<parent, chan, killed, child>>
  BY Zenon DEF IInv, CpuInv, Exit, RunsIn
<1>2. CASE p = Initproc
  <2>1. UNCHANGED <<ctx, state>>
    BY Zenon, <1>2 DEF Exit
  <2>. QED
    BY <1>1, <2>1, StillKeepsFamily, Zenon
<1>3. CASE p # Initproc
  <2>1. /\ lock = NoCpu /\ WakeParent(parent[p])
        /\ ctx' = [ctx EXCEPT ![p] = "reparent"]
    BY Zenon, <1>3 DEF Exit, acquire
  <2>2. FamilyTypes
    BY FamilyTyped, Zenon
  <2>3. Woken
    BY <2>1, WakeParentWakes, Zenon
  <2>4. /\ \A q \in Procs : \A t \in {"UNUSED", "EMBRYO", "ZOMBIE", "RUNNING"} : state'[q] = t <=> state[q] = t
        /\ \A q \in Procs : state'[q] = "SLEEPING" => state[q] = "SLEEPING"
    BY <2>3, WokenFrame, Zenon
  <2>5. ~(parent[p] \in Procs /\ state'[parent[p]] = "SLEEPING" /\ chan'[parent[p]] = parent[p])
    <3>1. CASE InWait(parent[p])
      <4>1. state' = [state EXCEPT ![parent[p]] = "RUNNABLE"]
        BY Zenon, <2>1, <3>1 DEF WakeParent, InWait, make_runnable
      <4>. QED
        BY <1>1, <2>2, <3>1, <4>1, Zenon DEF InWait, FamilyTypes
    <3>2. CASE ~InWait(parent[p])
      BY <1>1, <2>2, <2>4, <3>2, Zenon DEF InWait, FamilyTypes
    <3>. QED
      BY <3>1, <3>2, Zenon
  <2>6. \A q \in Procs : ~Exiting(q)
    BY <2>1, ExitingHoldsLock, ProcAssumption, Zenon
  <2>7. \A q \in Procs : (InUse(q)' <=> InUse(q)) /\ (state'[q] = "ZOMBIE" <=> state[q] = "ZOMBIE")
    BY <2>4, Zenon DEF InUse
  <2>8. ParentAlive'
    BY <1>1, <2>2, <2>7, Zenon DEF FamilyInv, ParentAlive, FamilyTypes
  <2>9. WaiterHasReason'
    BY <1>1, <2>2, <2>4 DEF FamilyInv, WaiterHasReason, Children, ZombieChildren, FamilyTypes
  <2>10. TreeInv'
    BY <1>1, <2>1, <2>2, <2>4, Zenon DEF FamilyInv, TreeInv, FamilyTypes
  <2>11. InitInv'
    BY <1>1, <1>3, <2>1, <2>2, <2>7, Zenon DEF FamilyInv, InitInv, FamilyTypes
  <2>12. ExitInv'
    <3>1. \A q \in Procs : Exiting(q)' => q = p /\ ctx'[q] = "reparent"
      BY <1>1, <2>1, <2>2, <2>4, <2>6, Zenon DEF Exiting, FamilyTypes
    <3>. QED
      BY <1>1, <2>5, <3>1, Zenon DEF ExitInv, InWait
  <2>. QED
    BY <2>8, <2>9, <2>10, <2>11, <2>12, Zenon DEF FamilyInv
<1>. QED
  BY <1>2, <1>3, Zenon

\* exit() passing its children to init, which it wakes for a zombie among them.
LEMMA ExitReparentKeepsFamily ==
  ASSUME IInv, FamilyInv, NEW c \in CPUs, ExitReparent(c)
  PROVE  FamilyInv'
<1>. DEFINE p == proc[c]
<1>1. /\ p \in Procs /\ state[p] = "RUNNING" /\ ctx[p] = "reparent" /\ p # Initproc /\ lock = c
      /\ parent' = [q \in Procs |-> IF parent[q] = p THEN Initproc ELSE parent[q]]
      /\ ctx' = [ctx EXCEPT ![p] = "zombie"]
      /\ UNCHANGED <<chan, killed, child>>
  BY Zenon DEF IInv, CpuInv, ExitReparent, RunsIn, FamilyInv, InitInv, Interruptible
<1>2. FamilyTypes
  BY FamilyTyped, Zenon
<1>3. Woken
  BY Zenon, WakeParentWakes, WakeNone DEF ExitReparent
<1>4. /\ \A q \in Procs : \A t \in {"UNUSED", "EMBRYO", "ZOMBIE", "RUNNING"} : state'[q] = t <=> state[q] = t
      /\ \A q \in Procs : state'[q] = "SLEEPING" => state[q] = "SLEEPING"
  BY <1>3, WokenFrame, Zenon
<1>5. ASSUME NEW q \in Procs, parent[q] = p, state[q] = "ZOMBIE"
      PROVE  ~InWait(Initproc)'
  <2>1. WakeParent(Initproc)
    BY Zenon, <1>5 DEF ExitReparent, Children
  <2>2. CASE InWait(Initproc)
    <3>1. state' = [state EXCEPT ![Initproc] = "RUNNABLE"]
      BY Zenon, <2>1, <2>2 DEF WakeParent, InWait, make_runnable
    <3>. QED
      BY <1>2, <3>1, Zenon DEF InWait, FamilyTypes
  <2>3. CASE ~InWait(Initproc)
    BY <1>1, <1>2, <1>4, <2>3, Zenon DEF InWait, FamilyTypes
  <2>. QED
    BY <2>2, <2>3, Zenon
<1>6. \A q \in Procs : (InUse(q)' <=> InUse(q)) /\ (state'[q] = "ZOMBIE" <=> state[q] = "ZOMBIE")
  BY <1>4, Zenon DEF InUse
<1>7. ParentAlive'
  BY <1>1, <1>2, <1>6, Zenon DEF FamilyInv, ParentAlive, InitInv, FamilyTypes
<1>8. WaiterHasReason'
  <2>1. SUFFICES ASSUME NEW r \in Procs, state'[r] = "SLEEPING", chan'[r] = r
                 PROVE  Children(r)' # {} /\ ZombieChildren(r)' = {} /\ ~killed'[r]
    BY Zenon DEF WaiterHasReason
  <2>2. /\ Children(r) # {} /\ ZombieChildren(r) = {} /\ ~killed[r] /\ r # p
        /\ state[r] = "SLEEPING" /\ InWait(r)'
    BY <1>1, <1>4, <2>1, Zenon DEF FamilyInv, WaiterHasReason, InWait
  <2>3. Children(r)' # {}
    BY <1>1, <1>2, <2>2, Zenon DEF Children, FamilyTypes
  <2>4. ASSUME NEW q \in Procs, parent'[q] = r, state'[q] = "ZOMBIE"
        PROVE  FALSE
    <3>1. state[q] = "ZOMBIE" /\ parent[q] # r
      BY <1>4, <2>2, <2>4, Zenon DEF Children, ZombieChildren
    <3>2. parent[q] = p /\ r = Initproc
      BY <1>1, <1>2, <2>4, <3>1, Zenon DEF FamilyTypes
    <3>. QED
      BY <1>5, <2>2, <3>1, <3>2, Zenon
  <2>. QED
    BY <1>1, <2>2, <2>3, <2>4, Zenon DEF Children, ZombieChildren
<1>9. TreeInv'
  <2>1. \A q \in Procs : ctx'[q] \in {"fork", "forked"} =>
          q # p /\ ctx[q] = ctx'[q] /\ child[q] \in Procs /\ child'[q] = child[q]
    BY <1>1, <1>2, Zenon DEF IInv, ForkInv, FamilyTypes
  <2>. QED
    BY <1>1, <1>2, <1>4, <2>1 DEF FamilyInv, TreeInv, InitInv, FamilyTypes
<1>10. InitInv'
  BY <1>1, <1>2, <1>6, Zenon DEF FamilyInv, InitInv, FamilyTypes
<1>11. ExitInv'
  <2>1. \A q \in Procs : Exiting(q) => q = p
    BY <1>1, ExitingHoldsLock, Zenon
  <2>2. \A q \in Procs : Exiting(q)' => q = p
    BY <1>1, <1>2, <1>4, <2>1, Zenon DEF Exiting, FamilyTypes
  <2>3. parent'[p] = parent[p] /\ ~InWait(parent[p])
    BY <1>1, <1>2, Zenon DEF FamilyInv, TreeInv, ExitInv, Exiting, FamilyTypes
  <2>4. ~(parent[p] \in Procs /\ state'[parent[p]] = "SLEEPING" /\ chan'[parent[p]] = parent[p])
    BY <1>1, <1>4, <2>3, Zenon DEF InWait
  <2>5. \A q \in Procs : parent'[q] # p
    BY <1>1, <1>2, Zenon DEF FamilyTypes
  <2>. QED
    BY <2>2, <2>3, <2>4, <2>5, Zenon DEF ExitInv, InWait
<1>. QED
  BY <1>7, <1>8, <1>9, <1>10, <1>11, Zenon DEF FamilyInv

\* exit() becoming a zombie: it has no children, and its parent is awake.
LEMMA ExitSchedKeepsFamily ==
  ASSUME IInv, FamilyInv, NEW c \in CPUs, ExitSched(c)
  PROVE  FamilyInv'
<1>. DEFINE p == proc[c]
<1>1. /\ p \in Procs /\ state[p] = "RUNNING" /\ ctx[p] = "zombie" /\ p # Initproc
      /\ state' = [state EXCEPT ![p] = "ZOMBIE"]
      /\ UNCHANGED <<parent, chan, killed, child, ctx>>
  BY ZenonT(40) DEF IInv, CpuInv, ExitSched, RunsIn, FamilyInv, InitInv, flow
<1>2. FamilyTypes /\ ~InWait(parent[p]) /\ \A q \in Procs : parent[q] # p
  BY <1>1, FamilyTyped, Zenon DEF FamilyInv, ExitInv, Exiting
<1>3. ParentAlive'
  BY <1>1, <1>2, Zenon DEF FamilyInv, ParentAlive, InUse, FamilyTypes
<1>4. WaiterHasReason'
  BY <1>1, <1>2 DEF FamilyInv, WaiterHasReason, InWait, Children, ZombieChildren, FamilyTypes
<1>5. TreeInv'
  BY <1>1, <1>2, Zenon DEF FamilyInv, TreeInv, FamilyTypes
<1>6. InitInv'
  BY <1>1, <1>2, Zenon DEF FamilyInv, InitInv, InUse, FamilyTypes
<1>7. ExitInv'
  BY <1>1, <1>2, Zenon DEF FamilyInv, ExitInv, InWait, Exiting, FamilyTypes
<1>. QED
  BY <1>3, <1>4, <1>5, <1>6, <1>7, Zenon DEF FamilyInv

\* wait() freeing a zombie child: it is nobody's parent.
LEMMA WaitReapKeepsFamily ==
  ASSUME IInv, FamilyInv, NEW c \in CPUs, WaitReap(c)
  PROVE  FamilyInv'
<1>. DEFINE p == proc[c]
<1>0. PICK z \in Procs :
        /\ parent[z] = p /\ state[z] = "ZOMBIE" /\ state' = [state EXCEPT ![z] = "UNUSED"]
        /\ parent' = [parent EXCEPT ![z] = Null] /\ killed' = [killed EXCEPT ![z] = FALSE]
  BY WaitReapTakes, Zenon
<1>1. /\ p \in Procs /\ state[p] = "RUNNING"
      /\ z \in Procs /\ state[z] = "ZOMBIE" /\ parent[z] = p
      /\ state' = [state EXCEPT ![z] = "UNUSED"] /\ ctx' = [ctx EXCEPT ![p] = "kern"]
      /\ parent' = [parent EXCEPT ![z] = Null] /\ killed' = [killed EXCEPT ![z] = FALSE]
      /\ UNCHANGED <<chan, child>>
  <2>1. mode[c] = "run"
    BY Zenon DEF WaitReap, Scans, RunsIn
  <2>2. ctx' = [ctx EXCEPT ![p] = "kern"] /\ UNCHANGED <<chan, child>>
    BY Zenon DEF WaitReap
  <2>3. p \in Procs /\ state[p] = "RUNNING"
    BY <2>1, OnCpu, Zenon
  <2>. QED
    BY <1>0, <2>2, <2>3, Zenon
<1>2. FamilyTypes
  BY FamilyTyped, Zenon
<1>3. ParentAlive'
  BY <1>1, <1>2, Zenon DEF FamilyInv, ParentAlive, InUse, FamilyTypes
<1>4. WaiterHasReason'
  BY <1>1, <1>2 DEF FamilyInv, WaiterHasReason, Children, ZombieChildren, FamilyTypes
<1>5. TreeInv'
  <2>1. \A q \in Procs : ctx'[q] \in {"fork", "forked"} =>
          ctx[q] = ctx'[q] /\ child[q] \in Procs /\ child[q] # z /\ child'[q] = child[q]
    BY <1>1, <1>2, Zenon DEF IInv, ForkInv, FamilyTypes
  <2>. QED
    BY <1>1, <1>2, <2>1 DEF FamilyInv, TreeInv, FamilyTypes
<1>6. InitInv'
  BY <1>1, <1>2, Zenon DEF FamilyInv, InitInv, InUse, FamilyTypes
<1>7. ExitInv'
  BY <1>1, <1>2 DEF FamilyInv, ExitInv, InWait, Exiting, FamilyTypes
<1>. QED
  BY <1>3, <1>4, <1>5, <1>6, <1>7, Zenon DEF FamilyInv

\* wait() going to sleep: nobody is in the locked part of exit() then.
LEMMA WaitSleepKeepsFamily ==
  ASSUME IInv, FamilyInv, NEW c \in CPUs, WaitSleep(c)
  PROVE  FamilyInv'
<1>. DEFINE p == proc[c]
<1>1. /\ p \in Procs /\ state[p] = "RUNNING" /\ ctx[p] \in {"kern", "wait"} /\ lock \in {c, NoCpu}
      /\ Children(p) # {} /\ ZombieChildren(p) = {} /\ ~killed[p]
      /\ state' = [state EXCEPT ![p] = "SLEEPING"] /\ ctx' = [ctx EXCEPT ![p] = "kern"]
      /\ chan' = [chan EXCEPT ![p] = p]
      /\ UNCHANGED <<parent, child, killed>>
  BY Zenon DEF IInv, WaitSleep, RunsIn, CpuInv, Scans
<1>2. FamilyTypes
  BY FamilyTyped, Zenon
<1>3. ParentAlive'
  BY <1>1, <1>2, Zenon DEF FamilyInv, ParentAlive, InUse, FamilyTypes
<1>4. WaiterHasReason'
  BY <1>1, <1>2 DEF FamilyInv, WaiterHasReason, Children, ZombieChildren, FamilyTypes
<1>5. TreeInv'
  BY <1>1, <1>2, Zenon DEF FamilyInv, TreeInv, FamilyTypes
<1>6. InitInv'
  BY <1>1, <1>2, Zenon DEF FamilyInv, InitInv, InUse, FamilyTypes
<1>7. ExitInv'
  <2>1. \A q \in Procs : ~Exiting(q)
    BY <1>1, ExitingHoldsLock, ProcAssumption DEF Exiting
  <2>. QED
    BY <1>1, <1>2, <2>1, Zenon DEF ExitInv, Exiting, FamilyTypes
<1>. QED
  BY <1>3, <1>4, <1>5, <1>6, <1>7, Zenon DEF FamilyInv

-----------------------------------------------------------------------------
\* The initial table has one process, init.
LEMMA InitFamily == Init => FamilyInv
<1>. SUFFICES ASSUME Init PROVE FamilyInv
  BY Zenon
<1>1. Initproc \in Procs /\ Null \notin Procs
  BY ProcAssumption DEF Initproc, Procs, Null
<1>. QED
  BY <1>1, Zenon DEF Init, FamilyInv, ParentAlive, WaiterHasReason, TreeInv, InitInv, ExitInv, InUse,
     Exiting

\* Every step of the machine keeps the families.
LEMMA NextFamily == IInv /\ FamilyInv /\ [Next]_vars => FamilyInv'
<1>. SUFFICES ASSUME IInv, FamilyInv, [Next]_vars PROVE FamilyInv'
  BY Zenon
<1>1. CASE UNCHANGED vars
  BY <1>1, StillKeepsFamily, Zenon DEF vars, flow
<1>2. ASSUME NEW c \in CPUs, SchedStep(c)
      PROVE  FamilyInv'
  BY <1>2, ScheduleKeepsFamily, QuietKeepsFamily, wakeupKeepsFamily, Zenon DEF SchedStep
<1>3. ASSUME NEW c \in CPUs, KernelStep(c)
      PROVE  FamilyInv'
  BY <1>3, ControlKeepsFamily, ForkFailKeepsFamily, ForkCopyKeepsFamily, ForkPublishKeepsFamily,
     ExitKeepsFamily, ExitReparentKeepsFamily, ExitSchedKeepsFamily, WaitReapKeepsFamily,
     WaitSleepKeepsFamily DEF KernelStep
<1>4. ASSUME NEW c \in CPUs, Request(c)
      PROVE  FamilyInv'
  <2>1. \A n \in KillArgs : n \in Int
    BY ProcAssumption, Zenon
  <2>. QED
    BY <1>4, <2>1, ControlKeepsFamily, QuietKeepsFamily, allocprocKeepsFamily, WaitReapKeepsFamily,
       WaitSleepKeepsFamily, sleepKeepsFamily, wakeupKeepsFamily, killKeepsFamily DEF Request
<1>. QED
  BY <1>1, <1>2, <1>3, <1>4, TimerKeepsFamily, Zenon DEF Next, Running, Halted

\* The families are as they should be in every reachable state.
THEOREM FamilyInvariance == Spec => [](IInv /\ FamilyInv)
<1>. QED
  BY InitKeeps, InitFamily, NextKeeps, NextFamily, PTL DEF Spec

\* Somebody can reap every process: fork, exit's passing of children to init,
\* and wait leave each process in use, init aside, a parent that is alive.
THEOREM ParentsAreAlive == Spec => []ParentAlive
<1>1. IInv /\ FamilyInv => ParentAlive
  BY Zenon DEF FamilyInv
<1>. QED
  BY <1>1, FamilyInvariance, PTL

\* No exit and no kill is missed by a process asleep in wait().
THEOREM WaitersHaveReason == Spec => []WaiterHasReason
<1>1. IInv /\ FamilyInv => WaiterHasReason
  BY Zenon DEF FamilyInv
<1>. QED
  BY <1>1, FamilyInvariance, PTL

-----------------------------------------------------------------------------
(* Killed processes *)

\* A step in which no process gets to user space, nor a CPU.
NobodyUp ==
  \A p \in Procs : /\ ctx'[p] = "user" => ctx[p] = "user"
                   /\ state'[p] = "RUNNING" => state[p] = "RUNNING"

\* All steps but those of scheduler(), fork and the return of a system call are
\* of this kind.
LEMMA MostStepsNobodyUp ==
  ASSUME IInv, NEW c \in CPUs,
         \/ ScheduleRest(c) \/ Timer(c) \/ Syscall(c) \/ Fault(c) \/ ExitCall(c) \/ allocproc(c)
         \/ ForkFail(c) \/ ForkPublish(c) \/ Exit(c) \/ ExitReparent(c) \/ ExitSched(c)
         \/ WaitReap(c) \/ WaitNone(c) \/ WaitSleep(c)
         \/ \E x \in PriorityArgs : set_priority(c, x)
         \/ \E ch \in Chans : sleep(c, ch) \/ wakeup(c, ch)
         \/ \E n \in KillArgs : kill(c, n)
  PROVE  NobodyUp
<1>1. state \in [Procs -> States] /\ ctx \in [Procs -> Contexts]
  BY Zenon DEF IInv, TypeOK
<1>2. CASE \/ ScheduleRest(c) \/ Syscall(c) \/ Fault(c) \/ ExitCall(c)
           \/ WaitNone(c) \/ WaitSleep(c) \/ ExitSched(c)
           \/ \E x \in PriorityArgs : set_priority(c, x)
           \/ \E ch \in Chans : sleep(c, ch)
  <2>1. CASE ScheduleRest(c) \/ \E x \in PriorityArgs : set_priority(c, x)
    BY <2>1, Zenon DEF NobodyUp, ScheduleRest, set_priority, flow
  <2>2. CASE Syscall(c) \/ Fault(c) \/ ExitCall(c) \/ WaitNone(c)
    BY <1>1, <2>2, Zenon DEF NobodyUp, Syscall, Fault, ExitCall, WaitNone, Toward
  <2>3. CASE WaitSleep(c) \/ ExitSched(c) \/ \E ch \in Chans : sleep(c, ch)
    BY <1>1, <2>3, Zenon DEF NobodyUp, WaitSleep, ExitSched, sleep, flow
  <2>. QED
    BY <1>2, <2>1, <2>2, <2>3, Zenon
<1>3. CASE allocproc(c) \/ ForkFail(c) \/ WaitReap(c)
  BY <1>1, <1>3, Zenon DEF NobodyUp, allocproc, ForkFail, WaitReap
<1>4. CASE ForkPublish(c) \/ (\E ch \in Chans : wakeup(c, ch)) \/ (\E n \in KillArgs : kill(c, n))
  BY <1>1, <1>4, Zenon DEF NobodyUp, ForkPublish, wakeup, kill, make_runnable, flow
<1>5. CASE Timer(c)
  BY <1>1, <1>5, Zenon DEF NobodyUp, Timer, make_runnable
<1>6. CASE Exit(c) \/ ExitReparent(c)
  BY <1>1, <1>6, Zenon DEF NobodyUp, Exit, ExitReparent, WakeParent, make_runnable
<1>. QED
  BY <1>2, <1>3, <1>4, <1>5, <1>6, Zenon

\* What KilledStaysOut says of one step.
StaysOut ==
  \A p \in Procs :
    killed[p] /\ (sw[p] = "yield" \/ ctx[p] # "user") /\ state'[p] = "RUNNING" => ctx'[p] # "user"

\* A process on a CPU is not on its way back from yield().
LEMMA NobodyUpStaysOut ==
  ASSUME IInv, NobodyUp
  PROVE  StaysOut
<1>1. \A p \in Procs : state[p] = "RUNNING" => sw[p] = "none"
  BY RunningNotSwitched, Zenon
<1>. QED
  BY <1>1, Zenon DEF NobodyUp, StaysOut

\* The return of a system call tests proc->killed.
LEMMA SyscallReturnStaysOut ==
  ASSUME IInv, NEW c \in CPUs, SyscallReturn(c)
  PROVE  StaysOut
<1>1. /\ ctx \in [Procs -> Contexts] /\ proc[c] \in Procs
      /\ \A p \in Procs : state[p] = "RUNNING" => sw[p] = "none"
  <2>1. mode[c] = "run" /\ ctx \in [Procs -> Contexts]
    BY Zenon DEF IInv, TypeOK, SyscallReturn, RunsIn
  <2>. QED
    BY <2>1, OnCpu, RunningNotSwitched, Zenon
<1>. QED
  BY <1>1, Zenon DEF SyscallReturn, StaysOut, Toward

\* fork sends its child to user space while it is an EMBRYO.
LEMMA ForkCopyStaysOut ==
  ASSUME IInv, NEW c \in CPUs, ForkCopy(c)
  PROVE  StaysOut
<1>. DEFINE p == proc[c]
            np == child[p]
<1>1. /\ ctx' = [ctx EXCEPT ![p] = "forked", ![np] = "user"] /\ UNCHANGED state
      /\ ctx \in [Procs -> Contexts] /\ state[np] = "EMBRYO" /\ np \in Procs
      /\ \A q \in Procs : state[q] = "RUNNING" => sw[q] = "none"
  <2>1. /\ ctx' = [ctx EXCEPT ![p] = "forked", ![np] = "user"] /\ UNCHANGED state
        /\ RunsIn(c, "fork") /\ ctx \in [Procs -> Contexts]
    BY Zenon DEF IInv, TypeOK, ForkCopy
  <2>. QED
    BY <2>1, ForkedChild, RunningNotSwitched, Zenon
<1>. QED
  BY <1>1, Zenon DEF StaysOut

\* scheduler() returns a killed process from yield() to exit().
LEMMA ScheduleStaysOut ==
  ASSUME IInv, NEW c \in CPUs, Schedule(c)
  PROVE  StaysOut
<1>1. PICK l \in Levels :
        /\ first[l] # Null /\ first[l] \in Procs /\ state[first[l]] = "RUNNABLE"
        /\ make_running(first[l]) /\ state' = [state EXCEPT ![first[l]] = "RUNNING"]
        /\ indice' = [indice EXCEPT ![c] = l] /\ proc' = [proc EXCEPT ![c] = first[l]]
        /\ mode' = [mode EXCEPT ![c] = "run"] /\ quantum' = [quantum EXCEPT ![first[l]] = 0]
        /\ Resume(c, first[l])
        /\ UNCHANGED <<panic, pid, parent, killed, nextpid, waking, child>>
  BY ScheduleTakes, Zenon
<1>. DEFINE p == first[l]
<1>2. PICK x \in {"wait", "exiting", ctx[p]} :
        /\ ctx' = [ctx EXCEPT ![p] = x] /\ x \in Contexts
        /\ x \in {"fork", "forked"} => x = ctx[p]
        /\ x \notin Interruptible => x = "wait" /\ lock' = c
        /\ x = "user" => ~(sw[p] = "yield" /\ killed[p]) /\ ctx[p] = "user"
  BY <1>1, ResumeContext, Zenon
<1>3. /\ state \in [Procs -> States] /\ ctx \in [Procs -> Contexts]
      /\ \A q \in Procs : state[q] = "RUNNING" => sw[q] = "none"
  BY DEF IInv, TypeOK, CpuInv
<1>. QED
  BY <1>1, <1>2, <1>3, Zenon DEF StaysOut

\* So no step takes a killed process back to user space.
LEMMA NextStaysOut == IInv /\ [Next]_vars => [StaysOut]_vars
<1>. SUFFICES ASSUME IInv, NEW c \in CPUs, SchedStep(c) \/ KernelStep(c) \/ Request(c) \/ Timer(c)
              PROVE  StaysOut
  BY Zenon DEF Next, Running, Halted
<1>1. CASE Schedule(c) \/ SyscallReturn(c) \/ ForkCopy(c)
  BY <1>1, ScheduleStaysOut, SyscallReturnStaysOut, ForkCopyStaysOut, Zenon
<1>2. CASE ~(Schedule(c) \/ SyscallReturn(c) \/ ForkCopy(c))
  BY <1>2, MostStepsNobodyUp, NobodyUpStaysOut, Zenon DEF SchedStep, KernelStep, Request
<1>. QED
  BY <1>1, <1>2, Zenon

\* A process marked killed does not go back to user space from a system call or
\* an interrupt, whatever the CPUs do in between (trap.c:99-117).
THEOREM KilledStayOut == Spec => KilledStaysOut
<1>1. IInv /\ [Next]_vars => [StaysOut]_vars
  BY NextStaysOut, Zenon
<1>2. [][StaysOut]_vars => KilledStaysOut
  BY PTL DEF StaysOut, KilledStaysOut
<1>. QED
  BY <1>1, <1>2, Invariance, PTL DEF Spec

-----------------------------------------------------------------------------
(* Refinement of Mlfq *)

\* What Links reads at position i of the queue of level l, when it has read a.
LinkAt(l, a, i) == IF i = 1 THEN first[l] ELSE IF a[i - 1] = Null THEN Null ELSE next[a[i - 1]]
Reads(l, n, a) == a = [i \in 1 .. n |-> LinkAt(l, a, i)]

\* A set of numbers has a least one.
LEMMA LeastMember ==
  ASSUME NEW S \in SUBSET Nat, S # {}
  PROVE  \E m \in S : \A y \in S : m <= y
<1>1. PICK m \in S : \A y \in S : ~ (<<y, m>> \in OpToRel(<, Nat))
  BY NatLessThanWellFounded, WFMin, Zenon
<1>2. \A y \in S : <<y, m>> \in OpToRel(<, Nat) <=> y < m
  BY Zenon DEF OpToRel
<1>3. \A y \in S : ~(y < m)
  BY <1>1, <1>2, Zenon
<1>. QED
  BY <1>3

\* The pointers of a level determine what is read along them.
LEMMA LinksUnique ==
  ASSUME NEW l, NEW n \in Nat, NEW a, NEW b, Reads(l, n, a), Reads(l, n, b)
  PROVE  a = b
<1>. DEFINE S == {i \in 1 .. n : a[i] # b[i]}
<1>1. ASSUME S # {} PROVE FALSE
  <2>1. S \in SUBSET Nat
    OBVIOUS
  <2>2. PICK m \in S : \A y \in S : m <= y
    BY <1>1, <2>1, LeastMember, Zenon
  <2>3. m \in 1 .. n /\ a[m] = LinkAt(l, a, m) /\ b[m] = LinkAt(l, b, m)
    BY <2>2, Zenon DEF Reads
  <2>4. m # 1
    BY <2>2, <2>3, Zenon DEF LinkAt
  <2>5. m - 1 \in 1 .. n /\ ~(m <= m - 1)
    BY <2>3, <2>4
  <2>6. a[m - 1] = b[m - 1]
    BY <2>2, <2>5, Zenon
  <2>. QED
    BY <2>2, <2>3, <2>4, <2>6, Zenon DEF LinkAt
<1>2. \A i \in 1 .. n : a[i] = b[i]
  BY <1>1, Zenon
<1>3. a = [i \in 1 .. n |-> a[i]] /\ b = [i \in 1 .. n |-> b[i]]
  BY Zenon DEF Reads
<1>. QED
  BY <1>2, <1>3, Zenon

\* While the queues are intact, the pointers spell the order of arrival.
LEMMA LinksAreOrder ==
  ASSUME TypeOK, QueuesIntact, NEW l \in Levels
  PROVE  Links(l) = order[l]
<1>. DEFINE q == order[l]
            n == size[l]
<1>1. q \in Seq(Procs) /\ Len(q) \in Nat /\ n = Len(q) /\ Null \notin Procs
  BY ProcAssumption DEF TypeOK, QueuesIntact, Linked, Null, Procs
<1>2. Reads(l, n, q)
  <2>1. ASSUME NEW i \in 1 .. n PROVE q[i] = LinkAt(l, q, i)
    <3>1. CASE i = 1
      BY <1>1, <3>1, EmptySeq DEF LinkAt, QueuesIntact, Linked
    <3>2. CASE i # 1
      <4>1. i - 1 \in 1 .. Len(q) - 1 /\ i - 1 \in 1 .. Len(q) /\ i - 1 + 1 = i
        BY <1>1, <3>2
      <4>2. next[q[i - 1]] = q[i - 1 + 1]
        BY <4>1, Zenon DEF QueuesIntact, Linked
      <4>3. q[i - 1] \in Procs
        BY <1>1, <4>1, ElementOfSeq, Zenon
      <4>. QED
        BY <1>1, <3>2, <4>1, <4>2, <4>3, Zenon DEF LinkAt
    <3>. QED
      BY <3>1, <3>2, Zenon
  <2>2. q = [i \in 1 .. n |-> q[i]]
    BY <1>1
  <2>. QED
    BY <2>1, <2>2, Zenon DEF Reads
<1>3. Links(l) = CHOOSE a : Reads(l, n, a)
  BY Zenon DEF Links, Reads, LinkAt
<1>. HIDE DEF q, n
<1>4. Reads(l, n, Links(l))
  BY <1>2, <1>3, Zenon
<1>5. n \in Nat
  BY <1>1, Zenon
<1>6. Links(l) = q
  BY Zenon, <1>2, <1>4, <1>5, LinksUnique
<1>. QED
  BY <1>6, Zenon DEF q

\* What Mlfq sees of the table: the states and the order of every level.
LEMMA AbstractQueues == IInv => [l \in Levels |-> Links(l)] = order
<1>. SUFFICES ASSUME IInv PROVE [l \in Levels |-> Links(l)] = order
  BY Zenon
<1>1. order = [l \in Levels |-> order[l]]
  BY Zenon DEF IInv, TypeOK
<1>2. \A l \in Levels : Links(l) = order[l]
  BY LinksAreOrder, Zenon DEF IInv
<1>. QED
  BY <1>1, <1>2, Zenon

\* The steps of Mlfq, with the order of arrival as its queues.
Moves(p, from, to) == state[p] \in from /\ state' = [state EXCEPT ![p] = to]
Steps ==
  \/ \E p \in Procs : /\ \/ Moves(p, {"UNUSED"}, "EMBRYO") \/ Moves(p, {"EMBRYO"}, "UNUSED")
                         \/ Moves(p, {"RUNNING"}, "SLEEPING") \/ Moves(p, {"RUNNING"}, "ZOMBIE")
                         \/ Moves(p, {"ZOMBIE"}, "UNUSED")
                      /\ UNCHANGED order
  \/ \E p \in Procs, l \in Levels :
       /\ Moves(p, {"EMBRYO", "RUNNING", "SLEEPING"}, "RUNNABLE")
       /\ order' = [order EXCEPT ![l] = Append(@, p)]
  \/ \E l \in Levels :
       /\ order[l] # <<>>
       /\ Moves(Head(order[l]), {"RUNNABLE"}, "RUNNING")
       /\ order' = [order EXCEPT ![l] = Tail(@)]
  \/ UNCHANGED <<state, order>>

\* make_runnable joins the tail of a level.
LEMMA ReadySteps ==
  ASSUME NEW p \in Procs, NEW l \in Levels, make_runnable(p, l),
         state[p] \in {"EMBRYO", "RUNNING", "SLEEPING"}
  PROVE  Steps
  BY Zenon DEF Steps, Moves, make_runnable, encolar

\* Steps that leave the table and the queues alone.
LEMMA QuietSteps ==
  ASSUME UNCHANGED <<state, queues>>
  PROVE  Steps
  BY Zenon DEF Steps, queues

\* scheduler() runs the head of a level.
LEMMA ScheduleSteps ==
  ASSUME IInv, NEW c \in CPUs, Schedule(c)
  PROVE  Steps
<1>1. PICK l \in Levels :
        /\ first[l] # Null /\ first[l] \in Procs /\ state[first[l]] = "RUNNABLE"
        /\ make_running(first[l]) /\ state' = [state EXCEPT ![first[l]] = "RUNNING"]
        /\ indice' = [indice EXCEPT ![c] = l] /\ proc' = [proc EXCEPT ![c] = first[l]]
        /\ mode' = [mode EXCEPT ![c] = "run"] /\ quantum' = [quantum EXCEPT ![first[l]] = 0]
        /\ Resume(c, first[l])
        /\ UNCHANGED <<panic, pid, parent, killed, nextpid, waking, child>>
  BY ScheduleTakes, Zenon
<1>2. order[l] \in Seq(Procs) /\ order[l] # <<>> /\ first[l] = order[l][1]
  BY <1>1, Zenon DEF IInv, TypeOK, QueuesIntact, Linked
<1>3. first[l] = Head(order[l]) /\ Len(order[l]) \in Nat \ {0}
  BY <1>2, EmptySeq, HeadTailProperties
<1>4. level[first[l]] = l
  BY <1>2, <1>3, EndsAreIndices DEF IInv, QueuesIntact, Queued
<1>5. order' = [order EXCEPT ![l] = Tail(@)]
  BY Zenon, <1>1, <1>4 DEF make_running, desencolar
<1>. QED
  BY <1>1, <1>2, <1>3, <1>5, Zenon DEF Steps, Moves

\* A slot changes its state as the life cycle says.
LEMMA MoveSteps ==
  ASSUME IInv, NEW c \in CPUs,
         \/ allocproc(c) \/ ForkFail(c) \/ ExitSched(c) \/ WaitReap(c) \/ WaitSleep(c)
         \/ \E ch \in Chans : sleep(c, ch)
  PROVE  Steps
<1>1. CASE allocproc(c)
  <2>1. PICK np \in Procs : state[np] = "UNUSED" /\ state' = [state EXCEPT ![np] = "EMBRYO"]
    BY <1>1, allocprocTakes, Zenon
  <2>2. UNCHANGED order
    BY <1>1, Zenon DEF allocproc, queues
  <2>. QED
    BY <2>1, <2>2, Zenon DEF Steps, Moves
<1>2. CASE WaitReap(c)
  <2>1. PICK z \in Procs : state[z] = "ZOMBIE" /\ state' = [state EXCEPT ![z] = "UNUSED"]
    BY <1>2, WaitReapTakes, Zenon
  <2>2. UNCHANGED order
    BY <1>2, Zenon DEF WaitReap, queues
  <2>. QED
    BY <2>1, <2>2, Zenon DEF Steps, Moves
<1>3. CASE ForkFail(c)
  <2>1. RunsIn(c, "fork") /\ state' = [state EXCEPT ![child[proc[c]]] = "UNUSED"] /\ UNCHANGED order
    BY <1>3, Zenon DEF ForkFail, queues
  <2>2. child[proc[c]] \in Procs /\ state[child[proc[c]]] = "EMBRYO"
    BY <2>1, ForkedChild, Zenon
  <2>. QED
    BY <2>1, <2>2, Zenon DEF Steps, Moves
<1>4. CASE ExitSched(c) \/ WaitSleep(c) \/ \E ch \in Chans : sleep(c, ch)
  <2>1. proc[c] \in Procs /\ state[proc[c]] = "RUNNING"
    <3>1. mode[c] = "run"
      BY ZenonT(40), <1>4 DEF ExitSched, WaitSleep, sleep, RunsIn, Scans
    <3>. QED
      BY <3>1, OnCpu, Zenon
  <2>2. \E t \in {"ZOMBIE", "SLEEPING"} : state' = [state EXCEPT ![proc[c]] = t] /\ UNCHANGED order
    BY Zenon, <1>4 DEF ExitSched, WaitSleep, sleep, queues
  <2>. QED
    BY <2>1, <2>2, Zenon DEF Steps, Moves
<1>. QED
  BY <1>1, <1>2, <1>3, <1>4, Zenon

\* A process becomes RUNNABLE by joining the tail of a level.
LEMMA WakeSteps ==
  ASSUME IInv, NEW c \in CPUs,
         \/ ForkPublish(c) \/ Exit(c) \/ ExitReparent(c) \/ Timer(c)
         \/ \E ch \in Chans : wakeup(c, ch)
         \/ \E n \in KillArgs : kill(c, n)
  PROVE  Steps
<1>0. \A p \in Procs : up(p) \in Levels /\ down(p) \in Levels /\ level[p] \in Levels
  BY UpDownLevels, Zenon DEF IInv, TypeOK
<1>1. CASE ForkPublish(c)
  <2>1. proc[c] \in Procs /\ child[proc[c]] \in Procs /\ state[child[proc[c]]] = "EMBRYO"
    <3>1. RunsIn(c, "forked")
      BY <1>1, Zenon DEF ForkPublish
    <3>. QED
      BY <3>1, ForkedChild, Zenon
  <2>2. 0 \in Levels /\ make_runnable(child[proc[c]], 0)
    BY <1>1, ProcAssumption DEF ForkPublish, Levels
  <2>. QED
    BY Zenon, <2>1, <2>2, ReadySteps
<1>2. ASSUME NEW q, WakeParent(q) PROVE Steps
  <2>1. CASE q \in Procs /\ state[q] = "SLEEPING" /\ make_runnable(q, up(q))
    BY Zenon, <1>0, <2>1, ReadySteps
  <2>2. CASE UNCHANGED <<queues, level, state>>
    BY <2>2, QuietSteps, Zenon
  <2>. QED
    BY ZenonT(40), <1>2, <2>1, <2>2 DEF WakeParent
<1>3. CASE Exit(c) \/ ExitReparent(c)
  <2>1. (\E q : WakeParent(q)) \/ UNCHANGED <<state, queues>>
    BY ZenonT(40), <1>3 DEF Exit, ExitReparent
  <2>. QED
    BY <1>2, <2>1, QuietSteps, Zenon
<1>4. CASE Timer(c)
  <2>1. proc[c] \in Procs /\ state[proc[c]] = "RUNNING"
    <3>1. mode[c] = "run"
      BY ZenonT(40), <1>4 DEF Timer
    <3>. QED
      BY <3>1, OnCpu, Zenon
  <2>2. make_runnable(proc[c], down(proc[c])) \/ UNCHANGED <<state, queues>>
    BY ZenonT(40), <1>4 DEF Timer
  <2>. QED
    BY Zenon, <1>0, <2>1, <2>2, ReadySteps, QuietSteps
<1>5. ASSUME NEW ch \in Chans, wakeup(c, ch) PROVE Steps
  <2>1. PICK q \in Sleepers(ch) : make_runnable(q, up(q))
    BY <1>5, wakeupTakes, Zenon
  <2>2. q \in Procs /\ state[q] = "SLEEPING"
    BY Zenon DEF Sleepers
  <2>. QED
    BY Zenon, <1>0, <2>1, <2>2, ReadySteps
<1>6. ASSUME NEW n \in KillArgs, kill(c, n) PROVE Steps
  <2>1. PICK q \in Procs : \/ state[q] = "SLEEPING" /\ make_runnable(q, level[q])
                          \/ UNCHANGED <<queues, level, state>>
    BY <1>6, killTakes, Zenon
  <2>2. CASE UNCHANGED <<queues, level, state>>
    BY <2>2, QuietSteps, Zenon
  <2>3. CASE state[q] = "SLEEPING" /\ make_runnable(q, level[q])
    BY <1>0, <2>3, ReadySteps, Zenon
  <2>. QED
    BY <2>1, <2>2, <2>3, Zenon
<1>. QED
  BY <1>1, <1>3, <1>4, <1>5, <1>6, Zenon

\* Every step of the machine is one of Mlfq, or invisible to it.
LEMMA NextSteps == IInv /\ [Next]_vars => Steps
<1>1. ASSUME UNCHANGED vars PROVE Steps
  BY <1>1, QuietSteps, Zenon DEF vars
<1>2. ASSUME IInv, NEW c \in CPUs,
             \/ ScheduleRest(c) \/ Syscall(c) \/ Fault(c) \/ ExitCall(c) \/ WaitNone(c)
             \/ SyscallReturn(c) \/ ForkCopy(c)
             \/ \E x \in PriorityArgs : set_priority(c, x)
      PROVE  Steps
  <2>1. UNCHANGED <<state, queues>>
    BY Zenon, <1>2 DEF ScheduleRest, Syscall, Fault, ExitCall, WaitNone, SyscallReturn, ForkCopy,
       set_priority
  <2>. QED
    BY <2>1, QuietSteps, Zenon
<1>3. ASSUME IInv, NEW c \in CPUs, SchedStep(c) \/ KernelStep(c) \/ Request(c) \/ Timer(c)
      PROVE  Steps
  BY <1>2, <1>3, ScheduleSteps, MoveSteps, WakeSteps, Zenon DEF SchedStep, KernelStep, Request
<1>. QED
  BY <1>1, <1>3, Zenon DEF Next, Running, Halted

\* Such a step, read through the pointers, is a step of Mlfq.
LEMMA StepsRefine ==
  ASSUME [l \in Levels |-> Links(l)] = order,
         ([l \in Levels |-> Links(l)] = order)',
         Steps
  PROVE  [Abstract!Next]_(Abstract!vars)
<1>. DEFINE Q == [l \in Levels |-> Links(l)]
<1>1. Q = order /\ Q' = order'
  BY Zenon
<1>. HIDE DEF Q
<1>2. Abstract!Next \/ UNCHANGED <<state, Q>>
  BY <1>1, Zenon DEF Steps, Moves, Abstract!Next, Abstract!Create, Abstract!Abandon, Abstract!Sleep,
     Abstract!Exit, Abstract!Reap, Abstract!Ready, Abstract!Run, Abstract!Move, Q
<1>. QED
  BY <1>2, Zenon DEF Abstract!vars, Q

\* The table refines the life cycle and the FIFO queues of Mlfq, for any number
\* of slots, CPUs and levels: whatever encolar and desencolar do with their
\* pointers, a process joins the tail of a level and only the head of a level
\* is given a CPU (proc.c:51-113, 370-405).
THEOREM TableImplementsMlfq == Spec => Implements
<1>1. Init => Abstract!Init
  <2>. SUFFICES ASSUME Init PROVE Abstract!Init
    BY Zenon
  <2>1. [l \in Levels |-> Links(l)] = order
    BY InitKeeps, AbstractQueues, Zenon
  <2>2. order = [l \in Levels |-> IF l = 0 THEN <<Initproc>> ELSE <<>>]
    BY Zenon DEF Init
  <2>3. state = [p \in Procs |-> IF p = Initproc THEN "RUNNABLE" ELSE "UNUSED"]
    BY Zenon DEF Init
  <2>. QED
    BY <2>1, <2>2, <2>3, Zenon DEF Abstract!Init
<1>2. IInv => [l \in Levels |-> Links(l)] = order
  BY AbstractQueues, Zenon
<1>3. /\ [l \in Levels |-> Links(l)] = order /\ ([l \in Levels |-> Links(l)] = order)'
      /\ IInv /\ [Next]_vars
      => [Abstract!Next]_(Abstract!vars)
  BY NextSteps, StepsRefine, Zenon
<1>. QED
  BY <1>1, <1>2, <1>3, Invariance, PTL DEF Spec, Implements, Abstract!Spec
=============================================================================
