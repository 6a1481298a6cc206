--------------------------- MODULE SpinlockProofs ---------------------------
(***************************************************************************)
(* Proofs about Spinlock, for every number of CPUs, processes and locks.   *)
(***************************************************************************)
EXTENDS Spinlock, FiniteSetTheorems, TLAPS

\* The invariants are long formulas: the provers get more time for them.
USE SMTT(30), ZenonT(30)

Steps == {"run", "pushcli", "spin", "got", "unlock", "popcli"}

\* What an interrupt handler may have suspended.
Suspended == [at : {"run", "pushcli"}, lk : Locks \cup {NoLock}, if : BOOLEAN]

Thread ==
    [at : Steps, lk : Locks \cup {NoLock}, if : BOOLEAN, held : SUBSET Locks,
     was : SUBSET BOOLEAN, saved : SUBSET BOOLEAN, intr : SUBSET Suspended]

TypeOK ==
    /\ eflags \in [Cpus -> BOOLEAN] /\ ncli \in [Cpus -> Nat] /\ intena \in [Cpus -> BOOLEAN]
    /\ locked \in [Locks -> BOOLEAN] /\ cpu \in [Locks -> Cpus \cup {NoCpu}]
    /\ run \in [Cpus -> Threads] /\ th \in [Threads -> Thread]

-----------------------------------------------------------------------------
(* The inductive invariant *)

\* A thread runs on one CPU, a scheduler on its own; a thread that does not run
\* is in no lock operation and has no lock.
WhoInv ==
    /\ \A c \in Cpus : run[c] \in Procs \cup {c}
    /\ \A c, d \in Cpus : run[c] = run[d] => c = d
    /\ \A t \in Threads : (\A c \in Cpus : run[c] # t) => th[t].at = "run" /\ th[t].held = {}

\* Locks are taken in their order, and a thread releases one that it has.
AtOk(r) ==
    /\ r.at \in {"pushcli", "spin", "got"} => r.lk \in Locks /\ \A k \in r.held : k < r.lk
    /\ r.at = "unlock" => r.lk \in r.held
    /\ \A s \in r.intr : s.at = "pushcli" => s.lk \in Locks
AtInv == \A t \in Threads : AtOk(th[t])

\* The thread has lock l, or has just taken it; and it has it and has not begun to
\* release it.
Owns(r, l) == l \in r.held \/ (r.lk = l /\ r.at = "got")
Keeps(r, l) == l \in r.held /\ ~(r.at = "unlock" /\ r.lk = l)

\* locked says whether a lock has an owner, and there is at most one.
OwnInv ==
    /\ \A l \in Locks : locked[l] <=> \E t \in Threads : Owns(th[t], l)
    /\ \A l \in Locks : \A t, u \in Threads : Owns(th[t], l) /\ Owns(th[u], l) => t = u

\* cpu names the CPU whose thread has the lock, from acquire to release.
NamedInv == \A c \in Cpus, l \in Locks : cpu[l] = c <=> Keeps(th[run[c]], l)

\* One more pushcli than locks, halfway through acquire and release.
Extra(r) == IF r.at \in {"spin", "got", "popcli"} THEN 1 ELSE 0

\* ncli counts the locks of the thread that runs, and interrupts are off while
\* there is one.
DepthOk(r, n, e) ==
    /\ IsFiniteSet(r.held) /\ n = Cardinality(r.held) + Extra(r)
    /\ n > 0 => e = FALSE
DepthInv == \A c \in Cpus : DepthOk(th[run[c]], ncli[c], eflags[c])

\* intena is what the process that runs found before its first lock, and sched
\* saves it for a process that does not run.
FlagInv ==
    /\ \A c \in Cpus : run[c] \in Procs /\ ncli[c] > 0 => th[run[c]].was \subseteq {intena[c]}
    /\ \A t \in Procs : (\A c \in Cpus : run[c] # t) =>
           /\ th[t].was \subseteq th[t].saved
           /\ th[t].saved = {} \/ \E x \in BOOLEAN : th[t].saved = {x}

SInv == TypeOK /\ WhoInv /\ AtInv /\ OwnInv /\ NamedInv /\ DepthInv /\ FlagInv

-----------------------------------------------------------------------------
(* A thread takes a step on its CPU *)

\* Nothing of another thread or of another CPU changes.
Turn(c, t) ==
    /\ run[c] = t /\ run' = run
    /\ \A u \in Threads \ {t} : th'[u] = th[u]
    /\ \A d \in Cpus \ {c} : eflags'[d] = eflags[d] /\ ncli'[d] = ncli[d] /\ intena'[d] = intena[d]

\* The threads stay where they are (every step of acquire and release).
LEMMA WhoKept ==
    ASSUME SInv, NEW c \in Cpus, NEW t \in Threads, Turn(c, t)
    PROVE  WhoInv'
BY DEF SInv, WhoInv, Turn

\* The locks are taken in order if the thread that moves takes its own in order.
LEMMA AtKept ==
    ASSUME SInv, NEW c \in Cpus, NEW t \in Threads, Turn(c, t), AtOk(th'[t])
    PROVE  AtInv'
<1>1. ASSUME NEW u \in Threads PROVE AtOk(th'[u])
  <2>1. CASE u = t
    BY <2>1, Zenon
  <2>2. CASE u # t
    <3>1. th'[u] = th[u] /\ AtOk(th[u])
      BY <2>2, Zenon DEF SInv, AtInv, Turn
    <3> QED
      BY <3>1, Zenon
  <2> QED
    BY <2>1, <2>2, Zenon
<1> QED
  BY <1>1, Zenon DEF AtInv, AtOk

\* Owners stay owners when the thread that moves takes and frees nothing.
LEMMA OwnKept ==
    ASSUME SInv, NEW c \in Cpus, NEW t \in Threads, Turn(c, t), locked' = locked,
           \A l \in Locks : Owns(th'[t], l) <=> Owns(th[t], l)
    PROVE  OwnInv'
<1>1. ASSUME NEW u \in Threads, NEW l \in Locks PROVE Owns(th'[u], l) <=> Owns(th[u], l)
  BY Zenon DEF Turn
<1>2. \A l \in Locks : locked[l] <=> \E u \in Threads : Owns(th[u], l)
  BY Zenon DEF SInv, OwnInv
<1>3. \A l \in Locks : \A u, v \in Threads : Owns(th[u], l) /\ Owns(th[v], l) => u = v
  BY Zenon DEF SInv, OwnInv
<1>4. \A l \in Locks : locked'[l] <=> \E u \in Threads : Owns(th'[u], l)
  BY <1>1, <1>2, Zenon
<1>5. \A l \in Locks : \A u, v \in Threads : Owns(th'[u], l) /\ Owns(th'[v], l) => u = v
  BY <1>1, <1>3, Zenon
<1> QED
  BY <1>4, <1>5, Zenon DEF OwnInv, Owns

\* The names stay right when the thread that moves keeps what it kept.
LEMMA NamedKept ==
    ASSUME SInv, NEW c \in Cpus, NEW t \in Threads, Turn(c, t), cpu' = cpu,
           \A l \in Locks : Keeps(th'[t], l) <=> Keeps(th[t], l)
    PROVE  NamedInv'
<1>1. ASSUME NEW d \in Cpus, NEW l \in Locks PROVE cpu'[l] = d <=> Keeps(th'[run'[d]], l)
  <2>1. cpu[l] = d <=> Keeps(th[run[d]], l)
    BY Zenon DEF SInv, NamedInv
  <2>2. run'[d] = run[d] /\ run[d] \in Threads
    BY Zenon DEF SInv, TypeOK, Turn
  <2>3. Keeps(th'[run[d]], l) <=> Keeps(th[run[d]], l)
    BY <2>2, Zenon DEF Turn
  <2> QED
    BY <2>1, <2>2, <2>3, Zenon
<1> QED
  BY <1>1, Zenon DEF NamedInv, Keeps

\* The count of the CPU that moves is the only one to look at.
LEMMA DepthKept ==
    ASSUME SInv, NEW c \in Cpus, NEW t \in Threads, Turn(c, t), DepthOk(th'[t], ncli'[c], eflags'[c])
    PROVE  DepthInv'
<1>1. ASSUME NEW d \in Cpus PROVE DepthOk(th'[run'[d]], ncli'[d], eflags'[d])
  <2>1. CASE d = c
    <3>1. run'[d] = t
      BY <2>1, Zenon DEF Turn
    <3> QED
      BY <2>1, <3>1, Zenon
  <2>2. CASE d # c
    <3>1. run[d] # t /\ run[d] \in Threads /\ run'[d] = run[d]
      BY <2>2, Zenon DEF SInv, TypeOK, WhoInv, Turn
    <3>2. th'[run[d]] = th[run[d]] /\ ncli'[d] = ncli[d] /\ eflags'[d] = eflags[d]
      BY <2>2, <3>1, Zenon DEF Turn
    <3>3. DepthOk(th[run[d]], ncli[d], eflags[d])
      BY Zenon DEF SInv, DepthInv
    <3> QED
      BY <3>1, <3>2, <3>3, Zenon
  <2> QED
    BY <2>1, <2>2, Zenon
<1> QED
  BY <1>1, Zenon DEF DepthInv, DepthOk, Extra

\* And so is its saved flag.
LEMMA FlagKept ==
    ASSUME SInv, NEW c \in Cpus, NEW t \in Threads, Turn(c, t),
           t \in Procs /\ ncli'[c] > 0 => th'[t].was \subseteq {intena'[c]}
    PROVE  FlagInv'
<1>1. ASSUME NEW d \in Cpus, run'[d] \in Procs, ncli'[d] > 0 PROVE th'[run'[d]].was \subseteq {intena'[d]}
  <2>1. CASE d = c
    BY <1>1, <2>1, Zenon DEF Turn
  <2>2. CASE d # c
    <3>1. run[d] # t /\ run[d] \in Threads /\ run'[d] = run[d]
      BY <2>2, Zenon DEF SInv, TypeOK, WhoInv, Turn
    <3>2. th'[run[d]] = th[run[d]] /\ ncli'[d] = ncli[d] /\ intena'[d] = intena[d]
      BY <2>2, <3>1, Zenon DEF Turn
    <3> QED
      BY <1>1, <3>1, <3>2, Zenon DEF SInv, FlagInv
  <2> QED
    BY <2>1, <2>2, Zenon
<1>2. ASSUME NEW u \in Procs, \A d \in Cpus : run'[d] # u
      PROVE  th'[u].was \subseteq th'[u].saved /\ (th'[u].saved = {} \/ \E x \in BOOLEAN : th'[u].saved = {x})
  <2>1. u # t /\ u \in Threads /\ \A d \in Cpus : run[d] # u
    BY <1>2, Zenon DEF Turn, Threads
  <2>2. th'[u] = th[u]
    BY <2>1, Zenon DEF Turn
  <2>3. th[u].was \subseteq th[u].saved /\ (th[u].saved = {} \/ \E x \in BOOLEAN : th[u].saved = {x})
    BY <2>1, Zenon DEF SInv, FlagInv
  <2> QED
    BY <2>2, <2>3, Zenon
<1> QED
  BY <1>1, <1>2, Zenon DEF FlagInv

-----------------------------------------------------------------------------
(* acquire *)

\* acquire up to the read of the flags keeps the invariant.
LEMMA AcquireStep ==
    ASSUME SpinlockAssumption, SInv, NEW c \in Cpus, NEW t \in Threads, NEW l \in Locks, acquire(c, t, l)
    PROVE  SInv'
<1>1. /\ th[t] \in Thread /\ th[t].at = "run" /\ run[c] = t /\ \A k \in th[t].held : k < l
      /\ th' \in [Threads -> Thread] /\ th'[t].at = "pushcli" /\ th'[t].lk = l
      /\ th'[t].held = th[t].held /\ th'[t].was = th[t].was /\ th'[t].intr = th[t].intr
      /\ \A u \in Threads \ {t} : th'[u] = th[u]
      /\ UNCHANGED <<eflags, ncli, intena, locked, cpu, run>>
  <2>1. th \in [Threads -> Thread] /\ th[t] \in Thread /\ eflags[c] \in BOOLEAN
    BY Zenon DEF SInv, TypeOK
  <2>2. th' = [th EXCEPT ![t].at = "pushcli", ![t].lk = l, ![t].if = eflags[c]]
    BY Zenon DEF acquire
  <2>3. th'[t] = [th[t] EXCEPT !.at = "pushcli", !.lk = l, !.if = eflags[c]]
    BY <2>1, <2>2, Zenon
  <2>4. /\ th'[t].at = "pushcli" /\ th'[t].lk = l
        /\ th'[t].held = th[t].held /\ th'[t].was = th[t].was /\ th'[t].intr = th[t].intr
    BY <2>1, <2>3, Zenon DEF Thread
  <2>5. th'[t] \in Thread
    BY <2>1, <2>3, Zenon DEF Thread, Steps
  <2>6. th' \in [Threads -> Thread] /\ \A u \in Threads \ {t} : th'[u] = th[u]
    BY <2>1, <2>2, <2>5, Zenon
  <2>7. th[t].at = "run" /\ run[c] = t /\ (\A k \in th[t].held : k < l) /\ UNCHANGED <<eflags, ncli, intena, locked, cpu, run>>
    BY Zenon DEF acquire, On
  <2> QED
    BY <2>1, <2>4, <2>6, <2>7, Zenon
<1>2. Turn(c, t)
  BY <1>1, Zenon DEF Turn
<1>3. TypeOK'
  BY <1>1, Zenon DEF SInv, TypeOK
<1>4. AtInv'
  <2>1. AtOk(th[t])
    BY Zenon DEF SInv, AtInv
  <2>2. AtOk(th'[t])
    BY <1>1, <2>1, Zenon DEF AtOk
  <2> QED
    BY <1>2, <2>2, AtKept, Zenon
<1>5. OwnInv'
  <2>1. \A k \in Locks : Owns(th'[t], k) <=> Owns(th[t], k)
    BY <1>1, Zenon DEF Owns
  <2> QED
    BY <1>1, <1>2, <2>1, OwnKept, Zenon
<1>6. NamedInv'
  <2>1. \A k \in Locks : Keeps(th'[t], k) <=> Keeps(th[t], k)
    BY <1>1, Zenon DEF Keeps
  <2> QED
    BY <1>1, <1>2, <2>1, NamedKept, Zenon
<1>7. DepthInv'
  <2>1. DepthOk(th[t], ncli[c], eflags[c])
    BY <1>1, Zenon DEF SInv, DepthInv
  <2>2. DepthOk(th'[t], ncli'[c], eflags'[c])
    BY <1>1, <2>1, Zenon DEF DepthOk, Extra
  <2> QED
    BY <1>2, <2>2, DepthKept, Zenon
<1>8. FlagInv'
  <2>1. t \in Procs /\ ncli'[c] > 0 => th'[t].was \subseteq {intena'[c]}
    BY <1>1, Zenon DEF SInv, FlagInv
  <2> QED
    BY <1>2, <2>1, FlagKept, Zenon
<1> QED
  BY <1>2, <1>3, <1>4, <1>5, <1>6, <1>7, <1>8, WhoKept, Zenon DEF SInv

\* The second half of pushcli keeps the invariant: the first one has no lock.
LEMMA PushcliStep ==
    ASSUME SpinlockAssumption, SInv, NEW c \in Cpus, NEW t \in Threads, pushcli(c, t)
    PROVE  SInv'
<1>1. /\ th[t] \in Thread /\ th[t].at = "pushcli" /\ run[c] = t
      /\ th' \in [Threads -> Thread] /\ th'[t].at = "spin" /\ th'[t].lk = th[t].lk
      /\ th'[t].held = th[t].held /\ th'[t].intr = th[t].intr
      /\ th'[t].was = IF th[t].held = {} THEN {th[t].if} ELSE th[t].was
      /\ \A u \in Threads \ {t} : th'[u] = th[u]
      /\ UNCHANGED <<locked, cpu, run>>
  <2>1. th \in [Threads -> Thread] /\ th[t] \in Thread /\ th[t].if \in BOOLEAN
    BY Zenon DEF SInv, TypeOK, Thread
  <2>2. th' = [th EXCEPT ![t].at = "spin", ![t].if = FALSE, ![t].was = IF th[t].held = {} THEN {th[t].if} ELSE @]
    BY Zenon DEF pushcli
  <2>3. th'[t] = [th[t] EXCEPT !.at = "spin", !.if = FALSE, !.was = IF th[t].held = {} THEN {th[t].if} ELSE @]
    BY <2>1, <2>2, Zenon
  <2>4. /\ th'[t].at = "spin" /\ th'[t].lk = th[t].lk
        /\ th'[t].held = th[t].held /\ th'[t].intr = th[t].intr
        /\ th'[t].was = IF th[t].held = {} THEN {th[t].if} ELSE th[t].was
    BY <2>1, <2>3, Zenon DEF Thread
  <2>5. th'[t] \in Thread
    <3>1. PICK w \in SUBSET BOOLEAN : th'[t] = [th[t] EXCEPT !.at = "spin", !.if = FALSE, !.was = w]
      <4>1. th[t].was \in SUBSET BOOLEAN /\ {th[t].if} \in SUBSET BOOLEAN
        BY <2>1, Zenon DEF Thread
      <4>2. CASE th[t].held = {}
        BY <2>3, <4>1, <4>2, Zenon
      <4>3. CASE th[t].held # {}
        BY <2>3, <4>1, <4>3, Zenon
      <4> QED
        BY <4>2, <4>3, Zenon
    <3> QED
      BY <2>1, <3>1, Zenon DEF Thread, Steps
  <2>6. th' \in [Threads -> Thread] /\ \A u \in Threads \ {t} : th'[u] = th[u]
    BY <2>1, <2>2, <2>5, Zenon
  <2>7. th[t].at = "pushcli" /\ run[c] = t /\ UNCHANGED <<locked, cpu, run>>
    BY Zenon DEF pushcli, On
  <2> QED
    BY <2>1, <2>4, <2>6, <2>7, Zenon
<1>2. /\ ncli' \in [Cpus -> Nat] /\ ncli'[c] = ncli[c] + 1 /\ ncli[c] \in Nat
      /\ \A d \in Cpus \ {c} : ncli'[d] = ncli[d]
  BY DEF SInv, TypeOK, pushcli
<1>3. /\ eflags' \in [Cpus -> BOOLEAN] /\ eflags'[c] = FALSE
      /\ \A d \in Cpus \ {c} : eflags'[d] = eflags[d]
  BY Zenon DEF SInv, TypeOK, pushcli
<1>4. /\ intena' \in [Cpus -> BOOLEAN] /\ intena'[c] = IF ncli[c] = 0 THEN th[t].if ELSE intena[c]
      /\ \A d \in Cpus \ {c} : intena'[d] = intena[d]
  <2>1. intena \in [Cpus -> BOOLEAN] /\ th[t].if \in BOOLEAN
    BY <1>1, Zenon DEF SInv, TypeOK, Thread
  <2>2. intena' = IF ncli[c] = 0 THEN [intena EXCEPT ![c] = th[t].if] ELSE intena
    BY Zenon DEF pushcli
  <2> QED
    BY <2>1, <2>2, Zenon
<1>5. Turn(c, t)
  BY <1>1, <1>2, <1>3, <1>4, Zenon DEF Turn
<1>6. TypeOK'
  BY <1>1, <1>2, <1>3, <1>4, Zenon DEF SInv, TypeOK
<1>7. DepthOk(th[t], ncli[c], eflags[c]) /\ AtOk(th[t])
  BY <1>1, Zenon DEF SInv, DepthInv, AtInv
<1>8. AtInv'
  <2>1. AtOk(th'[t])
    BY <1>1, <1>7, Zenon DEF AtOk
  <2> QED
    BY <1>5, <2>1, AtKept, Zenon
<1>9. OwnInv'
  <2>1. \A k \in Locks : Owns(th'[t], k) <=> Owns(th[t], k)
    BY <1>1, Zenon DEF Owns
  <2> QED
    BY <1>1, <1>5, <2>1, OwnKept, Zenon
<1>10. NamedInv'
  <2>1. \A k \in Locks : Keeps(th'[t], k) <=> Keeps(th[t], k)
    BY <1>1, Zenon DEF Keeps
  <2> QED
    BY <1>1, <1>5, <2>1, NamedKept, Zenon
<1>11. ncli[c] = Cardinality(th[t].held) /\ IsFiniteSet(th[t].held) /\ Cardinality(th[t].held) \in Nat
  BY <1>1, <1>7, FS_CardinalityType DEF DepthOk, Extra
<1>12. DepthInv'
  <2>1. DepthOk(th'[t], ncli'[c], eflags'[c])
    BY <1>1, <1>2, <1>3, <1>11, Zenon DEF DepthOk, Extra
  <2> QED
    BY <1>5, <2>1, DepthKept, Zenon
<1>13. FlagInv'
  <2>1. ncli[c] = 0 <=> th[t].held = {}
    BY <1>11, FS_EmptySet, Zenon
  <2>2. CASE th[t].held = {}
    BY <1>1, <1>4, <1>5, <2>1, <2>2, FlagKept, Zenon
  <2>3. CASE th[t].held # {}
    <3>1. ncli[c] > 0
      BY <1>2, <2>1, <2>3
    <3>2. t \in Procs => th[t].was \subseteq {intena[c]}
      BY <1>1, <3>1, Zenon DEF SInv, FlagInv
    <3> QED
      BY <1>1, <1>4, <1>5, <2>1, <2>3, <3>2, FlagKept, Zenon
  <2> QED
    BY <2>2, <2>3, Zenon
<1> QED
  BY <1>5, <1>6, <1>8, <1>9, <1>10, <1>12, <1>13, WhoKept, Zenon DEF SInv

\* The xchg that takes a lock keeps the invariant: the lock had no owner.
LEMMA XchgStep ==
    ASSUME SpinlockAssumption, SInv, NEW c \in Cpus, NEW t \in Threads, xchg(c, t)
    PROVE  SInv'
<1> DEFINE l == th[t].lk
<1>1. /\ th[t] \in Thread /\ th[t].at = "spin" /\ run[c] = t
      /\ th' \in [Threads -> Thread] /\ th'[t].at = "got" /\ th'[t].lk = th[t].lk
      /\ th'[t].held = th[t].held /\ th'[t].was = th[t].was /\ th'[t].intr = th[t].intr
      /\ \A u \in Threads \ {t} : th'[u] = th[u]
      /\ UNCHANGED <<eflags, ncli, intena, cpu, run>>
  <2>1. th \in [Threads -> Thread] /\ th[t] \in Thread
    BY Zenon DEF SInv, TypeOK
  <2>2. th' = [th EXCEPT ![t].at = "got"]
    BY Zenon DEF xchg
  <2>3. th'[t] = [th[t] EXCEPT !.at = "got"]
    BY <2>1, <2>2, Zenon
  <2>4. /\ th'[t].at = "got" /\ th'[t].lk = th[t].lk
        /\ th'[t].held = th[t].held /\ th'[t].was = th[t].was /\ th'[t].intr = th[t].intr
    BY <2>1, <2>3, Zenon DEF Thread
  <2>5. th'[t] \in Thread
    BY <2>1, <2>3, Zenon DEF Thread, Steps
  <2>6. th' \in [Threads -> Thread] /\ \A u \in Threads \ {t} : th'[u] = th[u]
    BY <2>1, <2>2, <2>5, Zenon
  <2>7. th[t].at = "spin" /\ run[c] = t /\ UNCHANGED <<eflags, ncli, intena, cpu, run>>
    BY Zenon DEF xchg, On
  <2> QED
    BY <2>1, <2>4, <2>6, <2>7, Zenon
<1>2. DepthOk(th[t], ncli[c], eflags[c]) /\ AtOk(th[t])
  BY <1>1, Zenon DEF SInv, DepthInv, AtInv
<1>3. l \in Locks
  BY <1>1, <1>2, Zenon DEF AtOk
<1>4. locked' \in [Locks -> BOOLEAN] /\ locked'[l] = TRUE /\ \A k \in Locks \ {l} : locked'[k] = locked[k]
  BY <1>3, Zenon DEF SInv, TypeOK, xchg
<1>5. ~locked[l]
  BY Zenon DEF xchg
<1>6. Turn(c, t)
  BY <1>1, Zenon DEF Turn
<1>7. TypeOK'
  BY <1>1, <1>4, Zenon DEF SInv, TypeOK
<1>8. AtInv'
  <2>1. AtOk(th'[t])
    BY <1>1, <1>2, Zenon DEF AtOk
  <2> QED
    BY <1>6, <2>1, AtKept, Zenon
<1>9. OwnInv'
  <2>1. \A u \in Threads : ~Owns(th[u], l)
    BY <1>3, <1>5, Zenon DEF SInv, OwnInv
  <2>2. Owns(th'[t], l)
    BY <1>1, Zenon DEF Owns
  <2>3. \A k \in Locks \ {l} : Owns(th'[t], k) <=> Owns(th[t], k)
    BY <1>1, Zenon DEF Owns
  <2>4. \A u \in Threads \ {t} : \A k \in Locks : Owns(th'[u], k) <=> Owns(th[u], k)
    BY <1>1, Zenon
  <2>5. ASSUME NEW k \in Locks PROVE locked'[k] <=> \E u \in Threads : Owns(th'[u], k)
    <3>1. locked[k] <=> \E u \in Threads : Owns(th[u], k)
      BY Zenon DEF SInv, OwnInv
    <3>2. CASE k = l
      BY <1>4, <2>2, <3>2, Zenon
    <3>3. CASE k # l
      BY <1>4, <2>3, <2>4, <3>1, <3>3, Zenon
    <3> QED
      BY <3>2, <3>3, Zenon
  <2>6. ASSUME NEW k \in Locks, NEW u \in Threads, NEW v \in Threads, Owns(th'[u], k), Owns(th'[v], k) PROVE u = v
    <3>1. Owns(th[u], k) /\ Owns(th[v], k) => u = v
      BY Zenon DEF SInv, OwnInv
    <3> QED
      BY <2>1, <2>3, <2>4, <2>6, <3>1, Zenon
  <2> QED
    BY <2>5, <2>6 DEF OwnInv, Owns
<1>10. NamedInv'
  <2>1. \A k \in Locks : Keeps(th'[t], k) <=> Keeps(th[t], k)
    BY <1>1, Zenon DEF Keeps
  <2> QED
    BY <1>1, <1>6, <2>1, NamedKept, Zenon
<1>11. DepthInv'
  <2>1. DepthOk(th'[t], ncli'[c], eflags'[c])
    BY <1>1, <1>2, Zenon DEF DepthOk, Extra
  <2> QED
    BY <1>6, <2>1, DepthKept, Zenon
<1>12. FlagInv'
  <2>1. t \in Procs /\ ncli'[c] > 0 => th'[t].was \subseteq {intena'[c]}
    BY <1>1, Zenon DEF SInv, FlagInv
  <2> QED
    BY <1>6, <2>1, FlagKept, Zenon
<1> QED
  BY <1>6, <1>7, <1>8, <1>9, <1>10, <1>11, <1>12, WhoKept, Zenon DEF SInv

\* acquire's end keeps the invariant: the lock taken becomes a lock held, and gets
\* its CPU's name.
LEMMA AcquiredStep ==
    ASSUME SpinlockAssumption, SInv, NEW c \in Cpus, NEW t \in Threads, acquired(c, t)
    PROVE  SInv'
<1> DEFINE l == th[t].lk
<1>1. th[t].at = "got" /\ run[c] = t /\ UNCHANGED <<eflags, ncli, intena, locked, run>>
  BY Zenon DEF acquired, On
<1>2. DepthOk(th[t], ncli[c], eflags[c]) /\ AtOk(th[t])
  BY <1>1, Zenon DEF SInv, DepthInv, AtInv
<1>3. l \in Locks /\ l \notin th[t].held /\ l # NoLock
  <2>1. l \in Locks /\ \A k \in th[t].held : k < l
    BY <1>1, <1>2, Zenon DEF AtOk
  <2>2. l \in Nat /\ l # 0
    BY <2>1, Zenon DEF SpinlockAssumption
  <2>3. ~(l < l)
    BY <2>2
  <2> QED
    BY <2>1, <2>2, <2>3, Zenon DEF NoLock
<1>4. /\ th' \in [Threads -> Thread] /\ th'[t].at = "run" /\ th'[t].lk = NoLock
      /\ th'[t].held = th[t].held \cup {l} /\ th'[t].was = th[t].was /\ th'[t].intr = th[t].intr
      /\ \A u \in Threads \ {t} : th'[u] = th[u]
  <2>1. th \in [Threads -> Thread] /\ th[t] \in Thread
    BY Zenon DEF SInv, TypeOK
  <2>2. th' = [th EXCEPT ![t].at = "run", ![t].lk = NoLock, ![t].held = @ \cup {l}]
    BY Zenon DEF acquired
  <2>3. th'[t] = [th[t] EXCEPT !.at = "run", !.lk = NoLock, !.held = @ \cup {l}]
    BY <2>1, <2>2, Zenon
  <2>4. /\ th'[t].at = "run" /\ th'[t].lk = NoLock
        /\ th'[t].held = th[t].held \cup {l} /\ th'[t].was = th[t].was /\ th'[t].intr = th[t].intr
    BY <2>1, <2>3, Zenon DEF Thread
  <2>5. th'[t] \in Thread
    <3>1. th[t].held \cup {l} \in SUBSET Locks
      BY <1>3, <2>1, Zenon DEF Thread
    <3>2. PICK h \in SUBSET Locks : th'[t] = [th[t] EXCEPT !.at = "run", !.lk = NoLock, !.held = h]
      BY <2>3, <3>1, Zenon
    <3> QED
      BY <2>1, <3>2, Zenon DEF Thread, Steps
  <2> QED
    BY <2>1, <2>2, <2>4, <2>5, Zenon
<1>5. cpu' \in [Locks -> Cpus \cup {NoCpu}] /\ cpu'[l] = c /\ \A k \in Locks \ {l} : cpu'[k] = cpu[k]
  BY <1>3, Zenon DEF SInv, TypeOK, acquired
<1>6. Turn(c, t)
  BY <1>1, <1>4, Zenon DEF Turn
<1>7. TypeOK'
  BY <1>1, <1>4, <1>5, Zenon DEF SInv, TypeOK
<1>8. AtInv'
  <2>1. AtOk(th'[t])
    BY <1>2, <1>4, Zenon DEF AtOk
  <2> QED
    BY <1>6, <2>1, AtKept, Zenon
<1>9. OwnInv'
  <2>1. \A k \in Locks : Owns(th'[t], k) <=> Owns(th[t], k)
    BY <1>1, <1>4, Zenon DEF Owns
  <2> QED
    BY <1>1, <1>6, <2>1, OwnKept, Zenon
<1>10. NamedInv'
  <2>1. ASSUME NEW d \in Cpus, NEW k \in Locks PROVE cpu'[k] = d <=> Keeps(th'[run'[d]], k)
    <3>1. run'[d] = run[d] /\ run[d] \in Threads /\ (run[d] = t <=> d = c)
      BY <1>1, Zenon DEF SInv, TypeOK, WhoInv
    <3>2. cpu[k] = d <=> Keeps(th[run[d]], k)
      BY Zenon DEF SInv, NamedInv
    <3>3. CASE k = l
      <4>1. \A u \in Threads : Owns(th[u], l) => u = t
        BY <1>1, <1>3 DEF SInv, OwnInv, Owns
      <4>2. d # c => ~Keeps(th'[run[d]], l)
        BY <1>4, <3>1, <4>1, Zenon DEF Keeps, Owns
      <4>3. Keeps(th'[t], l)
        BY <1>4, Zenon DEF Keeps
      <4> QED
        BY <1>1, <1>5, <3>1, <3>3, <4>2, <4>3, Zenon
    <3>4. CASE k # l
      <4>1. Keeps(th'[t], k) <=> Keeps(th[t], k)
        BY <1>1, <1>4, <3>4, Zenon DEF Keeps
      <4>2. Keeps(th'[run[d]], k) <=> Keeps(th[run[d]], k)
        BY <1>4, <3>1, <4>1, Zenon
      <4> QED
        BY <1>5, <3>1, <3>2, <3>4, <4>2, Zenon
    <3> QED
      BY <3>3, <3>4, Zenon
  <2> QED
    BY <2>1, Zenon DEF NamedInv, Keeps
<1>11. DepthInv'
  <2>1. IsFiniteSet(th'[t].held) /\ Cardinality(th'[t].held) = Cardinality(th[t].held) + 1
    <3>1. IsFiniteSet(th[t].held)
      BY <1>2, Zenon DEF DepthOk
    <3> QED
      <4> HIDE DEF l
      <4>1. /\ IsFiniteSet(th[t].held \cup {l})
            /\ Cardinality(th[t].held \cup {l}) =
                 IF l \in th[t].held THEN Cardinality(th[t].held) ELSE Cardinality(th[t].held) + 1
        BY <3>1, FS_AddElement, Zenon
      <4> QED
        BY <1>3, <1>4, <4>1, Zenon
  <2>2. DepthOk(th'[t], ncli'[c], eflags'[c])
    BY <1>1, <1>2, <1>4, <2>1, FS_CardinalityType DEF DepthOk, Extra
  <2> QED
    BY <1>6, <2>2, DepthKept, Zenon
<1>12. FlagInv'
  <2>1. t \in Procs /\ ncli'[c] > 0 => th'[t].was \subseteq {intena'[c]}
    BY <1>1, <1>4, Zenon DEF SInv, FlagInv
  <2> QED
    BY <1>6, <2>1, FlagKept, Zenon
<1> QED
  BY <1>6, <1>7, <1>8, <1>9, <1>10, <1>11, <1>12, WhoKept, Zenon DEF SInv

-----------------------------------------------------------------------------
(* release *)

\* release up to lk->cpu = 0 keeps the invariant.
LEMMA ReleaseStep ==
    ASSUME SpinlockAssumption, SInv, NEW c \in Cpus, NEW t \in Threads, NEW l \in th[t].held, release(c, t, l)
    PROVE  SInv'
<1>1. th[t].at = "run" /\ run[c] = t /\ UNCHANGED <<eflags, ncli, intena, locked, run>>
  BY Zenon DEF release, On
<1>2. DepthOk(th[t], ncli[c], eflags[c]) /\ AtOk(th[t])
  BY <1>1, Zenon DEF SInv, DepthInv, AtInv
<1>3. l \in Locks
  BY Zenon DEF SInv, TypeOK, Thread
<1>4. /\ th' \in [Threads -> Thread] /\ th'[t].at = "unlock" /\ th'[t].lk = l
      /\ th'[t].held = th[t].held /\ th'[t].was = th[t].was /\ th'[t].intr = th[t].intr
      /\ \A u \in Threads \ {t} : th'[u] = th[u]
  <2>1. th \in [Threads -> Thread] /\ th[t] \in Thread
    BY Zenon DEF SInv, TypeOK
  <2>2. th' = [th EXCEPT ![t].at = "unlock", ![t].lk = l]
    BY Zenon DEF release
  <2>3. th'[t] = [th[t] EXCEPT !.at = "unlock", !.lk = l]
    BY <2>1, <2>2, Zenon
  <2>4. /\ th'[t].at = "unlock" /\ th'[t].lk = l
        /\ th'[t].held = th[t].held /\ th'[t].was = th[t].was /\ th'[t].intr = th[t].intr
    BY <2>1, <2>3, Zenon DEF Thread
  <2>5. th'[t] \in Thread
    BY <1>3, <2>1, <2>3, Zenon DEF Thread, Steps
  <2> QED
    BY <2>1, <2>2, <2>4, <2>5, Zenon
<1>5. cpu' \in [Locks -> Cpus \cup {NoCpu}] /\ cpu'[l] = NoCpu /\ \A k \in Locks \ {l} : cpu'[k] = cpu[k]
  BY <1>3, Zenon DEF SInv, TypeOK, release
<1>6. Turn(c, t)
  BY <1>1, <1>4, Zenon DEF Turn
<1>7. TypeOK'
  BY <1>1, <1>4, <1>5, Zenon DEF SInv, TypeOK
<1>8. AtInv'
  <2>1. AtOk(th'[t])
    BY <1>2, <1>4, Zenon DEF AtOk
  <2> QED
    BY <1>6, <2>1, AtKept, Zenon
<1>9. OwnInv'
  <2>1. \A k \in Locks : Owns(th'[t], k) <=> Owns(th[t], k)
    BY <1>1, <1>4, Zenon DEF Owns
  <2> QED
    BY <1>1, <1>6, <2>1, OwnKept, Zenon
<1>10. NamedInv'
  <2>1. ASSUME NEW d \in Cpus, NEW k \in Locks PROVE cpu'[k] = d <=> Keeps(th'[run'[d]], k)
    <3>1. run'[d] = run[d] /\ run[d] \in Threads /\ (run[d] = t <=> d = c)
      BY <1>1, Zenon DEF SInv, TypeOK, WhoInv
    <3>2. cpu[k] = d <=> Keeps(th[run[d]], k)
      BY Zenon DEF SInv, NamedInv
    <3>3. CASE k = l
      <4>1. \A u \in Threads : Owns(th[u], l) => u = t
        BY <1>3, Zenon DEF SInv, OwnInv, Owns
      <4>2. d # c => ~Keeps(th'[run[d]], l)
        BY <1>4, <3>1, <4>1, Zenon DEF Keeps, Owns
      <4>3. ~Keeps(th'[t], l)
        BY <1>4, Zenon DEF Keeps
      <4>4. cpu'[l] # d
        BY <1>5, Zenon DEF SpinlockAssumption
      <4> QED
        BY <1>1, <3>1, <3>3, <4>2, <4>3, <4>4, Zenon
    <3>4. CASE k # l
      <4>1. Keeps(th'[t], k) <=> Keeps(th[t], k)
        BY <1>1, <1>4, <3>4, Zenon DEF Keeps
      <4>2. Keeps(th'[run[d]], k) <=> Keeps(th[run[d]], k)
        BY <1>4, <3>1, <4>1, Zenon
      <4> QED
        BY <1>5, <3>1, <3>2, <3>4, <4>2, Zenon
    <3> QED
      BY <3>3, <3>4, Zenon
  <2> QED
    BY <2>1, Zenon DEF NamedInv, Keeps
<1>11. DepthInv'
  <2>1. DepthOk(th'[t], ncli'[c], eflags'[c])
    BY <1>1, <1>2, <1>4, Zenon DEF DepthOk, Extra
  <2> QED
    BY <1>6, <2>1, DepthKept, Zenon
<1>12. FlagInv'
  <2>1. t \in Procs /\ ncli'[c] > 0 => th'[t].was \subseteq {intena'[c]}
    BY <1>1, <1>4, Zenon DEF SInv, FlagInv
  <2> QED
    BY <1>6, <2>1, FlagKept, Zenon
<1> QED
  BY <1>6, <1>7, <1>8, <1>9, <1>10, <1>11, <1>12, WhoKept, Zenon DEF SInv

\* release's xchg keeps the invariant: the lock had this owner and now has none.
LEMMA UnlockStep ==
    ASSUME SpinlockAssumption, SInv, NEW c \in Cpus, NEW t \in Threads, unlock(c, t)
    PROVE  SInv'
<1> DEFINE l == th[t].lk
<1>1. th[t].at = "unlock" /\ run[c] = t /\ UNCHANGED <<eflags, ncli, intena, cpu, run>>
  BY Zenon DEF unlock, On
<1>2. DepthOk(th[t], ncli[c], eflags[c]) /\ AtOk(th[t])
  BY <1>1, Zenon DEF SInv, DepthInv, AtInv
<1>3. l \in th[t].held /\ l \in Locks
  BY <1>1, <1>2, Zenon DEF AtOk, SInv, TypeOK, Thread
<1>4. /\ th' \in [Threads -> Thread] /\ th'[t].at = "popcli" /\ th'[t].lk = l
      /\ th'[t].held = th[t].held \ {l} /\ th'[t].was = th[t].was /\ th'[t].intr = th[t].intr
      /\ \A u \in Threads \ {t} : th'[u] = th[u]
  <2>1. th \in [Threads -> Thread] /\ th[t] \in Thread
    BY Zenon DEF SInv, TypeOK
  <2>2. th' = [th EXCEPT ![t].at = "popcli", ![t].held = @ \ {l}]
    BY Zenon DEF unlock
  <2>3. th'[t] = [th[t] EXCEPT !.at = "popcli", !.held = @ \ {l}]
    BY <2>1, <2>2, Zenon
  <2>4. /\ th'[t].at = "popcli" /\ th'[t].lk = l
        /\ th'[t].held = th[t].held \ {l} /\ th'[t].was = th[t].was /\ th'[t].intr = th[t].intr
    BY <2>1, <2>3, Zenon DEF Thread
  <2>5. th'[t] \in Thread
    <3>1. th[t].held \ {l} \in SUBSET Locks
      BY <2>1, Zenon DEF Thread
    <3>2. PICK h \in SUBSET Locks : th'[t] = [th[t] EXCEPT !.at = "popcli", !.held = h]
      BY <2>3, <3>1, Zenon
    <3> QED
      BY <2>1, <3>2, Zenon DEF Thread, Steps
  <2> QED
    BY <2>1, <2>2, <2>4, <2>5, Zenon
<1>5. locked' \in [Locks -> BOOLEAN] /\ locked'[l] = FALSE /\ \A k \in Locks \ {l} : locked'[k] = locked[k]
  BY <1>3, Zenon DEF SInv, TypeOK, unlock
<1>6. Turn(c, t)
  BY <1>1, <1>4, Zenon DEF Turn
<1>7. TypeOK'
  BY <1>1, <1>4, <1>5, Zenon DEF SInv, TypeOK
<1>8. AtInv'
  <2>1. AtOk(th'[t])
    BY <1>2, <1>4, Zenon DEF AtOk
  <2> QED
    BY <1>6, <2>1, AtKept, Zenon
<1>9. OwnInv'
  <2>1. \A u \in Threads : Owns(th[u], l) => u = t
    BY <1>3 DEF SInv, OwnInv, Owns
  <2>2. ~Owns(th'[t], l)
    BY <1>4, Zenon DEF Owns
  <2>3. \A k \in Locks \ {l} : Owns(th'[t], k) <=> Owns(th[t], k)
    BY <1>1, <1>4, Zenon DEF Owns
  <2>4. \A u \in Threads \ {t} : \A k \in Locks : Owns(th'[u], k) <=> Owns(th[u], k)
    BY <1>4, Zenon
  <2>5. ASSUME NEW k \in Locks PROVE locked'[k] <=> \E u \in Threads : Owns(th'[u], k)
    <3>1. locked[k] <=> \E u \in Threads : Owns(th[u], k)
      BY Zenon DEF SInv, OwnInv
    <3>2. CASE k = l
      BY <1>5, <2>1, <2>2, <2>4, <3>2, Zenon
    <3>3. CASE k # l
      BY <1>5, <2>3, <2>4, <3>1, <3>3, Zenon
    <3> QED
      BY <3>2, <3>3, Zenon
  <2>6. ASSUME NEW k \in Locks, NEW u \in Threads, NEW v \in Threads, Owns(th'[u], k), Owns(th'[v], k) PROVE u = v
    <3>1. Owns(th[u], k) /\ Owns(th[v], k) => u = v
      BY Zenon DEF SInv, OwnInv
    <3> QED
      BY <2>1, <2>2, <2>3, <2>4, <2>6, <3>1, Zenon
  <2> QED
    BY <2>5, <2>6 DEF OwnInv, Owns
<1>10. NamedInv'
  <2>1. \A k \in Locks : Keeps(th'[t], k) <=> Keeps(th[t], k)
    BY <1>1, <1>4, Zenon DEF Keeps
  <2> QED
    BY <1>1, <1>6, <2>1, NamedKept, Zenon
<1>11. DepthInv'
  <2>1. IsFiniteSet(th[t].held)
    BY <1>2, Zenon DEF DepthOk
  <2>2. IsFiniteSet(th'[t].held) /\ Cardinality(th'[t].held) = Cardinality(th[t].held) - 1
    <3> HIDE DEF l
    <3>1. /\ IsFiniteSet(th[t].held \ {l})
          /\ Cardinality(th[t].held \ {l}) =
               IF l \in th[t].held THEN Cardinality(th[t].held) - 1 ELSE Cardinality(th[t].held)
      BY <2>1, FS_RemoveElement, Zenon
    <3> QED
      BY <1>3, <1>4, <3>1, Zenon
  <2>3. Cardinality(th[t].held) \in Nat
    BY <2>1, FS_CardinalityType, Zenon
  <2>4. DepthOk(th'[t], ncli'[c], eflags'[c])
    BY <1>1, <1>2, <1>4, <2>2, <2>3 DEF DepthOk, Extra
  <2> QED
    BY <1>6, <2>4, DepthKept, Zenon
<1>12. FlagInv'
  <2>1. t \in Procs /\ ncli'[c] > 0 => th'[t].was \subseteq {intena'[c]}
    BY <1>1, <1>4, Zenon DEF SInv, FlagInv
  <2> QED
    BY <1>6, <2>1, FlagKept, Zenon
<1> QED
  BY <1>6, <1>7, <1>8, <1>9, <1>10, <1>11, <1>12, WhoKept, Zenon DEF SInv

\* What popcli does, for the invariant and for the flag it puts back: it is the last
\* one exactly when the thread has no lock left.
LEMMA PopcliFacts ==
    ASSUME SpinlockAssumption, SInv, NEW c \in Cpus, NEW t \in Threads, popcli(c, t)
    PROVE  /\ th[t].at = "popcli" /\ run[c] = t /\ UNCHANGED <<intena, locked, cpu, run>>
           /\ IsFiniteSet(th[t].held) /\ Cardinality(th[t].held) \in Nat
           /\ ncli[c] = Cardinality(th[t].held) + 1
           /\ th[t].held = {} <=> ncli[c] = 1
           /\ eflags[c] = FALSE
           /\ eflags' \in [Cpus -> BOOLEAN] /\ eflags'[c] = (ncli[c] = 1 /\ intena[c])
           /\ \A d \in Cpus \ {c} : eflags'[d] = eflags[d]
<1>1. th[t].at = "popcli" /\ run[c] = t /\ UNCHANGED <<intena, locked, cpu, run>>
  BY Zenon DEF popcli, On
<1>2. DepthOk(th[t], ncli[c], eflags[c])
  BY <1>1, Zenon DEF SInv, DepthInv
<1>3. IsFiniteSet(th[t].held) /\ Cardinality(th[t].held) \in Nat
  BY <1>2, FS_CardinalityType, Zenon DEF DepthOk
<1>4. ncli[c] = Cardinality(th[t].held) + 1
  BY <1>1, <1>2, Zenon DEF DepthOk, Extra
<1>5. th[t].held = {} <=> ncli[c] = 1
  <2>1. Cardinality(th[t].held) = 0 <=> th[t].held = {}
    BY <1>3, FS_EmptySet, Zenon
  <2> QED
    BY <1>3, <1>4, <2>1
<1>6. eflags[c] = FALSE
  BY <1>2, <1>3, <1>4 DEF DepthOk
<1>7. /\ eflags' \in [Cpus -> BOOLEAN] /\ eflags'[c] = (ncli[c] = 1 /\ intena[c])
      /\ \A d \in Cpus \ {c} : eflags'[d] = eflags[d]
  <2>1. eflags \in [Cpus -> BOOLEAN] /\ eflags' = [eflags EXCEPT ![c] = @ \/ (ncli[c] = 1 /\ intena[c])]
    BY Zenon DEF SInv, TypeOK, popcli
  <2> QED
    BY <1>6, <2>1, Zenon
<1> QED
  BY <1>1, <1>3, <1>4, <1>5, <1>6, <1>7, Zenon

\* popcli keeps the invariant.
LEMMA PopcliStep ==
    ASSUME SpinlockAssumption, SInv, NEW c \in Cpus, NEW t \in Threads, popcli(c, t)
    PROVE  SInv'
<1>1. /\ th[t].at = "popcli" /\ run[c] = t /\ UNCHANGED <<intena, locked, cpu, run>>
      /\ IsFiniteSet(th[t].held) /\ Cardinality(th[t].held) \in Nat
      /\ ncli[c] = Cardinality(th[t].held) + 1
      /\ th[t].held = {} <=> ncli[c] = 1
      /\ eflags' \in [Cpus -> BOOLEAN] /\ eflags'[c] = (ncli[c] = 1 /\ intena[c])
      /\ \A d \in Cpus \ {c} : eflags'[d] = eflags[d]
  BY PopcliFacts, Zenon
<1>2. AtOk(th[t])
  BY Zenon DEF SInv, AtInv
<1>3. /\ ncli' \in [Cpus -> Nat] /\ ncli'[c] = Cardinality(th[t].held)
      /\ \A d \in Cpus \ {c} : ncli'[d] = ncli[d]
  <2>1. ncli \in [Cpus -> Nat] /\ ncli' = [ncli EXCEPT ![c] = @ - 1]
    BY Zenon DEF SInv, TypeOK, popcli
  <2> QED
    BY <1>1, <2>1
<1>4. /\ th' \in [Threads -> Thread] /\ th'[t].at = "run"
      /\ th'[t].held = th[t].held /\ th'[t].intr = th[t].intr
      /\ th'[t].was = IF th[t].held = {} THEN {} ELSE th[t].was
      /\ \A u \in Threads \ {t} : th'[u] = th[u]
  <2>1. th \in [Threads -> Thread] /\ th[t] \in Thread
    BY Zenon DEF SInv, TypeOK
  <2>2. th' = [th EXCEPT ![t].at = "run", ![t].lk = NoLock, ![t].was = IF th[t].held = {} THEN {} ELSE @]
    BY Zenon DEF popcli
  <2>3. th'[t] = [th[t] EXCEPT !.at = "run", !.lk = NoLock, !.was = IF th[t].held = {} THEN {} ELSE @]
    BY <2>1, <2>2, Zenon
  <2>4. /\ th'[t].at = "run" /\ th'[t].held = th[t].held /\ th'[t].intr = th[t].intr
        /\ th'[t].was = IF th[t].held = {} THEN {} ELSE th[t].was
    BY <2>1, <2>3, Zenon DEF Thread
  <2>5. th'[t] \in Thread
    <3>1. th[t].was \in SUBSET BOOLEAN /\ {} \in SUBSET BOOLEAN
      BY <2>1, Zenon DEF Thread
    <3>2. PICK w \in SUBSET BOOLEAN : th'[t] = [th[t] EXCEPT !.at = "run", !.lk = NoLock, !.was = w]
      <4>1. CASE th[t].held = {}
        BY <2>3, <3>1, <4>1, Zenon
      <4>2. CASE th[t].held # {}
        BY <2>3, <3>1, <4>2, Zenon
      <4> QED
        BY <4>1, <4>2, Zenon
    <3> QED
      BY <2>1, <3>2, Zenon DEF Thread, Steps
  <2> QED
    BY <2>1, <2>2, <2>4, <2>5, Zenon
<1>5. Turn(c, t)
  BY <1>1, <1>3, <1>4, Zenon DEF Turn
<1>6. TypeOK'
  BY <1>1, <1>3, <1>4, Zenon DEF SInv, TypeOK
<1>7. AtInv'
  <2>1. AtOk(th'[t])
    BY <1>2, <1>4, Zenon DEF AtOk
  <2> QED
    BY <1>5, <2>1, AtKept, Zenon
<1>8. OwnInv'
  <2>1. \A k \in Locks : Owns(th'[t], k) <=> Owns(th[t], k)
    BY <1>1, <1>4, Zenon DEF Owns
  <2> QED
    BY <1>1, <1>5, <2>1, OwnKept, Zenon
<1>9. NamedInv'
  <2>1. \A k \in Locks : Keeps(th'[t], k) <=> Keeps(th[t], k)
    BY <1>1, <1>4, Zenon DEF Keeps
  <2> QED
    BY <1>1, <1>5, <2>1, NamedKept, Zenon
<1>10. DepthInv'
  <2>1. ncli'[c] > 0 => eflags'[c] = FALSE
    BY <1>1, <1>3
  <2>2. DepthOk(th'[t], ncli'[c], eflags'[c])
    BY <1>1, <1>3, <1>4, <2>1 DEF DepthOk, Extra
  <2> QED
    BY <1>5, <2>2, DepthKept, Zenon
<1>11. FlagInv'
  <2>1. ASSUME t \in Procs, ncli'[c] > 0 PROVE th'[t].was \subseteq {intena'[c]}
    <3>1. th[t].held # {} /\ ncli[c] > 0
      BY <1>1, <1>3, <2>1
    <3>2. th[t].was \subseteq {intena[c]}
      BY <1>1, <2>1, <3>1, Zenon DEF SInv, FlagInv
    <3> QED
      BY <1>1, <1>4, <3>1, <3>2, Zenon
  <2> QED
    BY <1>5, <2>1, FlagKept, Zenon
<1> QED
  BY <1>5, <1>6, <1>7, <1>8, <1>9, <1>10, <1>11, WhoKept, Zenon DEF SInv

-----------------------------------------------------------------------------
(* Interrupts *)

\* A CPU that can be interrupted has a thread with no lock, which is not in the
\* masked part of acquire or release.
LEMMA Unmasked ==
    ASSUME SInv, NEW c \in Cpus, eflags[c]
    PROVE  /\ th[run[c]].at \in {"run", "pushcli"} /\ th[run[c]].held = {} /\ ncli[c] = 0
<1> DEFINE t == run[c]
<1>1. DepthOk(th[t], ncli[c], eflags[c]) /\ AtOk(th[t]) /\ ncli[c] \in Nat /\ th[t].at \in Steps
  BY Zenon DEF SInv, DepthInv, AtInv, TypeOK, Thread
<1> HIDE DEF t
<1>2. ncli[c] = 0
  BY <1>1 DEF DepthOk
<1>3. IsFiniteSet(th[t].held) /\ Cardinality(th[t].held) \in Nat
  BY <1>1, FS_CardinalityType, Zenon DEF DepthOk
<1>4. Cardinality(th[t].held) = 0 /\ th[t].at \notin {"spin", "got", "popcli"}
  BY <1>1, <1>2, <1>3 DEF DepthOk, Extra
<1>5. th[t].held = {}
  BY <1>3, <1>4, FS_EmptySet, Zenon
<1>6. th[t].at # "unlock"
  BY <1>1, <1>5, Zenon DEF AtOk
<1> QED
  BY <1>1, <1>2, <1>4, <1>5, <1>6, Zenon DEF Steps, t

\* A thread in no lock operation and without locks has ncli at zero.
LEMMA Unlocked ==
    ASSUME SInv, NEW c \in Cpus, th[run[c]].at = "run", th[run[c]].held = {}
    PROVE  ncli[c] = 0
<1>1. DepthOk(th[run[c]], ncli[c], eflags[c])
  BY Zenon DEF SInv, DepthInv
<1> QED
  BY <1>1, FS_EmptySet DEF DepthOk, Extra

\* A step of a thread that has no lock before and after, and is in the unmasked part
\* of acquire or outside of it, keeps the invariant (interrupts, iret and sti).
LEMMA UnmaskedTurn ==
    ASSUME SpinlockAssumption, SInv, NEW c \in Cpus, NEW t \in Threads, Turn(c, t), TypeOK',
           locked' = locked, cpu' = cpu, ncli' = ncli, intena' = intena, ncli[c] = 0,
           th[t].at \in {"run", "pushcli"}, th[t].held = {},
           th'[t].at \in {"run", "pushcli"}, th'[t].held = {}, AtOk(th'[t])
    PROVE  SInv'
<1>1. AtInv'
  BY AtKept, Zenon
<1>2. OwnInv'
  <2>1. \A k \in Locks : Owns(th'[t], k) <=> Owns(th[t], k)
    BY Zenon DEF Owns
  <2> QED
    BY <2>1, OwnKept, Zenon
<1>3. NamedInv'
  <2>1. \A k \in Locks : Keeps(th'[t], k) <=> Keeps(th[t], k)
    BY Zenon DEF Keeps
  <2> QED
    BY <2>1, NamedKept, Zenon
<1>4. DepthInv'
  <2>1. IsFiniteSet({}) /\ Cardinality({}) = 0
    BY FS_EmptySet, Zenon
  <2>2. DepthOk(th'[t], ncli'[c], eflags'[c])
    BY <2>1 DEF DepthOk, Extra
  <2> QED
    BY <2>2, DepthKept, Zenon
<1>5. FlagInv'
  <2>1. ~(ncli'[c] > 0)
    OBVIOUS
  <2> QED
    BY <2>1, FlagKept, Zenon
<1> QED
  BY <1>1, <1>2, <1>3, <1>4, <1>5, WhoKept, Zenon DEF SInv

\* An interrupt keeps the invariant: it finds its thread unmasked.
LEMMA InterruptStep ==
    ASSUME SpinlockAssumption, SInv, NEW c \in Cpus, NEW t \in Threads, interrupt(c, t)
    PROVE  SInv'
<1> DEFINE s == [at |-> th[t].at, lk |-> th[t].lk, if |-> th[t].if]
<1>1. run[c] = t /\ UNCHANGED <<ncli, intena, locked, cpu, run>>
  BY Zenon DEF interrupt
<1>2. th[t].at \in {"run", "pushcli"} /\ th[t].held = {} /\ ncli[c] = 0
  BY <1>1, Unmasked, Zenon DEF interrupt
<1>3. eflags' \in [Cpus -> BOOLEAN] /\ \A d \in Cpus \ {c} : eflags'[d] = eflags[d]
  BY Zenon DEF SInv, TypeOK, interrupt
<1>4. AtOk(th[t])
  BY Zenon DEF SInv, AtInv
<1>5. th \in [Threads -> Thread] /\ th[t] \in Thread
  BY Zenon DEF SInv, TypeOK
<1>6. s \in Suspended /\ (s.at = "pushcli" => s.lk \in Locks)
  BY <1>2, <1>4, <1>5, Zenon DEF Suspended, Thread, AtOk
<1> HIDE DEF s
<1>7. th' = [th EXCEPT ![t].at = "run", ![t].lk = NoLock, ![t].intr = {s}]
  BY Zenon DEF interrupt, s
<1>8. th'[t] = [th[t] EXCEPT !.at = "run", !.lk = NoLock, !.intr = {s}]
  BY <1>5, <1>7, Zenon
<1>9. th'[t].at = "run" /\ th'[t].held = {} /\ th'[t].intr = {s}
  BY <1>2, <1>5, <1>8, Zenon DEF Thread
<1>10. th'[t] \in Thread
  <2>1. PICK i \in SUBSET Suspended : th'[t] = [th[t] EXCEPT !.at = "run", !.lk = NoLock, !.intr = i]
    BY <1>6, <1>8, Zenon
  <2> QED
    BY <1>5, <2>1, Zenon DEF Thread, Steps
<1>11. th' \in [Threads -> Thread] /\ \A u \in Threads \ {t} : th'[u] = th[u]
  BY <1>5, <1>7, <1>10, Zenon
<1>12. Turn(c, t)
  BY <1>1, <1>3, <1>11, Zenon DEF Turn
<1>13. TypeOK'
  BY <1>1, <1>3, <1>11, Zenon DEF SInv, TypeOK
<1>14. AtOk(th'[t])
  BY <1>6, <1>9, Zenon DEF AtOk
<1> QED
  BY <1>1, <1>2, <1>9, <1>12, <1>13, <1>14, UnmaskedTurn, Zenon

\* The end of a handler keeps the invariant: the code goes on at the step it had
\* reached.
LEMMA IretStep ==
    ASSUME SpinlockAssumption, SInv, NEW c \in Cpus, NEW t \in Threads, iret(c, t)
    PROVE  SInv'
<1>1. run[c] = t /\ th[t].at = "run" /\ th[t].held = {} /\ UNCHANGED <<ncli, intena, locked, cpu, run>>
  BY Zenon DEF iret, On
<1>2. ncli[c] = 0
  BY <1>1, Unlocked, Zenon
<1>3. eflags' \in [Cpus -> BOOLEAN] /\ \A d \in Cpus \ {c} : eflags'[d] = eflags[d]
  BY Zenon DEF SInv, TypeOK, iret
<1>4. AtOk(th[t])
  BY Zenon DEF SInv, AtInv
<1>5. th \in [Threads -> Thread] /\ th[t] \in Thread
  BY Zenon DEF SInv, TypeOK
<1>6. PICK s \in th[t].intr :
        th' = [th EXCEPT ![t].at = s.at, ![t].lk = s.lk, ![t].if = s.if, ![t].intr = {}]
  BY Zenon DEF iret
<1>7. s \in Suspended /\ (s.at = "pushcli" => s.lk \in Locks)
  <2>1. th[t].intr \subseteq Suspended
    BY <1>5, Zenon DEF Thread
  <2> QED
    BY <1>4, <2>1, Zenon DEF AtOk
<1>8. th'[t] = [th[t] EXCEPT !.at = s.at, !.lk = s.lk, !.if = s.if, !.intr = {}]
  BY <1>5, <1>6, Zenon
<1>9. th'[t].at = s.at /\ th'[t].lk = s.lk /\ th'[t].held = {} /\ th'[t].intr = {}
  BY <1>1, <1>5, <1>8, Zenon DEF Thread
<1>10. s.at \in {"run", "pushcli"} /\ s.lk \in Locks \cup {NoLock} /\ s.if \in BOOLEAN
  BY <1>7, Zenon DEF Suspended
<1>11. th'[t] \in Thread
  BY <1>5, <1>8, <1>10, Zenon DEF Thread, Steps
<1>12. th' \in [Threads -> Thread] /\ \A u \in Threads \ {t} : th'[u] = th[u]
  BY <1>5, <1>6, <1>11
<1>13. Turn(c, t)
  BY <1>1, <1>3, <1>12, Zenon DEF Turn
<1>14. TypeOK'
  BY <1>1, <1>3, <1>12, Zenon DEF SInv, TypeOK
<1>15. AtOk(th'[t])
  BY <1>7, <1>9, <1>10, Zenon DEF AtOk
<1> QED
  BY <1>1, <1>2, <1>9, <1>10, <1>13, <1>14, <1>15, UnmaskedTurn, Zenon

\* sti keeps the invariant.
LEMMA StiStep ==
    ASSUME SpinlockAssumption, SInv, NEW c \in Cpus, NEW t \in Threads, sti(c, t)
    PROVE  SInv'
<1>1. run[c] = t /\ th[t].at = "run" /\ th[t].held = {} /\ UNCHANGED <<ncli, intena, locked, cpu, run, th>>
  BY Zenon DEF sti, On
<1>2. ncli[c] = 0
  BY <1>1, Unlocked, Zenon
<1>3. eflags' \in [Cpus -> BOOLEAN] /\ \A d \in Cpus \ {c} : eflags'[d] = eflags[d]
  BY Zenon DEF SInv, TypeOK, sti
<1>4. Turn(c, t)
  BY <1>1, <1>3, Zenon DEF Turn
<1>5. TypeOK'
  BY <1>1, <1>3, Zenon DEF SInv, TypeOK
<1>6. AtOk(th'[t])
  BY <1>1, Zenon DEF SInv, AtInv
<1> QED
  BY <1>1, <1>2, <1>4, <1>5, <1>6, UnmaskedTurn, Zenon

-----------------------------------------------------------------------------
(* Switches *)

\* CPU c goes from thread a to thread b, and ptable.lock with it.
Switch(c, a, b) ==
    /\ run[c] = a /\ a # b /\ b \in Procs \cup {c} /\ \A d \in Cpus : run[d] # b
    /\ th[a].at = "run" /\ th[a].held = {ptable}
    /\ run' = [run EXCEPT ![c] = b] /\ th' \in [Threads -> Thread]
    /\ th'[a].at = "run" /\ th'[a].held = {} /\ th'[a].intr = th[a].intr
    /\ th'[b].at = "run" /\ th'[b].held = {ptable} /\ th'[b].intr = th[b].intr
    /\ \A u \in Threads \ {a, b} : th'[u] = th[u]
    /\ UNCHANGED <<eflags, ncli, locked, cpu>>

\* A switch keeps all of the invariant but the saved flags: what the thread that
\* leaves owned, the thread that comes owns on the same CPU.
LEMMA SwitchKeeps ==
    ASSUME SpinlockAssumption, SInv, NEW c \in Cpus, NEW a \in Threads, NEW b \in Threads, Switch(c, a, b)
    PROVE  WhoInv' /\ AtInv' /\ OwnInv' /\ NamedInv' /\ DepthInv'
<1>1. /\ run \in [Cpus -> Threads] /\ run'[c] = b /\ \A d \in Cpus \ {c} : run'[d] = run[d] /\ run[d] # a /\ run[d] # b
  BY DEF SInv, TypeOK, WhoInv, Switch
<1>2. th[b].at = "run" /\ th[b].held = {}
  BY Zenon DEF SInv, WhoInv, Switch
<1>3. WhoInv'
  <2>1. \A d \in Cpus : run'[d] \in Procs \cup {d}
    BY <1>1 DEF SInv, WhoInv, Switch
  <2>2. \A d, e \in Cpus : run'[d] = run'[e] => d = e
    BY <1>1 DEF SInv, WhoInv
  <2>3. ASSUME NEW u \in Threads, \A d \in Cpus : run'[d] # u PROVE th'[u].at = "run" /\ th'[u].held = {}
    <3>1. u # b
      BY <1>1, <2>3, Zenon
    <3>2. CASE u = a
      BY <3>2, Zenon DEF Switch
    <3>3. CASE u # a
      <4>1. \A d \in Cpus : run[d] # u
        BY <1>1, <2>3, <3>3, Zenon DEF Switch
      <4> QED
        BY <3>1, <3>3, <4>1 DEF SInv, WhoInv, Switch
    <3> QED
      BY <3>2, <3>3, Zenon
  <2> QED
    BY <2>1, <2>2, <2>3, Zenon DEF WhoInv
<1>4. AtInv'
  <2>1. ASSUME NEW u \in Threads PROVE AtOk(th'[u])
    <3>1. AtOk(th[u])
      BY Zenon DEF SInv, AtInv
    <3>2. CASE u \in {a, b}
      BY <3>1, <3>2, Zenon DEF Switch, AtOk
    <3>3. CASE u \notin {a, b}
      <4>1. th'[u] = th[u]
        BY <3>3, Zenon DEF Switch
      <4> QED
        BY <3>1, <4>1, Zenon
    <3> QED
      BY <3>2, <3>3, Zenon
  <2> QED
    BY <2>1, Zenon DEF AtInv, AtOk
<1>5. OwnInv'
  <2>1. \A k \in Locks : (Owns(th[a], k) <=> k = ptable) /\ ~Owns(th[b], k)
    BY <1>2, Zenon DEF Switch, Owns
  <2>2. \A k \in Locks : (Owns(th'[b], k) <=> k = ptable) /\ ~Owns(th'[a], k)
    BY Zenon DEF Switch, Owns
  <2>3. \A u \in Threads \ {a, b} : \A k \in Locks : Owns(th'[u], k) <=> Owns(th[u], k)
    BY Zenon DEF Switch
  <2>4. ASSUME NEW k \in Locks PROVE locked'[k] <=> \E u \in Threads : Owns(th'[u], k)
    <3>1. locked[k] <=> \E u \in Threads : Owns(th[u], k)
      BY Zenon DEF SInv, OwnInv
    <3>2. (\E u \in Threads : Owns(th'[u], k)) <=> (\E u \in Threads : Owns(th[u], k))
      BY <2>1, <2>2, <2>3, Zenon
    <3> QED
      BY <3>1, <3>2, Zenon DEF Switch
  <2>5. ASSUME NEW k \in Locks, NEW u \in Threads, NEW v \in Threads, Owns(th'[u], k), Owns(th'[v], k) PROVE u = v
    <3>1. \A x, y \in Threads : Owns(th[x], k) /\ Owns(th[y], k) => x = y
      BY Zenon DEF SInv, OwnInv
    <3> QED
      BY <2>1, <2>2, <2>3, <2>5, <3>1, Zenon
  <2> QED
    BY <2>4, <2>5 DEF OwnInv, Owns
<1>6. NamedInv'
  <2>1. ASSUME NEW d \in Cpus, NEW k \in Locks PROVE cpu'[k] = d <=> Keeps(th'[run'[d]], k)
    <3>1. cpu[k] = d <=> Keeps(th[run[d]], k)
      BY Zenon DEF SInv, NamedInv
    <3>2. cpu'[k] = cpu[k] /\ run[d] \in Threads
      BY <1>1, Zenon DEF Switch
    <3>3. CASE d = c
      <4>1. Keeps(th'[b], k) <=> Keeps(th[a], k)
        BY Zenon DEF Switch, Keeps
      <4> QED
        BY <1>1, <3>1, <3>2, <3>3, <4>1, Zenon DEF Switch
    <3>4. CASE d # c
      <4>1. th'[run[d]] = th[run[d]]
        BY <1>1, <3>2, <3>4, Zenon DEF Switch
      <4> QED
        BY <1>1, <3>1, <3>2, <3>4, <4>1, Zenon
    <3> QED
      BY <3>3, <3>4, Zenon
  <2> QED
    BY <2>1, Zenon DEF NamedInv, Keeps
<1>7. DepthInv'
  <2>1. ASSUME NEW d \in Cpus PROVE DepthOk(th'[run'[d]], ncli'[d], eflags'[d])
    <3>1. DepthOk(th[run[d]], ncli[d], eflags[d])
      BY Zenon DEF SInv, DepthInv
    <3>2. ncli'[d] = ncli[d] /\ eflags'[d] = eflags[d] /\ run[d] \in Threads
      BY <1>1, Zenon DEF Switch
    <3>3. CASE d = c
      <4>1. run'[d] = b /\ run[d] = a
        BY <1>1, <3>3, Zenon DEF Switch
      <4>2. th'[b].held = th[a].held /\ th'[b].at = th[a].at
        BY Zenon DEF Switch
      <4> QED
        BY <3>1, <3>2, <4>1, <4>2, Zenon DEF DepthOk, Extra
    <3>4. CASE d # c
      <4>1. th'[run[d]] = th[run[d]]
        BY <1>1, <3>2, <3>4, Zenon DEF Switch
      <4> QED
        BY <1>1, <3>1, <3>2, <3>4, <4>1, Zenon
    <3> QED
      BY <3>3, <3>4, Zenon
  <2> QED
    BY <2>1, Zenon DEF DepthInv, DepthOk, Extra
<1> QED
  BY <1>3, <1>4, <1>5, <1>6, <1>7, Zenon

\* sched keeps the invariant: it saves the flag of the process that leaves.
LEMMA SchedStep ==
    ASSUME SpinlockAssumption, SInv, NEW c \in Cpus, NEW t \in Threads, sched(c, t)
    PROVE  SInv'
<1>1. /\ t \in Procs /\ run[c] = t /\ th[t].at = "run" /\ th[t].held = {ptable}
      /\ run' = [run EXCEPT ![c] = c] /\ UNCHANGED <<eflags, ncli, intena, locked, cpu>>
      /\ th' = [th EXCEPT ![t].saved = {intena[c]}, ![t].held = {}, ![c].held = {ptable}]
  BY Zenon DEF sched, On
<1>2. c \notin Procs /\ c # t /\ c \in Threads /\ ptable \in Locks
  BY <1>1, Zenon DEF SpinlockAssumption, Threads
<1>3. \A d \in Cpus : run[d] # c
  BY <1>1, <1>2 DEF SInv, WhoInv
<1>4. th \in [Threads -> Thread] /\ th[t] \in Thread /\ th[c] \in Thread /\ {intena[c]} \in SUBSET BOOLEAN
  BY <1>2, Zenon DEF SInv, TypeOK
<1>5. th[c].at = "run" /\ th[c].held = {}
  BY <1>2, <1>3, Zenon DEF SInv, WhoInv
<1>6. /\ th'[t] = [th[t] EXCEPT !.saved = {intena[c]}, !.held = {}]
      /\ th'[c] = [th[c] EXCEPT !.held = {ptable}]
      /\ \A u \in Threads \ {t, c} : th'[u] = th[u]
      /\ DOMAIN th' = Threads /\ th' = [u \in Threads |-> th'[u]]
  BY <1>1, <1>2, <1>4, Zenon
<1>7. /\ th'[t].saved = {intena[c]} /\ th'[t].at = "run" /\ th'[t].held = {} /\ th'[t].intr = th[t].intr
      /\ th'[t].was = th[t].was
  BY <1>1, <1>4, <1>6 DEF Thread
<1>8. th'[c].at = "run" /\ th'[c].held = {ptable} /\ th'[c].intr = th[c].intr
  BY <1>4, <1>5, <1>6, Zenon DEF Thread
<1>9. th'[t] \in Thread
  <2>1. PICK v \in SUBSET BOOLEAN : th'[t] = [th[t] EXCEPT !.saved = v, !.held = {}]
    BY <1>4, <1>6, Zenon
  <2> QED
    BY <1>4, <2>1, Zenon DEF Thread
<1>10. th'[c] \in Thread
  BY <1>2, <1>4, <1>6 DEF Thread
<1>11. th' \in [Threads -> Thread]
  BY <1>4, <1>6, <1>9, <1>10, Zenon
<1>12. Switch(c, t, c)
  BY <1>1, <1>2, <1>3, <1>6, <1>7, <1>8, <1>11, Zenon DEF Switch
<1>13. WhoInv' /\ AtInv' /\ OwnInv' /\ NamedInv' /\ DepthInv'
  BY <1>2, <1>12, SwitchKeeps, Zenon
<1>14. TypeOK'
  BY <1>1, <1>2, <1>11, Zenon DEF SInv, TypeOK
<1>15. FlagInv'
  <2>1. run \in [Cpus -> Threads] /\ run'[c] = c /\ \A d \in Cpus \ {c} : run'[d] = run[d]
    BY <1>1, Zenon DEF SInv, TypeOK
  <2>2. ASSUME NEW d \in Cpus, run'[d] \in Procs, ncli'[d] > 0 PROVE th'[run'[d]].was \subseteq {intena'[d]}
    <3>1. d # c /\ run'[d] = run[d] /\ run[d] \in Threads
      BY <1>2, <2>1, <2>2, Zenon
    <3>2. run[d] # t /\ run[d] # c
      BY <1>1, <1>3, <3>1, Zenon DEF SInv, WhoInv
    <3>3. th'[run[d]] = th[run[d]]
      BY <1>6, <3>1, <3>2, Zenon
    <3> QED
      BY <1>1, <2>2, <3>1, <3>3, Zenon DEF SInv, FlagInv
  <2>3. ASSUME NEW u \in Procs, \A d \in Cpus : run'[d] # u
        PROVE  th'[u].was \subseteq th'[u].saved /\ (th'[u].saved = {} \/ \E x \in BOOLEAN : th'[u].saved = {x})
    <3>1. CASE u = t
      <4>1. DepthOk(th[t], ncli[c], eflags[c])
        BY <1>1, Zenon DEF SInv, DepthInv
      <4>2. Cardinality({ptable}) = 1
        BY FS_Singleton, Zenon
      <4>3. ncli[c] > 0
        BY <1>1, <4>1, <4>2 DEF DepthOk, Extra
      <4>4. th[t].was \subseteq {intena[c]} /\ intena[c] \in BOOLEAN
        BY <1>1, <4>3, Zenon DEF SInv, FlagInv, TypeOK
      <4> QED
        BY <1>7, <3>1, <4>4, Zenon
    <3>2. CASE u # t
      <4>1. u \in Threads /\ u # c /\ \A d \in Cpus : run[d] # u
        BY <1>1, <1>2, <2>1, <2>3, <3>2, Zenon DEF Threads
      <4>2. th'[u] = th[u]
        BY <1>6, <3>2, <4>1, Zenon
      <4> QED
        BY <4>1, <4>2, Zenon DEF SInv, FlagInv
    <3> QED
      BY <3>1, <3>2, Zenon
  <2> QED
    BY <2>2, <2>3, Zenon DEF FlagInv
<1> QED
  BY <1>13, <1>14, <1>15, Zenon DEF SInv

\* The flag that sched puts back is a flag.
LEMMA SavedFlag ==
    ASSUME NEW S, NEW b \in BOOLEAN
    PROVE  \E x \in BOOLEAN : x = IF S = {} THEN b ELSE TRUE \in S
<1>1. (TRUE \in S) \in BOOLEAN
  OBVIOUS
<1>2. (IF S = {} THEN b ELSE TRUE \in S) \in BOOLEAN
  BY <1>1, Zenon
<1> QED
  BY <1>2, Zenon

\* scheduler's swtch keeps the invariant: sched's end puts the saved flag back.
LEMMA SwtchStep ==
    ASSUME SpinlockAssumption, SInv, NEW c \in Cpus, NEW t \in Threads, swtch(c, t)
    PROVE  SInv'
<1>1. /\ t \in Procs /\ run[c] = c /\ th[c].at = "run" /\ th[c].held = {ptable}
      /\ \A d \in Cpus : run[d] # t
      /\ run' = [run EXCEPT ![c] = t] /\ UNCHANGED <<eflags, ncli, locked, cpu>>
      /\ th' = [th EXCEPT ![c].held = {}, ![t].held = {ptable}]
  BY Zenon DEF swtch, On
<1>2. c \notin Procs /\ c # t /\ c \in Threads /\ ptable \in Locks
  BY <1>1, Zenon DEF SpinlockAssumption, Threads
<1>3. th \in [Threads -> Thread] /\ th[t] \in Thread /\ th[c] \in Thread
  BY <1>2, Zenon DEF SInv, TypeOK
<1>4. th[t].at = "run" /\ th[t].held = {}
  BY <1>1, Zenon DEF SInv, WhoInv
<1>5. /\ intena' \in [Cpus -> BOOLEAN]
      /\ intena'[c] = IF th[t].saved = {} THEN intena[c] ELSE TRUE \in th[t].saved
      /\ \A d \in Cpus \ {c} : intena'[d] = intena[d]
  <2>1. intena \in [Cpus -> BOOLEAN]
    BY Zenon DEF SInv, TypeOK
  <2>2. intena' = [intena EXCEPT ![c] = IF th[t].saved = {} THEN @ ELSE TRUE \in th[t].saved]
    BY Zenon DEF swtch, Resumed
  <2>3. PICK x \in BOOLEAN : x = IF th[t].saved = {} THEN intena[c] ELSE TRUE \in th[t].saved
    BY <2>1, SavedFlag, Zenon
  <2>4. intena' = [intena EXCEPT ![c] = x]
    BY <2>2, <2>3, Zenon
  <2> QED
    BY <2>1, <2>3, <2>4, Zenon
<1>6. /\ th'[t] = [th[t] EXCEPT !.held = {ptable}]
      /\ th'[c] = [th[c] EXCEPT !.held = {}]
      /\ \A u \in Threads \ {t, c} : th'[u] = th[u]
  BY <1>1, <1>2, <1>3, Zenon
<1>7. /\ th'[t].at = "run" /\ th'[t].held = {ptable} /\ th'[t].intr = th[t].intr /\ th'[t].was = th[t].was
      /\ th'[c].at = "run" /\ th'[c].held = {} /\ th'[c].intr = th[c].intr
  <2>1. /\ th'[t].at = th[t].at /\ th'[t].held = {ptable} /\ th'[t].intr = th[t].intr
        /\ th'[t].was = th[t].was
    BY <1>3, <1>6 DEF Thread
  <2>2. th'[c].at = th[c].at /\ th'[c].held = {} /\ th'[c].intr = th[c].intr
    BY <1>3, <1>6, Zenon DEF Thread
  <2> QED
    BY <1>1, <1>4, <2>1, <2>2, Zenon
<1>8. th'[t] \in Thread /\ th'[c] \in Thread
  BY <1>2, <1>3, <1>6 DEF Thread
<1>9. th' \in [Threads -> Thread]
  BY <1>1, <1>3, <1>6, <1>8, Zenon
<1>10. Switch(c, c, t)
  BY <1>1, <1>2, <1>6, <1>7, <1>9, Zenon DEF Switch
<1>11. WhoInv' /\ AtInv' /\ OwnInv' /\ NamedInv' /\ DepthInv'
  BY <1>2, <1>10, SwitchKeeps, Zenon
<1>12. TypeOK'
  BY <1>1, <1>2, <1>5, <1>9, Zenon DEF SInv, TypeOK
<1>13. FlagInv'
  <2>1. run \in [Cpus -> Threads] /\ run'[c] = t /\ \A d \in Cpus \ {c} : run'[d] = run[d]
    BY <1>1, Zenon DEF SInv, TypeOK
  <2>2. ASSUME NEW d \in Cpus, run'[d] \in Procs, ncli'[d] > 0 PROVE th'[run'[d]].was \subseteq {intena'[d]}
    <3>1. CASE d = c
      <4>1. /\ th[t].was \subseteq th[t].saved
            /\ th[t].saved = {} \/ \E x \in BOOLEAN : th[t].saved = {x}
        BY <1>1, Zenon DEF SInv, FlagInv
      <4>2. CASE th[t].saved = {}
        BY <1>7, <2>1, <3>1, <4>1, <4>2, Zenon
      <4>3. CASE th[t].saved # {}
        <5>1. PICK x \in BOOLEAN : th[t].saved = {x}
          BY <4>1, <4>3, Zenon
        <5>2. intena'[c] <=> TRUE \in th[t].saved
          BY <1>5, <4>3, Zenon
        <5>3. intena'[c] = x
          <6>1. intena'[c] \in BOOLEAN /\ x \in BOOLEAN
            BY <1>5, Zenon
          <6>2. intena'[c] <=> x
            BY <5>1, <5>2, Zenon
          <6> QED
            BY <6>1, <6>2, Zenon
        <5> QED
          BY <1>7, <2>1, <3>1, <4>1, <5>1, <5>3, Zenon
      <4> QED
        BY <4>2, <4>3, Zenon
    <3>2. CASE d # c
      <4>1. run'[d] = run[d] /\ run[d] \in Threads /\ run[d] # t /\ run[d] # c
        BY <1>1, <2>1, <3>2 DEF SInv, WhoInv
      <4>2. th'[run[d]] = th[run[d]]
        BY <1>6, <4>1, Zenon
      <4> QED
        BY <1>1, <1>5, <2>2, <3>2, <4>1, <4>2, Zenon DEF SInv, FlagInv
    <3> QED
      BY <3>1, <3>2, Zenon
  <2>3. ASSUME NEW u \in Procs, \A d \in Cpus : run'[d] # u
        PROVE  th'[u].was \subseteq th'[u].saved /\ (th'[u].saved = {} \/ \E x \in BOOLEAN : th'[u].saved = {x})
    <3>1. u # t /\ u # c /\ u \in Threads /\ \A d \in Cpus : run[d] # u
      BY <1>1, <1>2, <2>1, <2>3, Zenon DEF Threads
    <3>2. th'[u] = th[u]
      BY <1>6, <3>1, Zenon
    <3> QED
      BY <3>1, <3>2, Zenon DEF SInv, FlagInv
  <2> QED
    BY <2>2, <2>3, Zenon DEF FlagInv
<1> QED
  BY <1>11, <1>12, <1>13, Zenon DEF SInv

-----------------------------------------------------------------------------
(* The theorems *)

\* The invariant holds when the CPUs enter scheduler.
LEMMA SpinlockInit == ASSUME SpinlockAssumption, Init PROVE SInv
<1>1. /\ NewThread \in Thread /\ NewThread.at = "run" /\ NewThread.held = {} /\ NewThread.was = {}
      /\ NewThread.saved = {} /\ NewThread.intr = {}
  BY Zenon DEF NewThread, Thread, Steps
<1>2. /\ \A t \in Threads : th[t] = NewThread
      /\ \A c \in Cpus : run[c] = c /\ c \in Threads /\ ncli[c] = 0 /\ eflags[c] = FALSE
      /\ \A l \in Locks : locked[l] = FALSE /\ cpu[l] = NoCpu
  BY Zenon DEF Init, Threads
<1>3. TypeOK
  BY <1>1, Zenon DEF Init, TypeOK, Threads
<1>4. WhoInv
  BY <1>1, <1>2, Zenon DEF WhoInv
<1>5. AtInv
  BY <1>1, <1>2, Zenon DEF AtInv, AtOk
<1>6. OwnInv
  BY <1>1, <1>2, Zenon DEF OwnInv, Owns
<1>7. NamedInv
  BY <1>1, <1>2 DEF NamedInv, Keeps, SpinlockAssumption
<1>8. DepthInv
  BY <1>1, <1>2, FS_EmptySet DEF DepthInv, DepthOk, Extra
<1>9. FlagInv
  BY <1>1, <1>2, Zenon DEF FlagInv, Threads
<1> QED
  BY <1>3, <1>4, <1>5, <1>6, <1>7, <1>8, <1>9 DEF SInv

\* Every step keeps the invariant.
LEMMA SpinlockNext == ASSUME SpinlockAssumption, SInv, [Next]_vars PROVE SInv'
<1>1. CASE UNCHANGED vars
  BY <1>1 DEF vars, SInv, TypeOK, WhoInv, AtInv, OwnInv, NamedInv, DepthInv, FlagInv
<1>2. CASE Next
  <2>1. PICK c \in Cpus, t \in Threads : Step(c, t)
    BY <1>2, Zenon DEF Next
  <2>2. ASSUME NEW l \in LocksOf(t), acquire(c, t, l) PROVE SInv'
    <3>1. l \in Locks
      BY Zenon DEF LocksOf, SpinlockAssumption
    <3> QED
      BY <2>2, <3>1, AcquireStep, Zenon
  <2>3. ASSUME NEW l \in th[t].held, release(c, t, l) PROVE SInv'
    BY <2>3, ReleaseStep, Zenon
  <2> QED
    BY Zenon, <2>1, <2>2, <2>3, PushcliStep, XchgStep, AcquiredStep, UnlockStep, PopcliStep, InterruptStep,
       IretStep, StiStep, SchedStep, SwtchStep DEF Step
<1> QED
  BY <1>1, <1>2, Zenon

\* The invariant: for any number of CPUs, processes and locks, whatever interleaving
\* of acquire, release, interrupts, sched and swtch.
THEOREM SpinlockInvariance == ASSUME SpinlockAssumption PROVE Spec => []SInv
<1>1. Init => SInv
  BY SpinlockInit, Zenon
<1>2. SInv /\ [Next]_vars => SInv'
  BY SpinlockNext, Zenon
<1> QED
  BY <1>1, <1>2, PTL DEF Spec

\* MutualExclusion always holds: a lock that is locked has one thread that has taken
\* it, and one that is not has none, also when a process releases ptable.lock on
\* another CPU than it took it on, or in another thread (sched and scheduler).
THEOREM LocksExclude == ASSUME SpinlockAssumption PROVE Spec => []MutualExclusion
<1>1. SInv => MutualExclusion
  <2> SUFFICES ASSUME SInv, NEW l \in Locks
               PROVE  Cardinality({t \in Threads : Owns(th[t], l)}) = IF locked[l] THEN 1 ELSE 0
    BY Zenon DEF MutualExclusion, Owns
  <2>1. /\ locked[l] <=> \E t \in Threads : Owns(th[t], l)
        /\ \A t, u \in Threads : Owns(th[t], l) /\ Owns(th[u], l) => t = u
    BY Zenon DEF SInv, OwnInv
  <2>2. CASE locked[l]
    <3>1. PICK t \in Threads : Owns(th[t], l)
      BY <2>1, <2>2, Zenon
    <3>2. {u \in Threads : Owns(th[u], l)} = {t}
      BY <2>1, <3>1, Zenon
    <3> QED
      BY <2>2, <3>2, FS_Singleton, Zenon
  <2>3. CASE ~locked[l]
    <3>1. {u \in Threads : Owns(th[u], l)} = {}
      BY <2>1, <2>3, Zenon
    <3> QED
      BY <2>3, <3>1, FS_EmptySet, Zenon
  <2> QED
    BY <2>2, <2>3, Zenon
<1> QED
  BY <1>1, SpinlockInvariance, PTL

\* LockedMeansMasked always holds: a CPU whose thread has a lock, or waits for one,
\* takes no interrupt, so a handler never spins on a lock of the code it interrupted.
THEOREM LockersAreMasked == ASSUME SpinlockAssumption PROVE Spec => []LockedMeansMasked
<1>1. SInv => LockedMeansMasked
  <2> SUFFICES ASSUME SInv, NEW c \in Cpus,
                      th[run[c]].held # {} \/ th[run[c]].at \in {"spin", "got", "unlock", "popcli"}
               PROVE  ~eflags[c] /\ ncli[c] > 0
    BY Zenon DEF LockedMeansMasked
  <2>1. th[run[c]].at \notin {"run", "pushcli"} \/ th[run[c]].held # {}
    BY Zenon
  <2>2. ~eflags[c]
    BY <2>1, Unmasked, Zenon
  <2>3. DepthOk(th[run[c]], ncli[c], eflags[c]) /\ AtOk(th[run[c]])
    BY Zenon DEF SInv, DepthInv, AtInv, TypeOK
  <2>4. IsFiniteSet(th[run[c]].held) /\ Cardinality(th[run[c]].held) \in Nat
    BY <2>3, FS_CardinalityType, Zenon DEF DepthOk
  <2>5. th[run[c]].held # {} => Cardinality(th[run[c]].held) > 0
    BY <2>4, FS_EmptySet
  <2>6. ncli[c] > 0
    BY <2>3, <2>4, <2>5 DEF DepthOk, Extra, AtOk
  <2> QED
    BY <2>2, <2>6, Zenon
<1> QED
  BY <1>1, SpinlockInvariance, PTL

\* NoPanic always holds: the panics "acquire", "release", "popcli - interruptible",
\* "popcli", "sched locks" and "sched interruptible" are out of reach.
THEOREM LocksNeverPanic == ASSUME SpinlockAssumption PROVE Spec => []NoPanic
<1>1. SInv => NoPanic
  <2> SUFFICES ASSUME SInv, NEW c \in Cpus
               PROVE  /\ th[run[c]].at = "spin" => ~holding(c, th[run[c]].lk)
                      /\ th[run[c]].at = "run" => \A l \in th[run[c]].held : holding(c, l)
                      /\ th[run[c]].at = "popcli" => ~eflags[c] /\ ncli[c] > 0
                      /\ th[run[c]].at = "run" /\ th[run[c]].held = {ptable} => ncli[c] = 1 /\ ~eflags[c]
    BY Zenon DEF NoPanic
  <2>1. /\ DepthOk(th[run[c]], ncli[c], eflags[c]) /\ AtOk(th[run[c]]) /\ run[c] \in Threads
        /\ th[run[c]].held \subseteq Locks
    BY Zenon DEF SInv, DepthInv, AtInv, TypeOK, Thread
  <2>2. \A l \in Locks : cpu[l] = c <=> Keeps(th[run[c]], l)
    BY Zenon DEF SInv, NamedInv
  <2>3. ASSUME th[run[c]].at = "spin" PROVE ~holding(c, th[run[c]].lk)
    <3>1. th[run[c]].lk \in Locks /\ \A k \in th[run[c]].held : k < th[run[c]].lk
      BY <2>1, <2>3, Zenon DEF AtOk
    <3>2. th[run[c]].lk \in Nat
      BY <3>1, Zenon DEF SpinlockAssumption
    <3>3. ~(th[run[c]].lk < th[run[c]].lk)
      BY <3>2
    <3>4. th[run[c]].lk \notin th[run[c]].held
      BY <3>1, <3>3, Zenon
    <3> QED
      BY <2>2, <3>1, <3>4, Zenon DEF holding, Keeps
  <2>4. ASSUME th[run[c]].at = "run", NEW l \in th[run[c]].held PROVE holding(c, l)
    <3>1. l \in Locks /\ Keeps(th[run[c]], l) /\ Owns(th[run[c]], l)
      BY <2>1, <2>4, Zenon DEF Keeps, Owns
    <3>2. locked[l]
      BY <2>1, <3>1, Zenon DEF SInv, OwnInv
    <3> QED
      BY <2>2, <3>1, <3>2, Zenon DEF holding
  <2>5. IsFiniteSet(th[run[c]].held) /\ Cardinality(th[run[c]].held) \in Nat
    BY <2>1, FS_CardinalityType, Zenon DEF DepthOk
  <2>6. th[run[c]].at = "popcli" => ~eflags[c] /\ ncli[c] > 0
    BY <2>1, <2>5 DEF DepthOk, Extra
  <2>7. ASSUME th[run[c]].at = "run", th[run[c]].held = {ptable} PROVE ncli[c] = 1 /\ ~eflags[c]
    <3>1. Cardinality({ptable}) = 1
      BY FS_Singleton, Zenon
    <3> QED
      BY <2>1, <2>7, <3>1 DEF DepthOk, Extra
  <2> QED
    BY <2>3, <2>4, <2>6, <2>7, Zenon
<1> QED
  BY <1>1, SpinlockInvariance, PTL

\* FlagRestored always holds: the popcli that gives up a process's last lock leaves
\* interrupts as they were before its first one, whatever sched and the CPUs it has
\* been on since did to intena.
THEOREM FlagsAreRestored == ASSUME SpinlockAssumption PROVE Spec => [][FlagRestored]_vars
<1>1. ASSUME SInv, [Next]_vars PROVE [FlagRestored]_vars
  <2>1. SUFFICES ASSUME Next PROVE FlagRestored
    BY <1>1, Zenon
  <2>2. SUFFICES ASSUME NEW d \in Cpus, NEW u \in Procs, run[d] = u, th[u].at = "popcli",
                        th'[u].at = "run", th[u].held = {}, run'[d] = u
                 PROVE  th[u].was \subseteq {eflags'[d]}
    BY Zenon DEF FlagRestored, On
  <2>3. PICK c \in Cpus, t \in Threads : Step(c, t)
    BY <2>1, Zenon DEF Next
  <2>4. th \in [Threads -> Thread] /\ u \in Threads /\ u \notin Cpus
    BY <1>1, Zenon DEF SInv, TypeOK, Threads, SpinlockAssumption
  <2>5. CASE popcli(c, t)
    <3>1. t = u
      <4>1. t # u => th'[u] = th[u]
        BY <2>4, <2>5, Zenon DEF popcli
      <4> QED
        BY <2>2, <4>1, Zenon
    <3>2. c = d
      BY <1>1, <2>2, <2>5, <3>1 DEF SInv, WhoInv, popcli, On
    <3>3. ncli[c] = 1 /\ eflags'[c] = (ncli[c] = 1 /\ intena[c])
      BY <1>1, <2>2, <2>5, <3>1, PopcliFacts, Zenon
    <3>4. th[u].was \subseteq {intena[d]} /\ intena[d] \in BOOLEAN
      BY <1>1, <2>2, <3>2, <3>3 DEF SInv, FlagInv, TypeOK
    <3>5. eflags'[d] = intena[d]
      BY <3>2, <3>3, <3>4, Zenon
    <3> QED
      BY <3>4, <3>5, Zenon
  <2>6. CASE sched(c, t)
    <3>1. u # c /\ (u = t => th[u].at = "run")
      BY <2>4, <2>6 DEF sched, On
    <3>2. u # t /\ th'[u] = th[u]
      BY <2>2, <2>4, <2>6, <3>1 DEF sched
    <3> QED
      BY <2>2, <3>2, Zenon
  <2>7. CASE swtch(c, t)
    <3>1. u # c /\ u # t
      BY <2>2, <2>4, <2>7 DEF swtch
    <3>2. th'[u] = th[u]
      BY <2>4, <2>7, <3>1 DEF swtch
    <3> QED
      BY <2>2, <3>2
  <2>8. CASE interrupt(c, t)
    <3>1. t # u
      <4>1. th[t].at \in {"run", "pushcli"}
        BY <1>1, <2>8, Unmasked, Zenon DEF interrupt
      <4> QED
        BY <2>2, <4>1, Zenon
    <3>2. th'[u] = th[u]
      BY <2>4, <2>8, <3>1, Zenon DEF interrupt
    <3> QED
      BY <2>2, <3>2, Zenon
  <2>9. ASSUME NEW l \in Locks, acquire(c, t, l) \/ release(c, t, l) PROVE FALSE
    <3>1. t # u
      BY <2>2, <2>9, Zenon DEF acquire, release, On
    <3>2. th'[u] = th[u]
      BY <2>4, <2>9, <3>1 DEF acquire, release
    <3> QED
      BY <2>2, <3>2, Zenon
  <2>10. CASE pushcli(c, t) \/ xchg(c, t) \/ acquired(c, t) \/ unlock(c, t) \/ iret(c, t) \/ sti(c, t)
    <3>1. t # u
      BY <2>2, <2>10, Zenon DEF pushcli, xchg, acquired, unlock, iret, sti, On
    <3>2. th'[u] = th[u]
      BY <2>4, <2>10, <3>1, Zenon DEF pushcli, xchg, acquired, unlock, iret, sti
    <3> QED
      BY <2>2, <3>2, Zenon
  <2>11. th[t].held \subseteq Locks /\ LocksOf(t) \subseteq Locks
    BY <1>1, Zenon DEF SInv, TypeOK, Thread, LocksOf, SpinlockAssumption
  <2> QED
    BY <2>3, <2>5, <2>6, <2>7, <2>8, <2>9, <2>10, <2>11, Zenon DEF Step
<1> QED
  BY <1>1, SpinlockInvariance, PTL DEF Spec

\* Exclusive holds: what acquire, release and sched promise, for any number of CPUs,
\* processes and locks.
THEOREM LocksAreExclusive == ASSUME SpinlockAssumption PROVE Spec => Exclusive
BY LocksExclude, LockersAreMasked, LocksNeverPanic, FlagsAreRestored, PTL DEF Exclusive
=============================================================================
