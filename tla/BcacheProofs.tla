---------------------------- MODULE BcacheProofs ----------------------------
(***************************************************************************)
(* Proofs about Bcache, for any number of processes, buffers, sectors and  *)
(* values, over either driver.                                             *)
(***************************************************************************)
EXTENDS Bcache, TLAPS

\* The invariants are long formulas: the provers get more time for them.
USE SMTT(30), ZenonT(30)

Buffer == [sector : Sectors \cup {NoOne}, busy : BOOLEAN, valid : BOOLEAN, dirty : BOOLEAN, data : Data]
Command == [busy : BOOLEAN, sector : Sectors \cup {NoOne}, write : BOOLEAN, data : Data]

-----------------------------------------------------------------------------
(* The inductive invariant *)

VarsInv ==
    /\ buf \in [Bufs -> Buffer] /\ lru \in Seq(Bufs) /\ idequeue \in Seq(Bufs)
    /\ drive \in Command /\ irq \in BOOLEAN /\ disk \in [Sectors -> Data]
    /\ place \in [Procs -> Places] /\ want \in [Procs -> Sectors \cup {NoOne}]
    /\ cur \in [Procs -> Bufs \cup {NoOne}] /\ held \in [Procs -> SUBSET Bufs]

\* The list has every buffer, once.
ListInv ==
    /\ \A b \in Bufs : \E i \in 1..Len(lru) : lru[i] = b
    /\ \A i, j \in 1..Len(lru) : lru[i] = lru[j] => i = j

\* A process in bget wants a sector, and one in iderw has passed it a buffer.
PlaceInv ==
    \A p \in Procs :
        /\ want[p] \in Sectors <=> place[p] \in {"bget", "bget_sleep"}
        /\ cur[p] \in Bufs <=> place[p] \in {"iderw", "iderw_sleep", "iderw_wake"}

\* A sector has one buffer; a buffer that is in use or has contents has a sector, and
\* what is to be written is there.
BufferInv ==
    /\ \A b, c \in Bufs : buf[b].sector = buf[c].sector /\ buf[b].sector \in Sectors => b = c
    /\ \A b \in Bufs : buf[b].busy \/ buf[b].valid => buf[b].sector \in Sectors
    /\ \A b \in Bufs : buf[b].dirty => buf[b].valid

Has(p, b) == b \in held[p] \/ cur[p] = b

\* A busy buffer is one process's, which has filled it unless it waits for the drive.
HolderInv ==
    /\ \A b \in Bufs : buf[b].busy <=> \E p \in Procs : Has(p, b)
    /\ \A b \in Bufs : \A p, q \in Procs : Has(p, b) /\ Has(q, b) => p = q
    /\ \A p \in Procs : \A b \in held[p] : buf[b].valid /\ cur[p] # b

\* Somebody has a buffer that a process waits for in bget.
SleepInv == \A p \in Procs : place[p] = "bget_sleep" => \E b \in Bufs : buf[b].sector = want[p] /\ buf[b].busy

\* A buffer in the queue is there once, for a process that waits in iderw, and is
\* not yet what that process waits for.
QueueInv ==
    /\ \A i, j \in 1..Len(idequeue) : idequeue[i] = idequeue[j] => i = j
    /\ \A i \in 1..Len(idequeue) :
           /\ \E p \in Procs : cur[p] = idequeue[i] /\ place[p] \in {"iderw_sleep", "iderw_wake"}
           /\ ~Transferred(idequeue[i])
    /\ \A p \in Procs : place[p] = "iderw" => ~Transferred(cur[p])

\* The drive works on a sector; under memide.c it never works; with no interrupt that
\* nobody asked for, it works or its interrupt is pending exactly while there is a
\* request, and it works on the first one.
DriveInv ==
    /\ drive.busy => drive.sector \in Sectors
    /\ MEMDISK => ~drive.busy /\ idequeue = <<>>
    /\ SPURIOUS \/ (/\ idequeue # <<>> <=> irq \/ drive.busy
                    /\ ~(irq /\ drive.busy)
                    /\ drive.busy => drive.sector = buf[idequeue[1]].sector)

\* A clean buffer has what is on the disk, or on the way to it, and so has a dirty one
\* whose write has been started.
DataInv ==
    /\ ERRORS \/ \A b \in Bufs : buf[b].valid /\ ~buf[b].dirty => buf[b].data = Latest(buf[b].sector)
    /\ idequeue # <<>> /\ buf[idequeue[1]].dirty => buf[idequeue[1]].data = Latest(buf[idequeue[1]].sector)

BInv == VarsInv /\ ListInv /\ PlaceInv /\ BufferInv /\ HolderInv /\ SleepInv /\ QueueInv /\ DriveInv /\ DataInv

-----------------------------------------------------------------------------
(* Facts about a state of the invariant *)

\* A buffer in the queue is busy, and the process it is there for waits in iderw.
LEMMA Queued ==
    ASSUME BInv, NEW i \in 1..Len(idequeue)
    PROVE  /\ idequeue[i] \in Bufs /\ buf[idequeue[i]].busy /\ buf[idequeue[i]].sector \in Sectors
           /\ \A p \in Procs : Has(p, idequeue[i]) =>
                 cur[p] = idequeue[i] /\ place[p] \in {"iderw_sleep", "iderw_wake"} /\ idequeue[i] \notin held[p]
<1>1. idequeue[i] \in Bufs
  BY DEF BInv, VarsInv
<1>2. PICK q \in Procs : cur[q] = idequeue[i] /\ place[q] \in {"iderw_sleep", "iderw_wake"}
  BY Zenon DEF BInv, QueueInv
<1>3. Has(q, idequeue[i])
  BY <1>2, Zenon DEF Has
<1>4. buf[idequeue[i]].busy /\ \A p \in Procs : Has(p, idequeue[i]) => p = q
  BY <1>1, <1>3, Zenon DEF BInv, HolderInv
<1>5. buf[idequeue[i]].sector \in Sectors
  BY <1>1, <1>4, Zenon DEF BInv, BufferInv
<1>6. idequeue[i] \notin held[q]
  BY <1>2, Zenon DEF BInv, HolderInv
<1> QED
  BY <1>1, <1>2, <1>4, <1>5, <1>6, Zenon

\* A process that runs its own code waits for nothing, and what it has is not in the
\* queue.
LEMMA UserHas ==
    ASSUME BInv, BcacheAssumption, NEW p \in Procs, place[p] \notin {"iderw_sleep", "iderw_wake"}, NEW b \in Bufs, Has(p, b)
    PROVE  \A i \in 1..Len(idequeue) : idequeue[i] # b
BY Queued, Zenon

\* A free buffer is not in the queue.
LEMMA FreeUnqueued ==
    ASSUME BInv, NEW b \in Bufs, ~buf[b].busy
    PROVE  /\ \A i \in 1..Len(idequeue) : idequeue[i] # b
           /\ \A p \in Procs : ~Has(p, b)
<1>1. \A p \in Procs : ~Has(p, b)
  BY Zenon DEF BInv, HolderInv
<1> QED
  BY <1>1, Queued, Zenon

\* The first buffer in the queue.
LEMMA FirstQueued ==
    ASSUME BInv, idequeue # <<>>
    PROVE  1 \in 1..Len(idequeue) /\ Len(idequeue) \in Nat /\ Head(idequeue) = idequeue[1]
BY DEF BInv, VarsInv

-----------------------------------------------------------------------------
(* Steps that only move a process *)

\* What a step must keep when no buffer, request or disk changes.
LEMMA MoveKeeps ==
    ASSUME BInv, UNCHANGED <<bufVars, ideVars, held, cur>>,
           NEW p \in Procs, place' \in [Procs -> Places], want' \in [Procs -> Sectors \cup {NoOne}],
           \A q \in Procs \ {p} : place'[q] = place[q] /\ want'[q] = want[q],
           want'[p] \in Sectors <=> place'[p] \in {"bget", "bget_sleep"},
           place[p] \in {"iderw_sleep", "iderw_wake"} <=> place'[p] \in {"iderw_sleep", "iderw_wake"},
           place[p] # "iderw", place'[p] # "iderw",
           place'[p] = "bget_sleep" => \E b \in Bufs : buf[b].sector = want'[p] /\ buf[b].busy
    PROVE  BInv'
<1>1. VarsInv'
  BY Zenon DEF BInv, VarsInv, bufVars, ideVars
<1>9. ListInv'
  BY Zenon DEF BInv, ListInv, bufVars
<1>2. PlaceInv'
  BY Zenon DEF BInv, PlaceInv, bufVars, ideVars
<1>3. BufferInv'
  BY Zenon DEF BInv, BufferInv, bufVars
<1>4. HolderInv'
  BY DEF BInv, HolderInv, Has, bufVars
<1>5. SleepInv'
  <2>1. ASSUME NEW q \in Procs, place'[q] = "bget_sleep"
        PROVE  \E b \in Bufs : buf[b].sector = want'[q] /\ buf[b].busy
    BY <2>1 DEF BInv, SleepInv
  <2> QED
    BY <2>1, Zenon DEF SleepInv, bufVars
<1>6. QueueInv'
  <2>1. UNCHANGED <<idequeue, cur, buf>>
    BY Zenon DEF bufVars, ideVars
  <2>2. \A q \in Procs : /\ place[q] \in {"iderw_sleep", "iderw_wake"} <=> place'[q] \in {"iderw_sleep", "iderw_wake"}
                         /\ place'[q] = "iderw" => place[q] = "iderw"
    BY Zenon
  <2>3. \A i \in 1..Len(idequeue) :
           /\ \E q \in Procs : cur[q] = idequeue[i] /\ place'[q] \in {"iderw_sleep", "iderw_wake"}
           /\ ~Transferred(idequeue[i])
    BY <2>2, Zenon DEF BInv, QueueInv
  <2>4. \A q \in Procs : place'[q] = "iderw" => ~Transferred(cur[q])
    BY <2>2, Zenon DEF BInv, QueueInv
  <2>5. \A i, j \in 1..Len(idequeue) : idequeue[i] = idequeue[j] => i = j
    BY Zenon DEF BInv, QueueInv
  <2> QED
    BY <2>1, <2>3, <2>4, <2>5 DEF QueueInv, Transferred
<1>7. DriveInv'
  BY Zenon DEF BInv, DriveInv, bufVars, ideVars
<1>8. DataInv'
  BY Zenon DEF BInv, DataInv, Latest, bufVars, ideVars
<1> QED
  BY <1>1, <1>2, <1>3, <1>4, <1>5, <1>6, <1>7, <1>8, <1>9, Zenon DEF BInv

\* bread up to the call of bget keeps the invariant.
LEMMA BreadStep ==
    ASSUME BcacheAssumption, BInv, NEW p \in Procs, NEW s \in Sectors, bread(p, s)
    PROVE  BInv'
<1>1. /\ place[p] = "user" /\ place' = [place EXCEPT ![p] = "bget"] /\ want' = [want EXCEPT ![p] = s]
      /\ UNCHANGED <<bufVars, ideVars, held, cur>>
  BY Zenon DEF bread
<1>2. place \in [Procs -> Places] /\ want \in [Procs -> Sectors \cup {NoOne}]
  BY Zenon DEF BInv, VarsInv
<1> QED
  BY <1>1, <1>2, MoveKeeps, Zenon DEF Places

\* bget's sleep keeps the invariant.
LEMMA BgetSleepStep ==
    ASSUME BcacheAssumption, BInv, NEW p \in Procs, bget_sleep(p)
    PROVE  BInv'
<1>1. /\ place[p] = "bget" /\ place' = [place EXCEPT ![p] = "bget_sleep"]
      /\ \E b \in Bufs : buf[b].sector = want[p] /\ buf[b].busy
      /\ UNCHANGED <<bufVars, ideVars, want, held, cur>>
  BY Zenon DEF bget_sleep, Cached
<1>2. place \in [Procs -> Places] /\ want \in [Procs -> Sectors \cup {NoOne}] /\ want[p] \in Sectors
  BY <1>1, Zenon DEF BInv, VarsInv, PlaceInv
<1> QED
  BY <1>1, <1>2, MoveKeeps, Zenon DEF Places

\* kill keeps the invariant: bget and iderw look again.
LEMMA KillStep ==
    ASSUME BcacheAssumption, BInv, NEW p \in Procs, kill(p)
    PROVE  BInv'
<1>1. /\ place[p] \in {"bget_sleep", "iderw_sleep"} /\ place' = [place EXCEPT ![p] = Woken(place[p])]
      /\ UNCHANGED <<bufVars, ideVars, want, held, cur>>
  BY Zenon DEF kill
<1>2. place \in [Procs -> Places] /\ want \in [Procs -> Sectors \cup {NoOne}]
  BY <1>1, Zenon DEF BInv, VarsInv
<1>3. want[p] \in Sectors <=> place[p] \in {"bget", "bget_sleep"}
  BY Zenon DEF BInv, PlaceInv
<1>4. CASE place[p] = "bget_sleep"
  BY <1>1, <1>2, <1>3, <1>4, MoveKeeps, Zenon DEF Places, Woken
<1>5. CASE place[p] = "iderw_sleep"
  BY <1>1, <1>2, <1>3, <1>5, MoveKeeps, Zenon DEF Places, Woken
<1> QED
  BY <1>1, <1>4, <1>5, Zenon

-----------------------------------------------------------------------------
(* bget's return *)

\* What bget's return does, on the path of a hit and on that of a recycled buffer:
\* the buffer is free, and either has the sector or is clean and no buffer has it.
Returns(p, b) ==
    /\ place[p] = "bget" /\ ~buf[b].busy
    /\ buf[b].sector = want[p] \/ (~buf[b].dirty /\ \A c \in Bufs : buf[c].sector # want[p])
    /\ BgetReturns(p, b)

\* The buffer that is handed out, field by field, and who has what afterwards.
LEMMA ReturnsFacts ==
    ASSUME BcacheAssumption, BInv, NEW p \in Procs, NEW b \in Bufs, Returns(p, b)
    PROVE  /\ want[p] \in Sectors /\ cur[p] \notin Bufs
           /\ buf' \in [Bufs -> Buffer] /\ \A c \in Bufs \ {b} : buf'[c] = buf[c]
           /\ buf'[b].sector = want[p] /\ buf'[b].busy /\ buf'[b].dirty = buf[b].dirty
           /\ buf'[b].data = buf[b].data /\ (buf'[b].valid <=> buf[b].valid /\ buf[b].sector = want[p])
           /\ want' = [want EXCEPT ![p] = NoOne]
           /\ UNCHANGED <<lru, ideVars>>
           /\ \/ /\ buf'[b].valid /\ held' = [held EXCEPT ![p] = held[p] \cup {b}]
                 /\ place' = [place EXCEPT ![p] = "user"] /\ UNCHANGED cur
              \/ /\ ~buf'[b].valid /\ cur' = [cur EXCEPT ![p] = b]
                 /\ place' = [place EXCEPT ![p] = "iderw"] /\ UNCHANGED held
           /\ \A q \in Procs, c \in Bufs : Has(q, c)' <=> (Has(q, c) \/ (q = p /\ c = b))
<1>1. want[p] \in Sectors /\ cur[p] \notin Bufs
  BY Zenon DEF BInv, PlaceInv, Returns
<1>2. buf \in [Bufs -> Buffer] /\ buf[b] \in Buffer
  BY Zenon DEF BInv, VarsInv
<1>3. buf' = [buf EXCEPT ![b] = Flags(b, want[p])]
  BY Zenon DEF Returns, BgetReturns
<1>4. buf'[b] = [buf[b] EXCEPT !.sector = want[p], !.busy = TRUE, !.valid = buf[b].valid /\ buf[b].sector = want[p]]
  BY <1>2, <1>3, Zenon DEF Flags
<1>5. /\ buf'[b].sector = want[p] /\ buf'[b].busy /\ buf'[b].dirty = buf[b].dirty
      /\ buf'[b].data = buf[b].data /\ (buf'[b].valid <=> buf[b].valid /\ buf[b].sector = want[p])
  BY <1>2, <1>4, Zenon DEF Buffer
<1>6. buf'[b] \in Buffer
  <2>1. PICK v \in BOOLEAN : v = (buf[b].valid /\ buf[b].sector = want[p])
    BY Zenon
  <2>2. buf'[b] = [buf[b] EXCEPT !.sector = want[p], !.busy = TRUE, !.valid = v]
    BY <1>4, <2>1, Zenon
  <2> QED
    BY <1>1, <1>2, <2>2, Zenon DEF Buffer
<1>7. buf' \in [Bufs -> Buffer] /\ \A c \in Bufs \ {b} : buf'[c] = buf[c]
  BY <1>2, <1>3, <1>6, Zenon
<1>8. want' = [want EXCEPT ![p] = NoOne] /\ UNCHANGED <<lru, ideVars>>
  BY Zenon DEF Returns, BgetReturns
<1>9. \/ /\ buf'[b].valid /\ held' = [held EXCEPT ![p] = held[p] \cup {b}]
         /\ place' = [place EXCEPT ![p] = "user"] /\ UNCHANGED cur
      \/ /\ ~buf'[b].valid /\ cur' = [cur EXCEPT ![p] = b]
         /\ place' = [place EXCEPT ![p] = "iderw"] /\ UNCHANGED held
  BY Zenon DEF Returns, BgetReturns
<1>10. ASSUME NEW q \in Procs, NEW c \in Bufs PROVE Has(q, c)' <=> (Has(q, c) \/ (q = p /\ c = b))
  BY <1>1, <1>9 DEF Has, BInv, VarsInv
<1> QED
  BY <1>1, <1>5, <1>7, <1>8, <1>9, <1>10, Zenon

\* bget's return keeps the invariant.
LEMMA ReturnsStep ==
    ASSUME BcacheAssumption, BInv, NEW p \in Procs, NEW b \in Bufs, Returns(p, b)
    PROVE  BInv'
<1>1. /\ want[p] \in Sectors /\ cur[p] \notin Bufs
      /\ buf' \in [Bufs -> Buffer] /\ \A c \in Bufs \ {b} : buf'[c] = buf[c]
      /\ buf'[b].sector = want[p] /\ buf'[b].busy /\ buf'[b].dirty = buf[b].dirty
      /\ buf'[b].data = buf[b].data /\ (buf'[b].valid <=> buf[b].valid /\ buf[b].sector = want[p])
      /\ want' = [want EXCEPT ![p] = NoOne]
      /\ UNCHANGED <<lru, ideVars>>
  BY ReturnsFacts, Zenon
<1>2. \/ /\ buf'[b].valid /\ held' = [held EXCEPT ![p] = held[p] \cup {b}]
         /\ place' = [place EXCEPT ![p] = "user"] /\ UNCHANGED cur
      \/ /\ ~buf'[b].valid /\ cur' = [cur EXCEPT ![p] = b]
         /\ place' = [place EXCEPT ![p] = "iderw"] /\ UNCHANGED held
  BY ReturnsFacts, Zenon
<1>3. \A q \in Procs, c \in Bufs : Has(q, c)' <=> (Has(q, c) \/ (q = p /\ c = b))
  BY ReturnsFacts, Zenon
<1>4. place[p] = "bget" /\ ~buf[b].busy
      /\ (buf[b].sector = want[p] \/ (~buf[b].dirty /\ \A c \in Bufs : buf[c].sector # want[p]))
  BY Zenon DEF Returns
<1>5. (\A i \in 1..Len(idequeue) : idequeue[i] # b) /\ \A q \in Procs : ~Has(q, b)
  BY <1>4, FreeUnqueued, Zenon
<1>6. \A i \in 1..Len(idequeue) : idequeue[i] \in Bufs /\ buf'[idequeue[i]] = buf[idequeue[i]]
  BY <1>1, <1>5, Queued, Zenon
<1>7. UNCHANGED <<idequeue, drive, irq, disk>>
  BY <1>1, Zenon DEF ideVars
<1>8. VarsInv'
  <2>1. /\ place \in [Procs -> Places] /\ want \in [Procs -> Sectors \cup {NoOne}]
        /\ cur \in [Procs -> Bufs \cup {NoOne}] /\ held \in [Procs -> SUBSET Bufs]
    BY Zenon DEF BInv, VarsInv
  <2>2. place' \in [Procs -> Places]
    BY <1>2, <2>1, Zenon DEF Places
  <2>3. cur' \in [Procs -> Bufs \cup {NoOne}] /\ want' \in [Procs -> Sectors \cup {NoOne}]
    BY <1>1, <1>2, <2>1
  <2>4. held' \in [Procs -> SUBSET Bufs]
    BY <1>2, <2>1
  <2> QED
    BY <1>1, <1>7, <2>2, <2>3, <2>4, Zenon DEF BInv, VarsInv
<1>9. PlaceInv'
  <2>1. ASSUME NEW q \in Procs
        PROVE  /\ want'[q] \in Sectors <=> place'[q] \in {"bget", "bget_sleep"}
               /\ cur'[q] \in Bufs <=> place'[q] \in {"iderw", "iderw_sleep", "iderw_wake"}
    <3>1. /\ want[q] \in Sectors <=> place[q] \in {"bget", "bget_sleep"}
          /\ cur[q] \in Bufs <=> place[q] \in {"iderw", "iderw_sleep", "iderw_wake"}
          /\ NoOne \notin Sectors
      BY Zenon DEF BInv, PlaceInv, BcacheAssumption
    <3> QED
      BY <1>1, <1>2, <3>1 DEF BInv, VarsInv
  <2> QED
    BY <2>1, Zenon DEF PlaceInv
<1>10. BufferInv'
  <2>1. \A c \in Bufs \ {b} : buf[c].sector # want[p]
    BY <1>1, <1>4 DEF BInv, BufferInv
  <2>2. \A c, d \in Bufs : buf'[c].sector = buf'[d].sector /\ buf'[c].sector \in Sectors => c = d
    BY <1>1, <2>1 DEF BInv, BufferInv
  <2>3. \A c \in Bufs : buf'[c].busy \/ buf'[c].valid => buf'[c].sector \in Sectors
    BY <1>1, Zenon DEF BInv, BufferInv
  <2>4. \A c \in Bufs : buf'[c].dirty => buf'[c].valid
    BY <1>1, <1>4, Zenon DEF BInv, BufferInv
  <2> QED
    BY <2>2, <2>3, <2>4, Zenon DEF BufferInv
<1>11. HolderInv'
  <2>1. \A c \in Bufs : buf'[c].busy <=> \E q \in Procs : Has(q, c)'
    BY <1>1, <1>3, <1>4, Zenon DEF BInv, HolderInv
  <2>2. \A c \in Bufs : \A q, r \in Procs : Has(q, c)' /\ Has(r, c)' => q = r
    BY <1>3, <1>5, Zenon DEF BInv, HolderInv
  <2>3. ASSUME NEW q \in Procs, NEW c \in held'[q] PROVE buf'[c].valid /\ cur'[q] # c
    <3>1. cur \in [Procs -> Bufs \cup {NoOne}] /\ held \in [Procs -> SUBSET Bufs]
      BY Zenon DEF BInv, VarsInv
    <3>2. CASE c \in held[q]
      <4>1. c \in Bufs /\ buf[c].valid /\ cur[q] # c /\ c # b
        BY <1>5, <3>1, <3>2, Zenon DEF BInv, HolderInv, Has
      <4> QED
        BY <1>1, <1>2, <3>1, <4>1
    <3>3. CASE c \notin held[q]
      <4>1. q = p /\ c = b /\ buf'[b].valid /\ cur' = cur
        BY <1>2, <2>3, <3>1, <3>3
      <4> QED
        BY <1>1, <4>1, Zenon
    <3> QED
      BY <3>2, <3>3, Zenon
  <2> QED
    BY <2>1, <2>2, <2>3, Zenon DEF HolderInv
<1>12. SleepInv'
  <2>1. ASSUME NEW q \in Procs, place'[q] = "bget_sleep"
        PROVE  \E c \in Bufs : buf'[c].sector = want'[q] /\ buf'[c].busy
    <3>1. q # p /\ place[q] = "bget_sleep" /\ want'[q] = want[q]
      BY <1>1, <1>2, <2>1 DEF BInv, VarsInv
    <3>2. PICK c \in Bufs : buf[c].sector = want[q] /\ buf[c].busy
      BY <3>1, Zenon DEF BInv, SleepInv
    <3> QED
      BY <1>1, <1>4, <3>1, <3>2, Zenon
  <2> QED
    BY <2>1, Zenon DEF SleepInv
<1>13. QueueInv'
  <2>1. \A i \in 1..Len(idequeue) :
           \E q \in Procs : cur[q] = idequeue[i] /\ place[q] \in {"iderw_sleep", "iderw_wake"}
    BY Zenon DEF BInv, QueueInv
  <2>2. ASSUME NEW i \in 1..Len(idequeue)
        PROVE  \E q \in Procs : cur'[q] = idequeue[i] /\ place'[q] \in {"iderw_sleep", "iderw_wake"}
    <3>1. PICK q \in Procs : cur[q] = idequeue[i] /\ place[q] \in {"iderw_sleep", "iderw_wake"}
      BY <2>1, Zenon
    <3>2. q # p
      BY <1>4, <3>1, Zenon
    <3> QED
      BY <1>2, <3>1, <3>2, Zenon DEF BInv, VarsInv
  <2>3. \A i \in 1..Len(idequeue) : ~(buf'[idequeue[i]].valid /\ ~buf'[idequeue[i]].dirty)
    BY <1>6, Zenon DEF BInv, QueueInv, Transferred
  <2>4. ASSUME NEW q \in Procs, place'[q] = "iderw" PROVE ~(buf'[cur'[q]].valid /\ ~buf'[cur'[q]].dirty)
    <3>1. CASE q = p
      BY <1>2, <2>4, <3>1, Zenon DEF BInv, VarsInv
    <3>2. CASE q # p
      <4>1. place[q] = "iderw" /\ cur'[q] = cur[q] /\ cur[q] \in Bufs
        BY <1>2, <2>4, <3>2, Zenon DEF BInv, VarsInv, PlaceInv
      <4>2. cur[q] # b /\ ~(buf[cur[q]].valid /\ ~buf[cur[q]].dirty)
        BY <1>5, <4>1, Zenon DEF BInv, QueueInv, Transferred, Has
      <4> QED
        BY <1>1, <4>1, <4>2, Zenon
    <3> QED
      BY <3>1, <3>2, Zenon
  <2>5. \A i, j \in 1..Len(idequeue) : idequeue[i] = idequeue[j] => i = j
    BY Zenon DEF BInv, QueueInv
  <2> QED
    BY <1>7, <2>2, <2>3, <2>4, <2>5, Zenon DEF QueueInv, Transferred
<1>14. DriveInv'
  <2>1. idequeue # <<>> => buf'[idequeue[1]] = buf[idequeue[1]]
    BY <1>6, FirstQueued, Zenon
  <2> QED
    BY <1>7, <2>1, Zenon DEF BInv, DriveInv
<1>15. DataInv'
  <2>1. idequeue # <<>> => buf'[idequeue[1]] = buf[idequeue[1]]
    BY <1>6, FirstQueued, Zenon
  <2>2. \A s \in Sectors \cup {NoOne} : Latest(s)' = Latest(s)
    BY <1>7, Zenon DEF Latest
  <2>3. ASSUME ~ERRORS, NEW c \in Bufs, buf'[c].valid, ~buf'[c].dirty
        PROVE  buf[c].valid /\ ~buf[c].dirty /\ buf[c].sector = buf'[c].sector /\ buf[c].data = buf'[c].data
    BY <1>1, <2>3, Zenon
  <2>4. ERRORS \/ \A c \in Bufs : buf'[c].valid /\ ~buf'[c].dirty => buf'[c].data = Latest(buf'[c].sector)
    BY <2>3, Zenon DEF BInv, DataInv
  <2>5. idequeue # <<>> /\ buf'[idequeue[1]].dirty => buf'[idequeue[1]].data = Latest(buf'[idequeue[1]].sector)
    BY <2>1, Zenon DEF BInv, DataInv
  <2> QED
    BY <1>7, <2>4, <2>5, Zenon DEF DataInv, Latest
<1>16. ListInv'
  BY <1>1, Zenon DEF BInv, ListInv
<1> QED
  BY <1>8, <1>9, <1>10, <1>11, <1>12, <1>13, <1>14, <1>15, <1>16, Zenon DEF BInv

\* A hit, and a recycled buffer, are such returns.
LEMMA BgetReturn ==
    ASSUME BcacheAssumption, BInv, NEW p \in Procs, bget_hit(p) \/ bget_recycle(p)
    PROVE  \E b \in Bufs : Returns(p, b)
<1>1. place[p] = "bget" /\ want[p] \in Sectors
  BY Zenon DEF bget_hit, bget_recycle, BInv, PlaceInv
<1>2. CASE bget_hit(p)
  BY <1>1, <1>2, Zenon DEF bget_hit, Cached, Returns
<1>3. CASE bget_recycle(p)
  <2>1. PICK i \in Victims : BgetReturns(p, lru[i])
    BY <1>3, Zenon DEF bget_recycle
  <2>2. Cached(want[p]) = {}
    BY <1>3, Zenon DEF bget_recycle
  <2>3. lru[i] \in Bufs /\ ~buf[lru[i]].busy /\ ~buf[lru[i]].dirty
    BY <2>1 DEF Victims, BInv, VarsInv
  <2>4. \A c \in Bufs : buf[c].sector # want[p]
    BY <2>2, Zenon DEF Cached
  <2> QED
    BY <1>1, <2>1, <2>3, <2>4, Zenon DEF Returns
<1> QED
  BY <1>2, <1>3, Zenon

-----------------------------------------------------------------------------
(* The list *)

\* List l with its element at i taken out and b put in front.
Moved(l, i, b) == <<b>> \o (SubSeq(l, 1, i - 1) \o SubSeq(l, i + 1, Len(l)))
IsMoved(m, l, i, b, S) ==
    /\ m \in Seq(S) /\ Len(m) = Len(l) /\ m[1] = b
    /\ \A k \in 2..i : m[k] = l[k - 1]
    /\ \A k \in (i + 1)..Len(l) : m[k] = l[k]

\* What is where in two lists put together.
LEMMA Joined ==
    ASSUME NEW S, NEW l \in Seq(S), NEW m \in Seq(S)
    PROVE  /\ l \o m \in Seq(S) /\ Len(l \o m) = Len(l) + Len(m)
           /\ \A k \in 1..Len(l) + Len(m) : (l \o m)[k] = IF k <= Len(l) THEN l[k] ELSE m[k - Len(l)]
OBVIOUS

\* A list that is not empty has a length that is not zero.
LEMMA EmptyList ==
    ASSUME NEW S, NEW l \in Seq(S)
    PROVE  Len(l) = 0 <=> l = <<>>
OBVIOUS

\* Where the elements of a list are when one is moved to the front.
LEMMA MovedToFront ==
    ASSUME NEW S, NEW l \in Seq(S), NEW i \in 1..Len(l), NEW b \in S
    PROVE  IsMoved(Moved(l, i, b), l, i, b, S)
<1> DEFINE u == SubSeq(l, 1, i - 1)
           v == SubSeq(l, i + 1, Len(l))
<1>1. u \in Seq(S) /\ Len(u) = i - 1 /\ \A k \in 1..(i - 1) : u[k] = l[k]
  OBVIOUS
<1>2. v \in Seq(S) /\ Len(v) = Len(l) - i /\ \A k \in 1..(Len(l) - i) : v[k] = l[k + i]
  OBVIOUS
<1> HIDE DEF u, v
<1>3. /\ u \o v \in Seq(S) /\ Len(u \o v) = Len(l) - 1
      /\ \A k \in 1..(Len(l) - 1) : (u \o v)[k] = IF k < i THEN l[k] ELSE l[k + 1]
  <2>0. /\ u \o v \in Seq(S) /\ Len(u \o v) = Len(u) + Len(v)
        /\ \A k \in 1..Len(u) + Len(v) : (u \o v)[k] = IF k <= Len(u) THEN u[k] ELSE v[k - Len(u)]
    BY <1>1, <1>2, Joined, Zenon
  <2>1. u \o v \in Seq(S) /\ Len(u \o v) = Len(l) - 1
    BY <1>1, <1>2, <2>0
  <2>2. \A k \in 1..(i - 1) : (u \o v)[k] = u[k]
    BY <1>1, <1>2, <2>0
  <2>3. ASSUME NEW k \in 1..(Len(l) - 1), ~(k < i) PROVE (u \o v)[k] = l[k + 1]
    <3>1. k - (i - 1) \in 1..(Len(l) - i) /\ (k - (i - 1)) + i = k + 1 /\ k - (i - 1) = k - Len(u)
      BY <1>1, <2>3
    <3>2. (u \o v)[k] = v[k - Len(u)]
      BY <1>1, <1>2, <2>0, <2>3
    <3> QED
      BY <1>2, <3>1, <3>2, Zenon
  <2>4. ASSUME NEW k \in 1..(Len(l) - 1) PROVE (u \o v)[k] = IF k < i THEN l[k] ELSE l[k + 1]
    <3>1. CASE k < i
      <4>1. k \in 1..(i - 1)
        BY <3>1
      <4> QED
        BY <1>1, <2>2, <3>1, <4>1, Zenon
    <3>2. CASE ~(k < i)
      BY <2>3, <3>2, Zenon
    <3> QED
      BY <3>1, <3>2, Zenon
  <2> QED
    BY <2>1, <2>4, Zenon
<1>4. <<b>> \in Seq(S) /\ Len(<<b>>) = 1 /\ <<b>>[1] = b
  OBVIOUS
<1>5. Moved(l, i, b) = <<b>> \o (u \o v)
  BY Zenon DEF Moved, u, v
<1> DEFINE w == u \o v
<1> HIDE DEF w
<1>6. /\ w \in Seq(S) /\ Len(w) = Len(l) - 1
      /\ \A k \in 1..(Len(l) - 1) : w[k] = IF k < i THEN l[k] ELSE l[k + 1]
  BY Zenon, <1>3 DEF w
<1>7. /\ <<b>> \o w \in Seq(S) /\ Len(<<b>> \o w) = Len(l)
      /\ \A k \in 1..Len(l) : (<<b>> \o w)[k] = IF k = 1 THEN b ELSE w[k - 1]
  <2>1. /\ <<b>> \o w \in Seq(S) /\ Len(<<b>> \o w) = 1 + Len(w)
        /\ \A k \in 1..1 + Len(w) : (<<b>> \o w)[k] = IF k <= 1 THEN <<b>>[k] ELSE w[k - 1]
    BY <1>4, <1>6, Joined
  <2> QED
    BY <1>4, <1>6, <2>1
<1>8. \A k \in 1..Len(l) : (<<b>> \o w)[k] = IF k = 1 THEN b ELSE IF k <= i THEN l[k - 1] ELSE l[k]
  BY <1>6, <1>7
<1>9. Moved(l, i, b) = <<b>> \o w
  BY <1>5, Zenon DEF w
<1> DEFINE m == Moved(l, i, b)
<1> HIDE DEF m
<1>10. /\ m \in Seq(S) /\ Len(m) = Len(l) /\ Len(l) \in Nat
       /\ \A k \in 1..Len(l) : m[k] = IF k = 1 THEN b ELSE IF k <= i THEN l[k - 1] ELSE l[k]
  BY <1>7, <1>8, <1>9 DEF m
<1>11. m[1] = b /\ \A k \in 2..i : m[k] = l[k - 1]
  BY <1>10
<1>12. \A k \in (i + 1)..Len(l) : m[k] = l[k]
  BY <1>10
<1> QED
  BY <1>10, <1>11, <1>12, Zenon DEF m, IsMoved

\* brelse keeps the list one of every buffer.
LEMMA ToFrontList ==
    ASSUME BInv, NEW b \in Bufs, lru' = ToFront(b)
    PROVE  lru' \in Seq(Bufs) /\ ListInv'
<1> DEFINE i == CHOOSE k \in DOMAIN lru : lru[k] = b
<1>1. lru \in Seq(Bufs) /\ DOMAIN lru = 1..Len(lru) /\ Len(lru) \in Nat
  BY DEF BInv, VarsInv
<1>2. i \in 1..Len(lru) /\ lru[i] = b
  BY <1>1, Zenon DEF BInv, ListInv
<1>3. lru' = Moved(lru, i, b)
  BY Zenon DEF ToFront, Moved
<1> HIDE DEF i
<1>4. /\ lru' \in Seq(Bufs) /\ Len(lru') = Len(lru)
      /\ \A k \in 1..Len(lru) : lru'[k] = IF k = 1 THEN b ELSE IF k <= i THEN lru[k - 1] ELSE lru[k]
  <2>1. IsMoved(lru', lru, i, b, Bufs)
    BY <1>1, <1>2, <1>3, MovedToFront, Zenon
  <2> QED
    BY <1>1, <1>2, <2>1 DEF IsMoved
<1>5. ASSUME NEW c \in Bufs PROVE \E k \in 1..Len(lru) : lru'[k] = c
  <2>1. PICK j \in 1..Len(lru) : lru[j] = c
    BY Zenon DEF BInv, ListInv
  <2>2. CASE j = i
    <3>1. 1 \in 1..Len(lru) /\ lru'[1] = c
      BY <1>1, <1>2, <1>4, <2>1, <2>2
    <3> QED
      BY <3>1, Zenon
  <2>3. CASE j < i
    <3>1. j + 1 \in 1..Len(lru) /\ j + 1 # 1 /\ j + 1 <= i /\ (j + 1) - 1 = j
      BY <1>1, <1>2, <2>3
    <3>2. lru'[j + 1] = c
      BY <1>4, <2>1, <3>1, Zenon
    <3> QED
      BY <3>1, <3>2, Zenon
  <2>4. CASE j > i
    <3>1. j # 1 /\ ~(j <= i)
      BY <1>1, <1>2, <2>4
    <3>2. lru'[j] = c
      BY <1>4, <2>1, <3>1, Zenon
    <3> QED
      BY <3>2, Zenon
  <2> QED
    BY <1>2, <2>2, <2>3, <2>4
<1>6. ASSUME NEW j \in 1..Len(lru), NEW k \in 1..Len(lru), lru'[j] = lru'[k] PROVE j = k
  <2> DEFINE O(x) == IF x = 1 THEN i ELSE IF x <= i THEN x - 1 ELSE x
  <2>1. O(j) \in 1..Len(lru) /\ O(k) \in 1..Len(lru)
    BY <1>1, <1>2
  <2>2. lru'[j] = lru[O(j)] /\ lru'[k] = lru[O(k)]
    BY <1>1, <1>2, <1>4, Zenon
  <2>3. O(j) = O(k)
    <3>1. \A x, y \in 1..Len(lru) : lru[x] = lru[y] => x = y
      BY Zenon DEF BInv, ListInv
    <3> HIDE DEF O
    <3> QED
      BY <1>6, <2>1, <2>2, <3>1, Zenon
  <2> QED
    BY <1>1, <1>2, <2>3
<1> QED
  BY <1>4, <1>5, <1>6 DEF ListInv

-----------------------------------------------------------------------------
(* Steps of the callers *)

\* The caller fills a buffer it has and marks it dirty.
Fills(b, v) == buf' = [buf EXCEPT ![b].data = v, ![b].dirty = TRUE]

\* The buffer field by field afterwards.
LEMMA FillsFacts ==
    ASSUME BInv, NEW b \in Bufs, NEW v \in Data, Fills(b, v)
    PROVE  /\ buf' \in [Bufs -> Buffer] /\ \A c \in Bufs \ {b} : buf'[c] = buf[c]
           /\ buf'[b].sector = buf[b].sector /\ buf'[b].busy = buf[b].busy /\ buf'[b].valid = buf[b].valid
           /\ buf'[b].data = v /\ buf'[b].dirty
<1>1. buf \in [Bufs -> Buffer] /\ buf[b] \in Buffer
  BY Zenon DEF BInv, VarsInv
<1>2. buf'[b] = [buf[b] EXCEPT !.data = v, !.dirty = TRUE]
  BY <1>1, Zenon DEF Fills
<1>3. /\ buf'[b].sector = buf[b].sector /\ buf'[b].busy = buf[b].busy /\ buf'[b].valid = buf[b].valid
      /\ buf'[b].data = v /\ buf'[b].dirty
  BY <1>1, <1>2, Zenon DEF Buffer
<1>4. buf'[b] \in Buffer
  BY <1>1, <1>2, Zenon DEF Buffer
<1>5. buf' \in [Bufs -> Buffer] /\ \A c \in Bufs \ {b} : buf'[c] = buf[c]
  BY <1>1, <1>4, Zenon DEF Fills
<1> QED
  BY <1>3, <1>5, Zenon

\* A caller that fills a buffer, and keeps it or passes it to iderw, keeps the
\* invariant (bwrite and log_write).
LEMMA FillsKeeps ==
    ASSUME BcacheAssumption, BInv, NEW p \in Procs, NEW b \in held[p], NEW v \in Data, Fills(b, v),
           place[p] = "user", UNCHANGED <<lru, ideVars, want>>,
           \/ UNCHANGED <<place, cur, held>>
           \/ /\ held' = [held EXCEPT ![p] = held[p] \ {b}] /\ cur' = [cur EXCEPT ![p] = b]
              /\ place' = [place EXCEPT ![p] = "iderw"]
    PROVE  BInv'
<1>1. b \in Bufs /\ buf[b].valid /\ cur[p] \notin Bufs /\ Has(p, b)
  BY Zenon DEF BInv, VarsInv, HolderInv, PlaceInv, Has
<1>2. /\ buf' \in [Bufs -> Buffer] /\ \A c \in Bufs \ {b} : buf'[c] = buf[c]
      /\ buf'[b].sector = buf[b].sector /\ buf'[b].busy = buf[b].busy /\ buf'[b].valid = buf[b].valid
      /\ buf'[b].data = v /\ buf'[b].dirty
  BY <1>1, FillsFacts, Zenon
<1>3. /\ place \in [Procs -> Places] /\ cur \in [Procs -> Bufs \cup {NoOne}] /\ held \in [Procs -> SUBSET Bufs]
  BY Zenon DEF BInv, VarsInv
<1>4. UNCHANGED <<lru, idequeue, drive, irq, disk, want>>
  BY Zenon DEF ideVars
<1>5. \A i \in 1..Len(idequeue) : idequeue[i] # b /\ idequeue[i] \in Bufs /\ buf'[idequeue[i]] = buf[idequeue[i]]
  BY <1>1, <1>2, UserHas, Queued
<1>6. \A c \in Bufs : buf'[c].sector = buf[c].sector /\ buf'[c].busy = buf[c].busy /\ buf'[c].valid = buf[c].valid
  BY <1>2, Zenon
<1>7. \A q \in Procs, c \in Bufs : Has(q, c)' <=> Has(q, c)
  BY <1>1, <1>3 DEF Has
<1>8. \A q \in Procs \ {p} : place'[q] = place[q] /\ cur'[q] = cur[q] /\ held'[q] = held[q]
  BY <1>3, Zenon
<1>9. \/ place'[p] = "user" /\ cur'[p] = cur[p] /\ held'[p] = held[p]
      \/ place'[p] = "iderw" /\ cur'[p] = b /\ held'[p] = held[p] \ {b}
  BY <1>3, Zenon
<1>10. VarsInv'
  <2>1. place' \in [Procs -> Places] /\ cur' \in [Procs -> Bufs \cup {NoOne}]
    BY <1>1, <1>3 DEF Places
  <2>2. held' \in [Procs -> SUBSET Bufs]
    BY <1>3
  <2> QED
    BY <1>2, <1>4, <2>1, <2>2 DEF BInv, VarsInv
<1>11. ListInv'
  BY <1>4, Zenon DEF BInv, ListInv
<1>12. PlaceInv'
  BY <1>1, <1>4, <1>8, <1>9 DEF BInv, PlaceInv
<1>13. BufferInv'
  BY <1>1, <1>2, <1>6 DEF BInv, BufferInv
<1>14. HolderInv'
  <2>1. \A c \in Bufs : buf'[c].busy <=> \E q \in Procs : Has(q, c)'
    BY <1>6, <1>7, Zenon DEF BInv, HolderInv
  <2>2. \A c \in Bufs : \A q, r \in Procs : Has(q, c)' /\ Has(r, c)' => q = r
    BY <1>7, Zenon DEF BInv, HolderInv
  <2>3. \A q \in Procs : \A c \in held'[q] : buf'[c].valid /\ cur'[q] # c
    BY <1>3, <1>6, <1>8, <1>9 DEF BInv, HolderInv
  <2> QED
    BY <2>1, <2>2, <2>3, Zenon DEF HolderInv
<1>15. SleepInv'
  <2>1. \A q \in Procs : place'[q] = "bget_sleep" => place[q] = "bget_sleep"
    BY <1>8, <1>9, Zenon
  <2> QED
    BY <1>4, <1>6, <2>1 DEF BInv, SleepInv
<1>16. QueueInv'
  <2>1. ASSUME NEW i \in 1..Len(idequeue)
        PROVE  /\ \E q \in Procs : cur'[q] = idequeue[i] /\ place'[q] \in {"iderw_sleep", "iderw_wake"}
               /\ ~(buf'[idequeue[i]].valid /\ ~buf'[idequeue[i]].dirty)
    <3>1. /\ \E q \in Procs : cur[q] = idequeue[i] /\ place[q] \in {"iderw_sleep", "iderw_wake"}
          /\ ~(buf[idequeue[i]].valid /\ ~buf[idequeue[i]].dirty)
      BY Zenon DEF BInv, QueueInv, Transferred
    <3>2. \A q \in Procs : place[q] \in {"iderw_sleep", "iderw_wake"} => q # p
      BY Zenon
    <3> QED
      BY <1>5, <1>8, <3>1, <3>2
  <2>2. ASSUME NEW q \in Procs, place'[q] = "iderw" PROVE ~(buf'[cur'[q]].valid /\ ~buf'[cur'[q]].dirty)
    <3>1. CASE q = p
      BY <1>2, <1>9, <2>2, <3>1, Zenon
    <3>2. CASE q # p
      <4>1. place[q] = "iderw" /\ cur'[q] = cur[q] /\ cur[q] \in Bufs
        BY <1>8, <2>2, <3>2, Zenon DEF BInv, PlaceInv
      <4>2. ~(buf[cur[q]].valid /\ ~buf[cur[q]].dirty)
        BY <4>1, Zenon DEF BInv, QueueInv, Transferred
      <4> QED
        BY <1>2, <4>1, <4>2
    <3> QED
      BY <3>1, <3>2, Zenon
  <2>3. \A i, j \in 1..Len(idequeue) : idequeue[i] = idequeue[j] => i = j
    BY Zenon DEF BInv, QueueInv
  <2> QED
    BY <1>4, <2>1, <2>2, <2>3 DEF QueueInv, Transferred
<1>17. idequeue # <<>> => buf'[idequeue[1]] = buf[idequeue[1]]
  BY <1>5, FirstQueued, Zenon
<1>18. DriveInv'
  BY <1>4, <1>17, Zenon DEF BInv, DriveInv
<1>19. DataInv'
  <2>1. ERRORS \/ \A c \in Bufs : buf'[c].valid /\ ~buf'[c].dirty => buf'[c].data = Latest(buf'[c].sector)
    BY <1>2 DEF BInv, DataInv
  <2>2. idequeue # <<>> /\ buf'[idequeue[1]].dirty => buf'[idequeue[1]].data = Latest(buf'[idequeue[1]].sector)
    BY <1>17, Zenon DEF BInv, DataInv
  <2> QED
    BY <1>4, <2>1, <2>2, Zenon DEF DataInv, Latest
<1> QED
  BY <1>10, <1>11, <1>12, <1>13, <1>14, <1>15, <1>16, <1>18, <1>19 DEF BInv

\* bwrite up to the call of iderw, and log_write, keep the invariant.
LEMMA WriteStep ==
    ASSUME BcacheAssumption, BInv, NEW p \in Procs, NEW b \in held[p], NEW v \in Data,
           bwrite(p, b, v) \/ log_write(p, b, v)
    PROVE  BInv'
<1>1. Fills(b, v) /\ place[p] = "user" /\ UNCHANGED <<lru, ideVars, want>>
  BY Zenon DEF bwrite, log_write, Fills, procVars
<1>2. \/ UNCHANGED <<place, cur, held>>
      \/ /\ held' = [held EXCEPT ![p] = held[p] \ {b}] /\ cur' = [cur EXCEPT ![p] = b]
         /\ place' = [place EXCEPT ![p] = "iderw"]
  BY Zenon DEF bwrite, log_write, procVars
<1> QED
  BY <1>1, <1>2, FillsKeeps, Zenon

\* What wakeup does to each process.
LEMMA WakeFacts ==
    ASSUME BInv, NEW b, place' = Wake(b)
    PROVE  /\ place' \in [Procs -> Places]
           /\ \A q \in Procs :
                 /\ place'[q] = place[q] \/ (place[q] = "bget_sleep" /\ place'[q] = "bget")
                                         \/ (place[q] = "iderw_sleep" /\ place'[q] = "iderw_wake")
                 /\ place'[q] = "bget_sleep" => place[q] = "bget_sleep" /\ want[q] # buf[b].sector
<1>1. place \in [Procs -> Places]
  BY Zenon DEF BInv, VarsInv
<1>2. \A q \in Procs : place'[q] = IF SleepsOn(q, b) THEN Woken(place[q]) ELSE place[q]
  BY Zenon DEF Wake
<1>3. ASSUME NEW q \in Procs
      PROVE  /\ place'[q] = place[q] \/ (place[q] = "bget_sleep" /\ place'[q] = "bget")
                                     \/ (place[q] = "iderw_sleep" /\ place'[q] = "iderw_wake")
             /\ place'[q] = "bget_sleep" => place[q] = "bget_sleep" /\ want[q] # buf[b].sector
             /\ place'[q] \in Places
  BY <1>1, <1>2, Zenon DEF SleepsOn, Woken, Places
<1>4. place' \in [Procs -> Places]
  BY <1>3, Zenon DEF Wake
<1> QED
  BY <1>3, <1>4, Zenon

\* brelse keeps the invariant.
LEMMA BrelseStep ==
    ASSUME BcacheAssumption, BInv, NEW p \in Procs, NEW b \in held[p], brelse(p, b)
    PROVE  BInv'
<1>1. /\ place[p] = "user" /\ buf' = [buf EXCEPT ![b].busy = FALSE] /\ lru' = ToFront(b)
      /\ held' = [held EXCEPT ![p] = held[p] \ {b}] /\ place' = Wake(b)
      /\ UNCHANGED <<idequeue, drive, irq, disk, want, cur>>
  BY Zenon DEF brelse, ideVars
<1>2. b \in Bufs /\ Has(p, b) /\ cur[p] # b
  BY Zenon DEF BInv, VarsInv, HolderInv, Has
<1>3. /\ buf' \in [Bufs -> Buffer] /\ (\A c \in Bufs \ {b} : buf'[c] = buf[c]) /\ ~buf'[b].busy
      /\ buf'[b].sector = buf[b].sector /\ buf'[b].valid = buf[b].valid /\ buf'[b].dirty = buf[b].dirty
      /\ buf'[b].data = buf[b].data
  <2>1. buf \in [Bufs -> Buffer] /\ buf[b] \in Buffer
    BY <1>2, Zenon DEF BInv, VarsInv
  <2>2. buf'[b] = [buf[b] EXCEPT !.busy = FALSE]
    BY <1>1, <1>2, <2>1, Zenon
  <2>3. /\ ~buf'[b].busy
        /\ buf'[b].sector = buf[b].sector /\ buf'[b].valid = buf[b].valid /\ buf'[b].dirty = buf[b].dirty
        /\ buf'[b].data = buf[b].data
    BY <2>1, <2>2, Zenon DEF Buffer
  <2>4. buf'[b] \in Buffer
    BY <2>1, <2>2, Zenon DEF Buffer
  <2> QED
    BY <1>1, <2>1, <2>3, <2>4, Zenon
<1>4. /\ place' \in [Procs -> Places]
      /\ \A q \in Procs :
            /\ place'[q] = place[q] \/ (place[q] = "bget_sleep" /\ place'[q] = "bget")
                                    \/ (place[q] = "iderw_sleep" /\ place'[q] = "iderw_wake")
            /\ place'[q] = "bget_sleep" => place[q] = "bget_sleep" /\ want[q] # buf[b].sector
  BY <1>1, WakeFacts, Zenon
<1>5. held \in [Procs -> SUBSET Bufs]
  BY Zenon DEF BInv, VarsInv
<1>6. \A q \in Procs, c \in Bufs : Has(q, c)' <=> (Has(q, c) /\ ~(q = p /\ c = b))
  BY <1>1, <1>2, <1>5, Zenon DEF Has
<1>7. \A i \in 1..Len(idequeue) : idequeue[i] # b /\ idequeue[i] \in Bufs /\ buf'[idequeue[i]] = buf[idequeue[i]]
  BY <1>1, <1>2, <1>3, UserHas, Queued
<1>8. lru' \in Seq(Bufs) /\ ListInv'
  BY <1>1, <1>2, ToFrontList, Zenon
<1>9. VarsInv'
  <2>1. held' \in [Procs -> SUBSET Bufs]
    BY <1>1, <1>5, Zenon
  <2> QED
    BY <1>1, <1>3, <1>4, <1>8, <2>1, Zenon DEF BInv, VarsInv
<1>10. PlaceInv'
  BY <1>1, <1>4, Zenon DEF BInv, PlaceInv
<1>11. BufferInv'
  BY <1>3 DEF BInv, BufferInv
<1>12. HolderInv'
  <2>1. \A q \in Procs : Has(q, b) => q = p
    BY <1>2, Zenon DEF BInv, HolderInv
  <2>2. \A c \in Bufs : buf'[c].busy <=> \E q \in Procs : Has(q, c)'
    BY <1>3, <1>6, <2>1 DEF BInv, HolderInv
  <2>3. \A c \in Bufs : \A q, r \in Procs : Has(q, c)' /\ Has(r, c)' => q = r
    BY <1>6, Zenon DEF BInv, HolderInv
  <2>4. \A q \in Procs : \A c \in held'[q] : c \in held[q] /\ c \in Bufs
    BY <1>1, <1>5, Zenon
  <2>5. \A q \in Procs : \A c \in held'[q] : buf'[c].valid /\ cur'[q] # c
    BY <1>1, <1>3, <2>4 DEF BInv, HolderInv
  <2> QED
    BY <2>2, <2>3, <2>5, Zenon DEF HolderInv
<1>13. SleepInv'
  <2>1. ASSUME NEW q \in Procs, place'[q] = "bget_sleep"
        PROVE  \E c \in Bufs : buf'[c].sector = want'[q] /\ buf'[c].busy
    <3>1. place[q] = "bget_sleep" /\ want[q] # buf[b].sector
      BY <1>4, <2>1, Zenon
    <3>2. PICK c \in Bufs : buf[c].sector = want[q] /\ buf[c].busy
      BY <3>1, Zenon DEF BInv, SleepInv
    <3>3. c # b
      BY <3>1, <3>2, Zenon
    <3> QED
      BY <1>1, <1>3, <3>2, <3>3, Zenon
  <2> QED
    BY <2>1, Zenon DEF SleepInv
<1>14. QueueInv'
  <2>1. ASSUME NEW i \in 1..Len(idequeue)
        PROVE  /\ \E q \in Procs : cur'[q] = idequeue[i] /\ place'[q] \in {"iderw_sleep", "iderw_wake"}
               /\ ~(buf'[idequeue[i]].valid /\ ~buf'[idequeue[i]].dirty)
    <3>1. /\ \E q \in Procs : cur[q] = idequeue[i] /\ place[q] \in {"iderw_sleep", "iderw_wake"}
          /\ ~(buf[idequeue[i]].valid /\ ~buf[idequeue[i]].dirty)
      BY Zenon DEF BInv, QueueInv, Transferred
    <3> QED
      BY <1>1, <1>4, <1>7, <3>1, Zenon
  <2>2. ASSUME NEW q \in Procs, place'[q] = "iderw" PROVE ~(buf'[cur'[q]].valid /\ ~buf'[cur'[q]].dirty)
    <3>1. place[q] = "iderw" /\ cur'[q] = cur[q] /\ cur[q] \in Bufs
      BY <1>1, <1>4, <2>2, Zenon DEF BInv, PlaceInv
    <3>2. ~(buf[cur[q]].valid /\ ~buf[cur[q]].dirty)
      BY <3>1, Zenon DEF BInv, QueueInv, Transferred
    <3> QED
      BY <1>3, <3>1, <3>2
  <2>3. \A i, j \in 1..Len(idequeue) : idequeue[i] = idequeue[j] => i = j
    BY Zenon DEF BInv, QueueInv
  <2> QED
    BY <1>1, <2>1, <2>2, <2>3 DEF QueueInv, Transferred
<1>15. idequeue # <<>> => buf'[idequeue[1]] = buf[idequeue[1]]
  BY <1>7, FirstQueued, Zenon
<1>16. DriveInv'
  BY <1>1, <1>15, Zenon DEF BInv, DriveInv
<1>17. DataInv'
  <2>1. ERRORS \/ \A c \in Bufs : buf'[c].valid /\ ~buf'[c].dirty => buf'[c].data = Latest(buf'[c].sector)
    BY <1>3 DEF BInv, DataInv
  <2>2. idequeue # <<>> /\ buf'[idequeue[1]].dirty => buf'[idequeue[1]].data = Latest(buf'[idequeue[1]].sector)
    BY <1>15, Zenon DEF BInv, DataInv
  <2> QED
    BY <1>1, <2>1, <2>2 DEF DataInv, Latest
<1> QED
  BY <1>8, <1>9, <1>10, <1>11, <1>12, <1>13, <1>14, <1>16, <1>17 DEF BInv

-----------------------------------------------------------------------------
(* Steps of the driver *)

\* Latest, of a drive and a disk that are given.
LatestOf(d, k, s) == IF d.busy /\ d.write /\ d.sector = s THEN d.data ELSE k[s]

\* idestart: what a read of the disk will give changes only for the sector of a dirty
\* buffer, to what is in the buffer.
LEMMA StartFacts ==
    ASSUME BInv, NEW b \in Bufs, buf[b].sector \in Sectors, idestart(b), UNCHANGED disk
    PROVE  /\ drive' \in Command /\ drive'.busy /\ drive'.sector = buf[b].sector
           /\ buf[b].dirty => LatestOf(drive', disk', buf[b].sector) = buf[b].data
           /\ \A s : s # buf[b].sector \/ ~buf[b].dirty => LatestOf(drive', disk', s) = Latest(s)
<1>1. ~drive.busy /\ drive' = [busy |-> TRUE, sector |-> buf[b].sector, write |-> buf[b].dirty, data |-> buf[b].data]
  BY Zenon DEF idestart
<1>2. buf[b] \in Buffer
  BY Zenon DEF BInv, VarsInv
<1>3. drive' \in Command
  BY <1>1, <1>2, Zenon DEF Buffer, Command
<1>4. /\ drive'.busy /\ drive'.sector = buf[b].sector /\ drive'.write = buf[b].dirty
      /\ drive'.data = buf[b].data
  BY <1>1, Zenon
<1>5. \A s : Latest(s) = disk[s]
  BY <1>1, Zenon DEF Latest
<1> QED
  BY <1>3, <1>4, <1>5, Zenon DEF LatestOf

\* iderw up to its sleep keeps the invariant.
LEMMA IderwStep ==
    ASSUME BcacheAssumption, BInv, NEW p \in Procs, iderw(p)
    PROVE  BInv'
<1> DEFINE b == cur[p]
<1>1. /\ ~MEMDISK /\ place[p] = "iderw" /\ idequeue' = Append(idequeue, b)
      /\ idequeue = <<>> => idestart(b)
      /\ idequeue # <<>> => drive' = drive
      /\ place' = [place EXCEPT ![p] = "iderw_sleep"]
      /\ UNCHANGED <<buf, lru, irq, disk, want, cur, held>>
  BY Zenon DEF iderw, bufVars
<1>2. b \in Bufs /\ Has(p, b) /\ buf[b].busy /\ buf[b].sector \in Sectors /\ ~Transferred(b)
  BY <1>1, Zenon DEF BInv, PlaceInv, Has, HolderInv, BufferInv, QueueInv
<1> HIDE DEF b
<1>3. \A i \in 1..Len(idequeue) : idequeue[i] # b
  BY <1>1, <1>2, UserHas, Zenon
<1>4. idequeue \in Seq(Bufs) /\ place \in [Procs -> Places] /\ cur[p] = b
  BY Zenon DEF BInv, VarsInv, b
<1>5. /\ idequeue' \in Seq(Bufs) /\ Len(idequeue') = Len(idequeue) + 1 /\ Len(idequeue) \in Nat
      /\ idequeue' # <<>> /\ idequeue'[Len(idequeue) + 1] = b
      /\ \A i \in 1..Len(idequeue) : idequeue'[i] = idequeue[i]
  BY <1>1, <1>2, <1>4
<1>6. idequeue = <<>> => /\ drive' \in Command /\ drive'.busy /\ drive'.sector = buf[b].sector
                         /\ buf[b].dirty => LatestOf(drive', disk', buf[b].sector) = buf[b].data
                         /\ \A s : s # buf[b].sector \/ ~buf[b].dirty => LatestOf(drive', disk', s) = Latest(s)
  BY <1>1, <1>2, StartFacts, Zenon
<1>8. \A q \in Procs \ {p} : place'[q] = place[q]
  BY <1>1, <1>4, Zenon
<1>9. place'[p] = "iderw_sleep" /\ place' \in [Procs -> Places]
  BY <1>1, <1>4, Zenon DEF Places
<1>10. VarsInv'
  BY <1>1, <1>5, <1>6, <1>9 DEF BInv, VarsInv
<1>11. ListInv' /\ BufferInv'
  BY <1>1, Zenon DEF BInv, ListInv, BufferInv
<1>12. HolderInv'
  BY <1>1, Zenon DEF BInv, HolderInv, Has
<1>13. PlaceInv'
  BY <1>1, <1>8, <1>9 DEF BInv, PlaceInv
<1>14. SleepInv'
  BY <1>1, <1>8, <1>9, Zenon DEF BInv, SleepInv
<1>15. QueueInv'
  <2>1. \A i, j \in 1..Len(idequeue') : idequeue'[i] = idequeue'[j] => i = j
    <3>1. \A i \in 1..Len(idequeue') : i = Len(idequeue) + 1 \/ i \in 1..Len(idequeue)
      BY <1>5
    <3> QED
      BY <1>3, <1>5, <3>1 DEF BInv, QueueInv
  <2>2. ASSUME NEW i \in 1..Len(idequeue')
        PROVE  /\ \E q \in Procs : cur[q] = idequeue'[i] /\ place'[q] \in {"iderw_sleep", "iderw_wake"}
               /\ ~Transferred(idequeue'[i])
    <3>1. CASE i \in 1..Len(idequeue)
      <4>1. /\ \E q \in Procs : cur[q] = idequeue[i] /\ place[q] \in {"iderw_sleep", "iderw_wake"}
            /\ ~Transferred(idequeue[i])
        BY <3>1, Zenon DEF BInv, QueueInv
      <4>2. \A q \in Procs : place[q] \in {"iderw_sleep", "iderw_wake"} => place'[q] = place[q]
        BY <1>1, <1>8, Zenon
      <4> QED
        BY <1>5, <3>1, <4>1, <4>2, Zenon
    <3>2. CASE i = Len(idequeue) + 1
      BY <1>2, <1>4, <1>5, <1>9, <3>2, Zenon
    <3> QED
      BY <1>5, <3>1, <3>2
  <2>3. \A q \in Procs : place'[q] = "iderw" => ~Transferred(cur[q])
    BY <1>8, <1>9, Zenon DEF BInv, QueueInv
  <2> QED
    BY <1>1, <2>1, <2>2, <2>3 DEF QueueInv, Transferred
<1>16. DriveInv' /\ DataInv'
  <2>1. CASE idequeue = <<>>
    <3>1. idequeue'[1] = b
      BY <1>5, <2>1
    <3>2. DriveInv'
      BY <1>1, <1>2, <1>5, <1>6, <2>1, <3>1, Zenon DEF BInv, DriveInv
    <3>3. ERRORS \/ \A c \in Bufs : buf[c].valid /\ ~buf[c].dirty => buf[c].data = LatestOf(drive', disk', buf[c].sector)
      <4>1. \A c \in Bufs : buf[c].valid /\ ~buf[c].dirty => buf[c].sector # buf[b].sector \/ ~buf[b].dirty
        BY <1>2, Zenon DEF BInv, BufferInv
      <4> QED
        BY <1>6, <2>1, <4>1, Zenon DEF BInv, DataInv
    <3>4. buf[b].dirty => buf[b].data = LatestOf(drive', disk', buf[b].sector)
      BY <1>6, <2>1, Zenon
    <3>5. DataInv'
      BY <1>1, <3>1, <3>3, <3>4 DEF DataInv, Latest, LatestOf
    <3> QED
      BY <3>2, <3>5, Zenon
  <2>2. CASE idequeue # <<>>
    <3>1. idequeue'[1] = idequeue[1] /\ idequeue' # <<>>
      BY <1>5, <2>2, FirstQueued, Zenon
    <3>2. DriveInv'
      BY <1>1, <2>2, <3>1, Zenon DEF BInv, DriveInv
    <3>3. DataInv'
      BY <1>1, <2>2, <3>1 DEF BInv, DataInv, Latest
    <3> QED
      BY <3>2, <3>3, Zenon
  <2> QED
    BY <2>1, <2>2, Zenon
<1> QED
  BY <1>10, <1>11, <1>12, <1>13, <1>14, <1>15, <1>16 DEF BInv

\* A process that returns from iderw has its buffer to itself, as before.
LEMMA IderwReturns ==
    ASSUME BcacheAssumption, BInv, NEW p \in Procs, place[p] \in {"iderw", "iderw_wake"},
           held' = [held EXCEPT ![p] = held[p] \cup {cur[p]}], cur' = [cur EXCEPT ![p] = NoOne],
           place' = [place EXCEPT ![p] = "user"], UNCHANGED want
    PROVE  /\ cur[p] \in Bufs /\ cur'[p] = NoOne /\ place'[p] = "user" /\ held'[p] = held[p] \cup {cur[p]}
           /\ held' \in [Procs -> SUBSET Bufs] /\ cur' \in [Procs -> Bufs \cup {NoOne}] /\ place' \in [Procs -> Places]
           /\ \A q \in Procs \ {p} : place'[q] = place[q] /\ cur'[q] = cur[q] /\ held'[q] = held[q]
           /\ \A q \in Procs, c \in Bufs : Has(q, c)' <=> Has(q, c)
           /\ PlaceInv'
<1>1. /\ place \in [Procs -> Places] /\ cur \in [Procs -> Bufs \cup {NoOne}] /\ held \in [Procs -> SUBSET Bufs]
      /\ NoOne \notin Bufs /\ cur[p] \in Bufs
  BY Zenon DEF BInv, VarsInv, BcacheAssumption, PlaceInv
<1>2. /\ cur'[p] = NoOne /\ place'[p] = "user" /\ held'[p] = held[p] \cup {cur[p]}
      /\ \A q \in Procs \ {p} : place'[q] = place[q] /\ cur'[q] = cur[q] /\ held'[q] = held[q]
  BY <1>1, Zenon
<1>3. held' \in [Procs -> SUBSET Bufs]
  BY <1>1, Zenon
<1>4. cur' \in [Procs -> Bufs \cup {NoOne}] /\ place' \in [Procs -> Places]
  BY <1>1, Zenon DEF Places
<1>5. \A q \in Procs, c \in Bufs : Has(q, c)' <=> Has(q, c)
  BY <1>1, <1>2, Zenon DEF Has
<1>6. PlaceInv'
  BY <1>1, <1>2 DEF BInv, PlaceInv
<1> QED
  BY <1>1, <1>2, <1>3, <1>4, <1>5, <1>6, Zenon

\* iderw's look at its buffer after it was woken keeps the invariant.
LEMMA IderwWakeStep ==
    ASSUME BcacheAssumption, BInv, NEW p \in Procs, iderw_wake(p)
    PROVE  BInv'
<1>1. place[p] = "iderw_wake" /\ UNCHANGED <<buf, lru, idequeue, drive, irq, disk, want>>
  BY Zenon DEF iderw_wake, bufVars, ideVars
<1>2. CASE Transferred(cur[p])
  <2>1. /\ held' = [held EXCEPT ![p] = held[p] \cup {cur[p]}] /\ cur' = [cur EXCEPT ![p] = NoOne]
        /\ place' = [place EXCEPT ![p] = "user"]
    BY <1>2, Zenon DEF iderw_wake
  <2>2. /\ cur[p] \in Bufs /\ cur'[p] = NoOne /\ place'[p] = "user" /\ held'[p] = held[p] \cup {cur[p]}
        /\ held' \in [Procs -> SUBSET Bufs] /\ cur' \in [Procs -> Bufs \cup {NoOne}] /\ place' \in [Procs -> Places]
        /\ \A q \in Procs \ {p} : place'[q] = place[q] /\ cur'[q] = cur[q] /\ held'[q] = held[q]
        /\ \A q \in Procs, c \in Bufs : Has(q, c)' <=> Has(q, c)
        /\ PlaceInv'
    BY <1>1, <2>1, IderwReturns, Zenon
  <2>3. VarsInv'
    BY <1>1, <2>2, Zenon DEF BInv, VarsInv
  <2>4. ListInv' /\ BufferInv'
    BY <1>1, Zenon DEF BInv, ListInv, BufferInv
  <2>5. HolderInv'
    <3>1. \A q \in Procs : \A c \in held'[q] : buf'[c].valid /\ cur'[q] # c
      <4>1. \A c \in held'[p] : buf'[c].valid /\ cur'[p] # c
        BY <1>1, <1>2, <2>2 DEF BInv, HolderInv, Transferred, BcacheAssumption, VarsInv
      <4>2. \A q \in Procs \ {p} : \A c \in held'[q] : buf'[c].valid /\ cur'[q] # c
        BY <1>1, <2>2 DEF BInv, HolderInv
      <4> QED
        BY <4>1, <4>2, Zenon
    <3> QED
      BY <1>1, <2>2, <3>1, Zenon DEF BInv, HolderInv
  <2>6. SleepInv'
    BY <1>1, <2>2 DEF BInv, SleepInv
  <2>7. QueueInv'
    <3>1. ASSUME NEW i \in 1..Len(idequeue)
          PROVE  /\ \E q \in Procs : cur'[q] = idequeue[i] /\ place'[q] \in {"iderw_sleep", "iderw_wake"}
                 /\ ~Transferred(idequeue[i])
      <4>1. /\ \E q \in Procs : cur[q] = idequeue[i] /\ place[q] \in {"iderw_sleep", "iderw_wake"}
            /\ ~Transferred(idequeue[i])
        BY Zenon DEF BInv, QueueInv
      <4> QED
        BY <1>2, <2>2, <4>1, Zenon
    <3>2. \A q \in Procs : place'[q] = "iderw" => ~Transferred(cur'[q])
      BY <2>2 DEF BInv, QueueInv
    <3>3. \A i, j \in 1..Len(idequeue) : idequeue[i] = idequeue[j] => i = j
      BY Zenon DEF BInv, QueueInv
    <3> QED
      BY <1>1, <3>1, <3>2, <3>3, Zenon DEF QueueInv, Transferred
  <2>8. DriveInv' /\ DataInv'
    BY <1>1, Zenon DEF BInv, DriveInv, DataInv, Latest
  <2> QED
    BY <2>2, <2>3, <2>4, <2>5, <2>6, <2>7, <2>8 DEF BInv
<1>3. CASE ~Transferred(cur[p])
  <2>1. place' = [place EXCEPT ![p] = "iderw_sleep"] /\ UNCHANGED <<bufVars, ideVars, want, held, cur>>
    BY <1>3, Zenon DEF iderw_wake
  <2>2. place \in [Procs -> Places] /\ want \in [Procs -> Sectors \cup {NoOne}] /\ want[p] \notin Sectors
    BY <1>1, Zenon DEF BInv, VarsInv, PlaceInv
  <2> QED
    BY <1>1, <2>1, <2>2, MoveKeeps, Zenon DEF Places
<1> QED
  BY <1>2, <1>3, Zenon

\* What memide.c's iderw does to the buffer and to the disk.
MemFacts(b) ==
    /\ b \in Bufs /\ buf[b].busy /\ buf[b].sector \in Sectors
    /\ buf' \in [Bufs -> Buffer] /\ (\A c \in Bufs \ {b} : buf'[c] = buf[c])
    /\ buf'[b].sector = buf[b].sector /\ buf'[b].busy = buf[b].busy /\ buf'[b].valid /\ ~buf'[b].dirty
    /\ buf'[b].data = disk'[buf[b].sector]
    /\ buf'[b].data = IF buf[b].dirty THEN buf[b].data ELSE disk[buf[b].sector]
    /\ disk' \in [Sectors -> Data] /\ \A s \in Sectors \ {buf[b].sector} : disk'[s] = disk[s]

\* A dirty buffer goes to the disk and a clean one is read from it.
LEMMA IderwMemFacts ==
    ASSUME BcacheAssumption, BInv, NEW p \in Procs, iderw_mem(p)
    PROVE  MemFacts(cur[p]) /\ Has(p, cur[p])
<1> DEFINE b == cur[p]
<1>1. /\ place[p] = "iderw"
      /\ buf[b].dirty => /\ disk' = [disk EXCEPT ![buf[b].sector] = buf[b].data]
                         /\ buf' = [buf EXCEPT ![b].dirty = FALSE, ![b].valid = TRUE]
      /\ ~buf[b].dirty => /\ buf' = [buf EXCEPT ![b].data = disk[buf[b].sector], ![b].valid = TRUE]
                          /\ disk' = disk
  BY Zenon DEF iderw_mem
<1>2. b \in Bufs /\ Has(p, b) /\ buf[b].busy /\ buf[b].sector \in Sectors
  BY <1>1, Zenon DEF Has, BInv, HolderInv, BufferInv, PlaceInv
<1>3. buf \in [Bufs -> Buffer] /\ buf[b] \in Buffer /\ disk \in [Sectors -> Data]
  BY <1>2, Zenon DEF BInv, VarsInv
<1> HIDE DEF b
<1>4. CASE buf[b].dirty
  <2>1. buf'[b] = [buf[b] EXCEPT !.dirty = FALSE, !.valid = TRUE]
    BY <1>1, <1>2, <1>3, <1>4, Zenon
  <2>2. /\ buf'[b] \in Buffer /\ buf'[b].sector = buf[b].sector /\ buf'[b].busy = buf[b].busy
        /\ buf'[b].valid /\ ~buf'[b].dirty /\ buf'[b].data = buf[b].data /\ buf[b].data \in Data
    BY <1>3, <2>1, Zenon DEF Buffer
  <2>3. disk' \in [Sectors -> Data] /\ disk'[buf[b].sector] = buf[b].data
        /\ \A s \in Sectors \ {buf[b].sector} : disk'[s] = disk[s]
    BY <1>1, <1>2, <1>3, <1>4, <2>2
  <2>4. buf' \in [Bufs -> Buffer] /\ \A c \in Bufs \ {b} : buf'[c] = buf[c]
    BY <1>1, <1>3, <1>4, <2>2, Zenon
  <2> QED
    BY <1>2, <1>4, <2>2, <2>3, <2>4 DEF MemFacts, b
<1>5. CASE ~buf[b].dirty
  <2>1. buf'[b] = [buf[b] EXCEPT !.data = disk[buf[b].sector], !.valid = TRUE]
    BY <1>1, <1>2, <1>3, <1>5, Zenon
  <2>2. disk[buf[b].sector] \in Data
    BY <1>2, <1>3, Zenon
  <2>3. /\ buf'[b] \in Buffer /\ buf'[b].sector = buf[b].sector /\ buf'[b].busy = buf[b].busy
        /\ buf'[b].valid /\ ~buf'[b].dirty /\ buf'[b].data = disk[buf[b].sector]
    BY <1>3, <1>5, <2>1, <2>2, Zenon DEF Buffer
  <2>4. buf' \in [Bufs -> Buffer] /\ \A c \in Bufs \ {b} : buf'[c] = buf[c]
    BY <1>1, <1>3, <1>5, <2>3, Zenon
  <2> QED
    BY <1>1, <1>2, <1>3, <1>5, <2>3, <2>4, Zenon DEF MemFacts, b
<1> QED
  BY <1>4, <1>5, Zenon

\* memide.c's iderw keeps the invariant.
LEMMA IderwMemStep ==
    ASSUME BcacheAssumption, BInv, NEW p \in Procs, iderw_mem(p)
    PROVE  BInv'
<1> DEFINE b == cur[p]
<1>1. /\ MEMDISK /\ place[p] = "iderw"
      /\ held' = [held EXCEPT ![p] = held[p] \cup {cur[p]}] /\ cur' = [cur EXCEPT ![p] = NoOne]
      /\ place' = [place EXCEPT ![p] = "user"]
      /\ UNCHANGED <<lru, idequeue, drive, irq, want>>
  BY Zenon DEF iderw_mem
<1>2. /\ cur[p] \in Bufs /\ cur'[p] = NoOne /\ place'[p] = "user" /\ held'[p] = held[p] \cup {cur[p]}
      /\ held' \in [Procs -> SUBSET Bufs] /\ cur' \in [Procs -> Bufs \cup {NoOne}] /\ place' \in [Procs -> Places]
      /\ \A q \in Procs \ {p} : place'[q] = place[q] /\ cur'[q] = cur[q] /\ held'[q] = held[q]
      /\ \A q \in Procs, c \in Bufs : Has(q, c)' <=> Has(q, c)
      /\ PlaceInv'
  BY <1>1, IderwReturns, Zenon
<1>3. MemFacts(b) /\ Has(p, b)
  BY IderwMemFacts, Zenon
<1> HIDE DEF b
<1>4. b \in Bufs /\ cur[p] = b /\ buf[b].busy /\ buf[b].sector \in Sectors
  BY <1>3, Zenon DEF MemFacts, b
<1>5. /\ buf' \in [Bufs -> Buffer] /\ (\A c \in Bufs \ {b} : buf'[c] = buf[c])
      /\ buf'[b].sector = buf[b].sector /\ buf'[b].busy = buf[b].busy /\ buf'[b].valid /\ ~buf'[b].dirty
      /\ buf'[b].data = disk'[buf[b].sector]
      /\ disk' \in [Sectors -> Data] /\ \A s \in Sectors \ {buf[b].sector} : disk'[s] = disk[s]
  BY <1>3, Zenon DEF MemFacts
<1>6. ~drive.busy /\ idequeue = <<>>
  BY <1>1, Zenon DEF BInv, DriveInv
<1>7. VarsInv'
  BY <1>1, <1>2, <1>5, Zenon DEF BInv, VarsInv
<1>8. ListInv'
  BY <1>1, Zenon DEF BInv, ListInv
<1>9. BufferInv'
  BY <1>4, <1>5 DEF BInv, BufferInv
<1>10. HolderInv'
  <2>1. \A c \in Bufs : buf'[c].busy = buf[c].busy /\ (buf[c].valid => buf'[c].valid)
    BY <1>5, Zenon
  <2>2. \A q \in Procs : \A c \in held'[q] : buf'[c].valid /\ cur'[q] # c
    <3>1. \A c \in held'[p] : c \in Bufs /\ buf'[c].valid /\ cur'[p] # c
      <4>1. \A c \in held[p] : c \in Bufs /\ buf[c].valid
        BY Zenon DEF BInv, HolderInv, VarsInv
      <4> QED
        BY <1>2, <1>4, <1>5, <2>1, <4>1 DEF BcacheAssumption
    <3>2. \A q \in Procs \ {p} : \A c \in held'[q] : buf'[c].valid /\ cur'[q] # c
      BY <1>2, <2>1 DEF BInv, HolderInv
    <3> QED
      BY <3>1, <3>2, Zenon
  <2> QED
    BY <1>2, <2>1, <2>2, Zenon DEF BInv, HolderInv
<1>11. SleepInv'
  <2>1. \A c \in Bufs : buf'[c].sector = buf[c].sector /\ buf'[c].busy = buf[c].busy
    BY <1>5, Zenon
  <2>2. ASSUME NEW q \in Procs, place'[q] = "bget_sleep"
        PROVE  \E c \in Bufs : buf'[c].sector = want'[q] /\ buf'[c].busy
    <3>1. place[q] = "bget_sleep" /\ want'[q] = want[q]
      BY <1>1, <1>2, <2>2, Zenon
    <3>2. PICK c \in Bufs : buf[c].sector = want[q] /\ buf[c].busy
      BY <3>1, Zenon DEF BInv, SleepInv
    <3> QED
      BY <2>1, <3>1, <3>2, Zenon
  <2> QED
    BY <2>2, Zenon DEF SleepInv
<1>12. QueueInv'
  <2>1. ASSUME NEW q \in Procs, place'[q] = "iderw" PROVE ~(buf'[cur'[q]].valid /\ ~buf'[cur'[q]].dirty)
    <3>1. q # p /\ place[q] = "iderw" /\ cur'[q] = cur[q] /\ cur[q] \in Bufs
      BY <1>2, <2>1, Zenon DEF BInv, PlaceInv
    <3>2. Has(q, cur[q])
      BY Zenon DEF Has
    <3>3. cur[q] # b
      BY <1>3, <1>4, <3>1, <3>2 DEF BInv, HolderInv
    <3>4. ~(buf[cur[q]].valid /\ ~buf[cur[q]].dirty)
      BY <3>1, Zenon DEF BInv, QueueInv, Transferred
    <3> QED
      BY <1>5, <3>1, <3>3, <3>4
  <2> QED
    BY <1>1, <1>6, <2>1 DEF QueueInv, Transferred
<1>13. DriveInv'
  BY <1>1, <1>6, Zenon DEF BInv, DriveInv
<1>14. DataInv'
  <2>1. \A c \in Bufs \ {b} : buf[c].valid => buf[c].sector \in Sectors /\ buf[c].sector # buf[b].sector
    BY <1>4, Zenon DEF BInv, BufferInv
  <2>2. ERRORS \/ \A c \in Bufs : buf'[c].valid /\ ~buf'[c].dirty => buf'[c].data = disk'[buf'[c].sector]
    BY <1>5, <1>6, <2>1 DEF BInv, DataInv, Latest
  <2> QED
    BY <1>1, <1>6, <2>2, Zenon DEF DataInv, Latest
<1> QED
  BY Zenon, <1>2, <1>7, <1>8, <1>9, <1>10, <1>11, <1>12, <1>13, <1>14 DEF BInv

\* The drive at rest is a command like another.
LEMMA IdleCommand ==
    ASSUME BcacheAssumption
    PROVE  Idle \in Command /\ ~Idle.busy
<1>1. (CHOOSE v \in Data : TRUE) \in Data
  BY Zenon DEF BcacheAssumption
<1> QED
  BY <1>1, Zenon DEF Idle, Command

\* A step of the drive changes nothing that a read will give, and keeps the invariant.
LEMMA DriveDoneStep ==
    ASSUME BcacheAssumption, BInv, DriveDone
    PROVE  BInv' /\ \A s \in Sectors : LatestOf(drive', disk', s) = Latest(s)
<1>1. /\ drive.busy /\ drive' = Idle /\ irq' = TRUE
      /\ drive.write => disk' = [disk EXCEPT ![drive.sector] = drive.data]
      /\ ~drive.write => disk' = disk
      /\ UNCHANGED <<buf, lru, idequeue, place, want, cur, held>>
  BY Zenon DEF DriveDone, bufVars, procVars
<1>2. drive \in Command /\ drive.sector \in Sectors /\ drive.data \in Data /\ disk \in [Sectors -> Data]
  BY <1>1, Zenon DEF BInv, VarsInv, DriveInv, Command
<1>3. disk' \in [Sectors -> Data] /\ \A s \in Sectors : disk'[s] = Latest(s)
  BY <1>1, <1>2, Zenon DEF Latest
<1>4. drive' \in Command /\ ~drive'.busy
  BY <1>1, IdleCommand, Zenon
<1>5. \A s \in Sectors : LatestOf(drive', disk', s) = Latest(s)
  BY <1>3, <1>4, Zenon DEF LatestOf
<1>6. VarsInv'
  BY <1>1, <1>3, <1>4, Zenon DEF BInv, VarsInv
<1>7. ListInv' /\ BufferInv' /\ PlaceInv' /\ SleepInv'
  BY <1>1 DEF BInv, ListInv, BufferInv, PlaceInv, SleepInv
<1>8. HolderInv'
  BY Zenon, <1>1 DEF BInv, HolderInv, Has
<1>9. QueueInv'
  BY <1>1 DEF BInv, QueueInv, Transferred
<1>10. DriveInv'
  BY <1>1, <1>4, Zenon DEF BInv, DriveInv
<1>11. DataInv'
  <2>1. \A c \in Bufs : buf[c].valid => buf[c].sector \in Sectors
    BY Zenon DEF BInv, BufferInv
  <2>2. idequeue # <<>> => buf[idequeue[1]].sector \in Sectors
    BY FirstQueued, Queued, Zenon
  <2>3. ERRORS \/ \A c \in Bufs : buf[c].valid /\ ~buf[c].dirty => buf[c].data = LatestOf(drive', disk', buf[c].sector)
    BY <1>5, <2>1, Zenon DEF BInv, DataInv
  <2>4. idequeue # <<>> /\ buf[idequeue[1]].dirty => buf[idequeue[1]].data = LatestOf(drive', disk', buf[idequeue[1]].sector)
    BY <1>5, <2>2, Zenon DEF BInv, DataInv
  <2> QED
    BY <1>1, <2>3, <2>4, Zenon DEF DataInv, Latest, LatestOf
<1> QED
  BY <1>5, <1>6, <1>7, <1>8, <1>9, <1>10, <1>11, Zenon DEF BInv

\* So do an interrupt that nobody asked for and its handling.
LEMMA SpuriousStep ==
    ASSUME BcacheAssumption, BInv, Spurious \/ ideintr_spurious
    PROVE  BInv'
<1>1. /\ idequeue = <<>> /\ irq' \in BOOLEAN
      /\ UNCHANGED <<buf, lru, idequeue, drive, disk, place, want, cur, held>>
  BY Zenon DEF Spurious, ideintr_spurious, bufVars, procVars
<1>2. VarsInv'
  BY <1>1, Zenon DEF BInv, VarsInv
<1>3. ListInv' /\ BufferInv' /\ PlaceInv' /\ SleepInv'
  BY <1>1 DEF BInv, ListInv, BufferInv, PlaceInv, SleepInv
<1>4. HolderInv'
  BY <1>1, Zenon DEF BInv, HolderInv, Has
<1>5. QueueInv'
  BY <1>1 DEF BInv, QueueInv, Transferred
<1>6. DriveInv'
  <2>1. SPURIOUS
    BY <1>1, Zenon DEF Spurious, ideintr_spurious, BInv, DriveInv
  <2> QED
    BY <1>1, <2>1, Zenon DEF BInv, DriveInv
<1>7. DataInv'
  BY <1>1, Zenon DEF BInv, DataInv, Latest
<1> QED
  BY <1>2, <1>3, <1>4, <1>5, <1>6, <1>7, Zenon DEF BInv

\* What ideintr does to the buffer of the active request, and to what a read will give.
IntrFacts(b) ==
    /\ b = idequeue[1] /\ b \in Bufs /\ buf[b].busy /\ buf[b].sector \in Sectors
    /\ buf' \in [Bufs -> Buffer] /\ (\A c \in Bufs \ {b} : buf'[c] = buf[c])
    /\ buf'[b].sector = buf[b].sector /\ buf'[b].busy = buf[b].busy /\ buf'[b].valid /\ ~buf'[b].dirty
    /\ buf[b].dirty => buf'[b].data = buf[b].data
    /\ ERRORS \/ buf'[b].data = Latest(buf[b].sector)
    /\ drive' \in Command
    /\ \A c \in Bufs : (buf[c].sector \in Sectors /\ ~buf[c].dirty) \/ c = b =>
                           LatestOf(drive', disk', buf[c].sector) = Latest(buf[c].sector)
    /\ \A s \in Sectors : (\A c \in Bufs \ {b} : buf[c].dirty => buf[c].sector # s) =>
                           LatestOf(drive', disk', s) = Latest(s)

\* A handled interrupt completes the active request with what the disk has.
LEMMA IdeintrFacts ==
    ASSUME BcacheAssumption, BInv, ideintr
    PROVE  IntrFacts(Head(idequeue))
<1> DEFINE b == Head(idequeue)
<1>1. /\ irq /\ idequeue # <<>> /\ (buf[b].dirty \/ ~drive.busy)
      /\ \E v \in (IF buf[b].dirty THEN {buf[b].data} ELSE ReadData(b)) :
             buf' = [buf EXCEPT ![b].data = v, ![b].valid = TRUE, ![b].dirty = FALSE]
      /\ StartNext /\ disk' = disk
  BY Zenon DEF ideintr
<1>2. b = idequeue[1] /\ 1 \in 1..Len(idequeue) /\ Len(idequeue) \in Nat
  BY <1>1, FirstQueued, Zenon
<1> HIDE DEF b
<1>3. b \in Bufs /\ buf[b].busy /\ buf[b].sector \in Sectors
  BY <1>2, Queued, Zenon
<1>4. buf \in [Bufs -> Buffer] /\ buf[b] \in Buffer /\ disk \in [Sectors -> Data]
  BY <1>3, Zenon DEF BInv, VarsInv
<1>5. PICK v : /\ v \in (IF buf[b].dirty THEN {buf[b].data} ELSE ReadData(b))
               /\ buf' = [buf EXCEPT ![b].data = v, ![b].valid = TRUE, ![b].dirty = FALSE]
  BY <1>1, Zenon
<1>6. v \in Data /\ (buf[b].dirty => v = buf[b].data) /\ (~buf[b].dirty => ERRORS \/ v = disk[buf[b].sector])
  BY <1>3, <1>4, <1>5 DEF ReadData, Buffer
<1>7. buf'[b] = [buf[b] EXCEPT !.data = v, !.valid = TRUE, !.dirty = FALSE]
  BY <1>3, <1>4, <1>5, Zenon
<1>8. /\ buf'[b] \in Buffer /\ buf'[b].sector = buf[b].sector /\ buf'[b].busy = buf[b].busy /\ buf'[b].valid
      /\ ~buf'[b].dirty /\ buf'[b].data = v
  BY <1>4, <1>6, <1>7, Zenon DEF Buffer
<1>9. buf' \in [Bufs -> Buffer] /\ \A c \in Bufs \ {b} : buf'[c] = buf[c]
  BY <1>4, <1>5, <1>8, Zenon
<1>10. ERRORS \/ v = Latest(buf[b].sector)
  <2>1. CASE buf[b].dirty
    BY <1>1, <1>2, <1>6, <2>1, Zenon DEF BInv, DataInv
  <2>2. CASE ~buf[b].dirty
    BY <1>1, <1>6, <2>2, Zenon DEF Latest
  <2> QED
    BY <2>1, <2>2, Zenon
<1>11. /\ drive' \in Command
       /\ \A c \in Bufs : (buf[c].sector \in Sectors /\ ~buf[c].dirty) \/ c = b =>
                              LatestOf(drive', disk', buf[c].sector) = Latest(buf[c].sector)
       /\ \A s \in Sectors : (\A c \in Bufs \ {b} : buf[c].dirty => buf[c].sector # s) =>
                              LatestOf(drive', disk', s) = Latest(s)
  <2>1. CASE Len(idequeue) = 1
    <3>1. drive' = drive
      BY <1>1, <2>1, Zenon DEF StartNext
    <3> QED
      BY <1>1, <3>1, Zenon DEF BInv, VarsInv, Latest, LatestOf
  <2>2. CASE Len(idequeue) # 1
    <3>0. 2 \in 1..Len(idequeue)
      BY <1>2, <2>2
    <3>1. 2 \in 1..Len(idequeue) /\ idestart(idequeue[2])
      BY <1>1, <2>2, <3>0, Zenon DEF StartNext
    <3>2. idequeue[2] \in Bufs /\ buf[idequeue[2]].sector \in Sectors
      BY <3>1, Queued, Zenon
    <3>3. /\ drive' \in Command
          /\ \A s : s # buf[idequeue[2]].sector \/ ~buf[idequeue[2]].dirty => LatestOf(drive', disk', s) = Latest(s)
      BY <1>1, <3>1, <3>2, StartFacts
    <3>4. idequeue[2] # b
      BY <1>2, <3>1 DEF BInv, QueueInv
    <3>5. \A c \in Bufs : buf[c].sector = buf[idequeue[2]].sector => c = idequeue[2]
      BY <3>2, Zenon DEF BInv, BufferInv
    <3> QED
      BY <3>2, <3>3, <3>4, <3>5
  <2> QED
    BY <2>1, <2>2, Zenon
<1> QED
  BY <1>2, <1>3, <1>6, <1>8, <1>9, <1>10, <1>11, Zenon DEF IntrFacts, b

\* What is left of the queue: the buffers behind the first one.
LEMMA TailFacts ==
    ASSUME NEW q \in Seq(Bufs), q # <<>>
    PROVE  /\ Tail(q) \in Seq(Bufs) /\ Len(Tail(q)) = Len(q) - 1 /\ Len(q) \in Nat /\ Len(q) >= 1
           /\ \A i \in 1..Len(Tail(q)) : i + 1 \in 1..Len(q) /\ Tail(q)[i] = q[i + 1]
           /\ Len(q) = 1 <=> Tail(q) = <<>>
<1>1. Tail(q) \in Seq(Bufs) /\ Len(Tail(q)) = Len(q) - 1 /\ Len(q) \in Nat /\ Len(q) >= 1
  OBVIOUS
<1>2. \A i \in 1..Len(Tail(q)) : i + 1 \in 1..Len(q) /\ Tail(q)[i] = q[i + 1]
  BY <1>1
<1>3. Len(Tail(q)) = 0 <=> Tail(q) = <<>>
  BY <1>1, EmptyList, Zenon
<1> QED
  BY <1>1, <1>2, <1>3

\* ideintr keeps the invariant.
LEMMA IdeintrStep ==
    ASSUME BcacheAssumption, BInv, ideintr
    PROVE  BInv'
<1> DEFINE b == Head(idequeue)
<1>1. /\ irq /\ idequeue # <<>> /\ irq' = FALSE /\ idequeue' = Tail(idequeue) /\ place' = Wake(b)
      /\ StartNext /\ UNCHANGED <<lru, disk, want, cur, held>>
  BY Zenon DEF ideintr
<1>2. IntrFacts(b)
  BY IdeintrFacts, Zenon
<1> HIDE DEF b
<1>3. /\ place' \in [Procs -> Places]
      /\ \A q \in Procs :
            /\ place'[q] = place[q] \/ (place[q] = "bget_sleep" /\ place'[q] = "bget")
                                    \/ (place[q] = "iderw_sleep" /\ place'[q] = "iderw_wake")
            /\ place'[q] = "bget_sleep" => place[q] = "bget_sleep" /\ want[q] # buf[b].sector
  BY <1>1, WakeFacts, Zenon
<1>4. /\ idequeue' \in Seq(Bufs) /\ Len(idequeue') = Len(idequeue) - 1 /\ Len(idequeue) \in Nat /\ Len(idequeue) >= 1
      /\ \A i \in 1..Len(idequeue') : i + 1 \in 1..Len(idequeue) /\ idequeue'[i] = idequeue[i + 1]
      /\ Len(idequeue) = 1 <=> idequeue' = <<>>
  BY <1>1, TailFacts, Zenon DEF BInv, VarsInv
<1>5. \A i \in 1..Len(idequeue') : /\ idequeue'[i] \in Bufs /\ idequeue'[i] # b
                                   /\ buf'[idequeue'[i]] = buf[idequeue'[i]]
  <2>1. \A i \in 1..Len(idequeue') : i + 1 # 1 /\ 1 \in 1..Len(idequeue)
    BY <1>4
  <2>2. \A i \in 1..Len(idequeue') : idequeue[i + 1] # idequeue[1]
    BY <1>4, <2>1, Zenon DEF BInv, QueueInv
  <2>3. \A i \in 1..Len(idequeue') : idequeue'[i] \in Bufs
    BY <1>4
  <2> QED
    BY <1>2, <1>4, <2>2, <2>3, Zenon DEF IntrFacts
<1>6. \A c \in Bufs : buf'[c].sector = buf[c].sector /\ buf'[c].busy = buf[c].busy /\ (buf[c].valid => buf'[c].valid)
  BY <1>2, Zenon DEF IntrFacts
<1>7. VarsInv'
  BY <1>1, <1>2, <1>3, <1>4, Zenon DEF BInv, VarsInv, IntrFacts
<1>8. ListInv'
  BY <1>1, Zenon DEF BInv, ListInv
<1>9. PlaceInv'
  BY <1>1, <1>3, Zenon DEF BInv, PlaceInv
<1>10. BufferInv'
  <2>1. \A c \in Bufs \ {b} : buf'[c] = buf[c]
    BY <1>2, Zenon DEF IntrFacts
  <2>2. buf'[b].valid /\ ~buf'[b].dirty /\ buf[b].sector \in Sectors
    BY <1>2, Zenon DEF IntrFacts
  <2>3. \A c, e \in Bufs : buf'[c].sector = buf'[e].sector /\ buf'[c].sector \in Sectors => c = e
    BY <1>6 DEF BInv, BufferInv
  <2>4. \A c \in Bufs : buf'[c].busy \/ buf'[c].valid => buf'[c].sector \in Sectors
    BY <1>6, <2>1, <2>2, Zenon DEF BInv, BufferInv
  <2>5. \A c \in Bufs : buf'[c].dirty => buf'[c].valid
    BY <2>1, <2>2, Zenon DEF BInv, BufferInv
  <2> QED
    BY <2>3, <2>4, <2>5, Zenon DEF BufferInv
<1>11. HolderInv'
  <2>1. \A q \in Procs, c \in Bufs : Has(q, c)' <=> Has(q, c)
    BY <1>1, Zenon DEF Has
  <2>2. \A q \in Procs : \A c \in held'[q] : buf'[c].valid /\ cur'[q] # c
    BY <1>1, <1>6, Zenon DEF BInv, HolderInv, VarsInv
  <2> QED
    BY <1>6, <2>1, <2>2, Zenon DEF BInv, HolderInv
<1>12. SleepInv'
  BY <1>1, <1>3, <1>6 DEF BInv, SleepInv
<1>13. QueueInv'
  <2>1. \A i, j \in 1..Len(idequeue') : idequeue'[i] = idequeue'[j] => i = j
    <3>1. ASSUME NEW i \in 1..Len(idequeue'), NEW j \in 1..Len(idequeue'), idequeue'[i] = idequeue'[j] PROVE i = j
      <4>1. i + 1 = j + 1
        BY <1>4, <3>1 DEF BInv, QueueInv
      <4> QED
        BY <1>4, <4>1
    <3> QED
      BY <3>1, Zenon
  <2>2. ASSUME NEW i \in 1..Len(idequeue')
        PROVE  /\ \E q \in Procs : cur'[q] = idequeue'[i] /\ place'[q] \in {"iderw_sleep", "iderw_wake"}
               /\ ~(buf'[idequeue'[i]].valid /\ ~buf'[idequeue'[i]].dirty)
    <3>1. /\ \E q \in Procs : cur[q] = idequeue[i + 1] /\ place[q] \in {"iderw_sleep", "iderw_wake"}
          /\ ~(buf[idequeue[i + 1]].valid /\ ~buf[idequeue[i + 1]].dirty)
      BY <1>4, Zenon DEF BInv, QueueInv, Transferred
    <3>2. \A q \in Procs : place[q] \in {"iderw_sleep", "iderw_wake"} => place'[q] \in {"iderw_sleep", "iderw_wake"}
      BY <1>3, Zenon
    <3> QED
      BY <1>1, <1>4, <1>5, <3>1, <3>2
  <2>3. ASSUME NEW q \in Procs, place'[q] = "iderw" PROVE ~(buf'[cur'[q]].valid /\ ~buf'[cur'[q]].dirty)
    <3>1. place[q] = "iderw" /\ cur'[q] = cur[q] /\ cur[q] \in Bufs
      BY <1>1, <1>3, <2>3, Zenon DEF BInv, PlaceInv
    <3>2. Has(q, cur[q])
      BY Zenon DEF Has
    <3>3. cur[q] # b
      <4>1. 1 \in 1..Len(idequeue) /\ b = idequeue[1]
        BY <1>2, <1>4 DEF IntrFacts
      <4>2. Has(q, idequeue[1]) => place[q] \in {"iderw_sleep", "iderw_wake"}
        BY <4>1, Queued, Zenon
      <4> QED
        BY <3>1, <3>2, <4>1, <4>2, Zenon
    <3>4. ~(buf[cur[q]].valid /\ ~buf[cur[q]].dirty)
      BY <3>1, Zenon DEF BInv, QueueInv, Transferred
    <3> QED
      BY <1>2, <3>1, <3>3, <3>4 DEF IntrFacts
  <2> QED
    BY <2>1, <2>2, <2>3, Zenon DEF QueueInv, Transferred
<1>14. idequeue' # <<>> => /\ 2 \in 1..Len(idequeue) /\ idequeue'[1] = idequeue[2] /\ idestart(idequeue[2])
                           /\ idequeue[2] \in Bufs /\ buf'[idequeue[2]] = buf[idequeue[2]]
                           /\ buf[idequeue[2]].sector \in Sectors
  <2>1. idequeue' # <<>> => 1 \in 1..Len(idequeue') /\ Len(idequeue) # 1
    BY <1>4
  <2>2. idequeue' # <<>> => 2 \in 1..Len(idequeue) /\ idequeue'[1] = idequeue[2]
    BY <1>4, <2>1
  <2>3. idequeue' # <<>> => idestart(idequeue[2])
    BY <1>1, <2>1, Zenon DEF StartNext
  <2>4. idequeue' # <<>> => idequeue[2] \in Bufs /\ buf'[idequeue[2]] = buf[idequeue[2]]
    BY <1>5, <2>1, <2>2, Zenon
  <2>5. idequeue' # <<>> => buf[idequeue[2]].sector \in Sectors
    BY <2>2, Queued, Zenon
  <2> QED
    BY <2>2, <2>3, <2>4, <2>5, Zenon
<1>15. idequeue' # <<>> => /\ drive'.busy /\ drive'.sector = buf[idequeue[2]].sector
                           /\ buf[idequeue[2]].dirty =>
                                 LatestOf(drive', disk', buf[idequeue[2]].sector) = buf[idequeue[2]].data
  BY <1>1, <1>14, StartFacts, Zenon
<1>16. idequeue' = <<>> => drive' = drive
  BY <1>1, <1>4, Zenon DEF StartNext
<1>17. DriveInv'
  BY <1>1, <1>14, <1>15, <1>16 DEF BInv, DriveInv
<1>18. DataInv'
  <2>1. ERRORS \/ \A c \in Bufs : buf'[c].valid /\ ~buf'[c].dirty => buf'[c].data = LatestOf(drive', disk', buf'[c].sector)
    <3>1. ~ERRORS => buf'[b].data = LatestOf(drive', disk', buf'[b].sector)
      BY <1>2, Zenon DEF IntrFacts
    <3>2. ASSUME ~ERRORS, NEW c \in Bufs \ {b}, buf'[c].valid, ~buf'[c].dirty
          PROVE  buf'[c].data = LatestOf(drive', disk', buf'[c].sector)
      <4>1. buf'[c] = buf[c] /\ buf[c].valid /\ ~buf[c].dirty
        BY <1>2, <3>2, Zenon DEF IntrFacts
      <4>2. buf[c].sector \in Sectors /\ buf[c].data = Latest(buf[c].sector)
        BY <3>2, <4>1, Zenon DEF BInv, BufferInv, DataInv
      <4> QED
        BY <1>2, <4>1, <4>2 DEF IntrFacts
    <3> QED
      BY <3>1, <3>2, Zenon
  <2>2. idequeue' # <<>> /\ buf'[idequeue'[1]].dirty =>
            buf'[idequeue'[1]].data = LatestOf(drive', disk', buf'[idequeue'[1]].sector)
    BY <1>14, <1>15, Zenon
  <2> QED
    BY <2>1, <2>2, Zenon DEF DataInv, Latest, LatestOf
<1> QED
  BY <1>7, <1>8, <1>9, <1>10, <1>11, <1>12, <1>13, <1>17, <1>18 DEF BInv

-----------------------------------------------------------------------------
(* All the steps *)

\* Each step of a process or of the drive keeps the invariant.
LEMMA BcacheNext ==
    ASSUME BcacheAssumption, BInv, [Next]_vars
    PROVE  BInv'
<1>1. ASSUME NEW p \in Procs, Kernel(p) PROVE BInv'
  <2>1. ASSUME bget_hit(p) \/ bget_recycle(p) PROVE BInv'
    BY <2>1, BgetReturn, ReturnsStep, Zenon
  <2> QED
    BY <1>1, <2>1, BgetSleepStep, IderwStep, IderwWakeStep, IderwMemStep DEF Kernel
<1>2. ASSUME NEW p \in Procs, Client(p) PROVE BInv'
  BY <1>2, BreadStep, BrelseStep, WriteStep, Zenon DEF Client
<1>3. ASSUME NEW p \in Procs, kill(p) PROVE BInv'
  BY <1>3, KillStep, Zenon
<1>4. ASSUME Device PROVE BInv'
  BY <1>4, DriveDoneStep, SpuriousStep, IdeintrStep, Zenon DEF Device
<1>5. ASSUME UNCHANGED vars PROVE BInv'
  <2>1. UNCHANGED <<buf, lru, idequeue, drive, irq, disk, place, want, cur, held>>
    BY <1>5, Zenon DEF vars, bufVars, ideVars, procVars
  <2>2. VarsInv'
    BY <2>1, Zenon DEF BInv, VarsInv
  <2>3. ListInv'
    BY <2>1 DEF BInv, ListInv
  <2>4. PlaceInv'
    BY <2>1, Zenon DEF BInv, PlaceInv
  <2>5. BufferInv'
    BY <2>1, Zenon DEF BInv, BufferInv
  <2>6. HolderInv'
    BY <2>1 DEF BInv, HolderInv, Has
  <2>7. SleepInv'
    BY <2>1, Zenon DEF BInv, SleepInv
  <2>8. QueueInv'
    BY <2>1, Zenon DEF BInv, QueueInv, Transferred
  <2>9. DriveInv'
    BY <2>1, Zenon DEF BInv, DriveInv
  <2>10. DataInv'
    BY <2>1, Zenon DEF BInv, DataInv, Latest
  <2> QED
    BY <2>2, <2>3, <2>4, <2>5, <2>6, <2>7, <2>8, <2>9, <2>10 DEF BInv
<1> QED
  BY <1>1, <1>2, <1>3, <1>4, <1>5, Zenon DEF Next
=============================================================================
