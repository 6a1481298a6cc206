------------------------ MODULE BcacheStoreProofs ---------------------------
(***************************************************************************)
(* What follows from the invariant of the buffer cache: the properties of  *)
(* Bcache and that it implements BlockStore, for any number of processes,  *)
(* buffers, sectors and values.                                            *)
(***************************************************************************)
EXTENDS BcacheProofs, FiniteSetTheorems, TLAPS

\* The invariants are long formulas: the provers get more time for them.
USE SMTT(30), ZenonT(30)

-----------------------------------------------------------------------------
(* The invariance *)

\* binit's list has every buffer once.
LEMMA ListOfAll ==
    ASSUME NEW S, IsFiniteSet(S), NEW q \in Bijection(1..Cardinality(S), S)
    PROVE  /\ q \in Seq(S) /\ \A b \in S : \E i \in 1..Len(q) : q[i] = b
           /\ \A i, j \in 1..Len(q) : q[i] = q[j] => i = j
<1>1. Cardinality(S) \in Nat
  BY FS_CardinalityType, Zenon
<1>3. q \in [1..Cardinality(S) -> S] /\ Len(q) = Cardinality(S) /\ q \in Seq(S)
  BY <1>1 DEF Bijection, Injection
<1>4. \A b \in S : \E i \in 1..Cardinality(S) : q[i] = b
  BY Zenon DEF Bijection, Surjection
<1>5. \A i, j \in 1..Cardinality(S) : q[i] = q[j] => i = j
  BY <1>3, Zenon DEF Bijection, Injection, IsInjective
<1> QED
  BY <1>3, <1>4, <1>5, Zenon

\* The invariant holds when binit and ideinit are done.
LEMMA BcacheInit ==
    ASSUME BcacheAssumption, Init
    PROVE  BInv
<1>1. /\ disk \in [Sectors -> Data] /\ idequeue = <<>> /\ drive = Idle /\ irq = FALSE
      /\ lru = CHOOSE q \in Bijection(1..Cardinality(Bufs), Bufs) : TRUE
      /\ place = [p \in Procs |-> "user"] /\ want = [p \in Procs |-> NoOne]
      /\ cur = [p \in Procs |-> NoOne] /\ held = [p \in Procs |-> {}]
      /\ buf = [b \in Bufs |-> [sector |-> NoOne, busy |-> FALSE, valid |-> FALSE,
                                dirty |-> FALSE, data |-> CHOOSE v \in Data : TRUE]]
  BY Zenon DEF Init
<1>2. NoOne \notin Sectors /\ NoOne \notin Bufs /\ (CHOOSE v \in Data : TRUE) \in Data /\ IsFiniteSet(Bufs)
  BY Zenon DEF BcacheAssumption
<1>3. \A b \in Bufs : /\ buf[b] \in Buffer /\ buf[b].sector = NoOne /\ ~buf[b].busy
                      /\ ~buf[b].valid /\ ~buf[b].dirty
  BY <1>1, <1>2, Zenon DEF Buffer
<1>4. lru \in Seq(Bufs) /\ ListInv
  <2>3. ExistsBijection(1..Cardinality(Bufs), Bufs)
    BY <1>2, FS_CardinalityType, Zenon
  <2>1. lru \in Bijection(1..Cardinality(Bufs), Bufs)
    BY <1>1, <2>3, Zenon DEF ExistsBijection
  <2>2. /\ lru \in Seq(Bufs) /\ \A b \in Bufs : \E i \in 1..Len(lru) : lru[i] = b
        /\ \A i, j \in 1..Len(lru) : lru[i] = lru[j] => i = j
    BY <1>2, <2>1, ListOfAll, Zenon
  <2> QED
    BY <2>2, Zenon DEF ListInv
<1>5. drive \in Command /\ ~drive.busy
  BY <1>1, IdleCommand, Zenon
<1>6. VarsInv
  <2>1. buf \in [Bufs -> Buffer]
    BY <1>1, <1>3, Zenon
  <2>2. place \in [Procs -> Places] /\ want \in [Procs -> Sectors \cup {NoOne}]
    BY <1>1, Zenon DEF Places
  <2>3. cur \in [Procs -> Bufs \cup {NoOne}] /\ held \in [Procs -> SUBSET Bufs]
    BY <1>1, Zenon
  <2>4. idequeue \in Seq(Bufs)
    BY <1>1
  <2> QED
    BY <1>1, <1>4, <1>5, <2>1, <2>2, <2>3, <2>4, Zenon DEF VarsInv
<1>7. PlaceInv /\ SleepInv
  BY <1>1, <1>2, Zenon DEF PlaceInv, SleepInv
<1>8. BufferInv
  BY <1>2, <1>3, Zenon DEF BufferInv
<1>9. HolderInv
  BY <1>1, <1>2, <1>3, Zenon DEF HolderInv, Has
<1>10. QueueInv
  <2>1. Len(idequeue) = 0
    BY <1>1, Zenon
  <2> QED
    BY <1>1, <2>1 DEF QueueInv
<1>11. DriveInv /\ DataInv
  BY <1>1, <1>3, <1>5, Zenon DEF DriveInv, DataInv
<1> QED
  BY <1>4, <1>6, <1>7, <1>8, <1>9, <1>10, <1>11, Zenon DEF BInv

\* The invariant holds in every reachable state of the cache and its driver.
THEOREM BcacheInvariance == ASSUME BcacheAssumption PROVE Spec => []BInv
<1>1. Init => BInv
  BY BcacheInit, Zenon
<1>2. BInv /\ [Next]_vars => BInv'
  BY BcacheNext, Zenon
<1> QED
  BY <1>1, <1>2, PTL DEF Spec

-----------------------------------------------------------------------------
(* A buffer for each sector, a process for each buffer *)

\* A set in which any two members are the same has at most one.
LEMMA AtMostOne ==
    ASSUME NEW S, \A x, y \in S : x = y
    PROVE  Cardinality(S) = IF S = {} THEN 0 ELSE 1
<1>1. CASE S = {}
  BY <1>1, FS_EmptySet, Zenon
<1>2. CASE S # {}
  <2>1. PICK x : x \in S
    BY <1>2, Zenon
  <2>2. S = {x}
    BY <2>1, Zenon
  <2>3. Cardinality({x}) = 1
    BY FS_Singleton, Zenon
  <2> QED
    BY <1>2, <2>2, <2>3, Zenon
<1> QED
  BY <1>1, <1>2, Zenon

\* bget gives a sector one buffer, and a buffer one process at a time, under kills,
\* wakeups meant for others, and drives that fail or interrupt at random.
THEOREM EachBlockHasOneBuffer == ASSUME BcacheAssumption PROVE Spec => []OneBufferEach
<1>1. ASSUME BInv PROVE OneBufferEach
  <2>1. ASSUME NEW s \in Sectors PROVE Cardinality(Cached(s)) <= 1
    <3>1. \A b, c \in Cached(s) : b = c
      BY <1>1, Zenon DEF BInv, BufferInv, Cached
    <3>2. Cardinality(Cached(s)) = IF Cached(s) = {} THEN 0 ELSE 1
      BY <3>1, AtMostOne, Zenon
    <3> QED
      BY <3>2
  <2>2. ASSUME NEW b \in Bufs PROVE Cardinality(Holder(b)) = IF buf[b].busy THEN 1 ELSE 0
    <3>1. \A p \in Procs : p \in Holder(b) <=> Has(p, b)
      BY Zenon DEF Holder, Has
    <3>2. Holder(b) \subseteq Procs
      BY Zenon DEF Holder
    <3>3. \A p, q \in Holder(b) : p = q
      BY <1>1, <3>1, <3>2, Zenon DEF BInv, HolderInv
    <3>4. Holder(b) = {} <=> ~buf[b].busy
      BY <1>1, <3>1, <3>2, Zenon DEF BInv, HolderInv
    <3>5. Cardinality(Holder(b)) = IF Holder(b) = {} THEN 0 ELSE 1
      BY <3>3, AtMostOne, Zenon
    <3> QED
      BY <3>4, <3>5, Zenon
  <2> QED
    BY <2>1, <2>2, Zenon DEF OneBufferEach
<1> QED
  BY <1>1, BcacheInvariance, PTL

\* A process asleep in bget waits for a buffer that somebody has, who will wake it in
\* brelse: no wakeup is lost between looking at a buffer and sleeping on it.
THEOREM BufferWaitersHaveReason == ASSUME BcacheAssumption PROVE Spec => []WaiterHasReason
<1>1. BInv => WaiterHasReason
  BY Zenon DEF BInv, SleepInv, WaiterHasReason, Cached
<1> QED
  BY <1>1, BcacheInvariance, PTL

\* The list through head.next keeps every buffer exactly once, the disk queue has a
\* buffer at most once, and every variable keeps its type.
THEOREM CacheTypeCorrect == ASSUME BcacheAssumption PROVE Spec => []TypeOK
<1>1. ASSUME BInv PROVE TypeOK
  <2>1. lru \in Seq(Bufs) /\ idequeue \in Seq(Bufs) /\ DOMAIN lru = 1..Len(lru) /\ DOMAIN idequeue = 1..Len(idequeue)
    BY <1>1 DEF BInv, VarsInv
  <2>2. Range(lru) = Bufs /\ IsInjective(lru)
    <3>1. \A b \in Bufs : \E i \in 1..Len(lru) : lru[i] = b
      BY <1>1, Zenon DEF BInv, ListInv
    <3>2. \A i \in 1..Len(lru) : lru[i] \in Bufs
      BY <2>1
    <3>3. \A i, j \in 1..Len(lru) : lru[i] = lru[j] => i = j
      BY <1>1, Zenon DEF BInv, ListInv
    <3>4. Range(lru) = Bufs
      BY <2>1, <3>1, <3>2, Zenon DEF Range
    <3> QED
      BY <2>1, <3>3, <3>4, Zenon DEF IsInjective
  <2>3. IsInjective(idequeue) /\ Range(idequeue) \subseteq Bufs
    <3>1. \A i, j \in 1..Len(idequeue) : idequeue[i] = idequeue[j] => i = j
      BY <1>1, Zenon DEF BInv, QueueInv
    <3>2. \A i \in 1..Len(idequeue) : idequeue[i] \in Bufs
      BY <2>1
    <3> QED
      BY <2>1, <3>1, <3>2, Zenon DEF IsInjective, Range
  <2> QED
    BY <1>1, <2>2, <2>3, Zenon DEF TypeOK, BInv, VarsInv, Buffer
<1> QED
  BY <1>1, BcacheInvariance, PTL

\* Only its own step in the loop around sleep lets a process return from iderw.
LEMMA OnlyIderwReturns ==
    ASSUME BcacheAssumption, BInv, Next, NEW p \in Procs, place[p] = "iderw_wake", place'[p] = "user"
    PROVE  iderw_wake(p)
<1>1. place \in [Procs -> Places]
  BY Zenon DEF BInv, VarsInv
<1>2. ASSUME NEW q \in Procs, Kernel(q) PROVE iderw_wake(p)
  <2>1. CASE q # p
    <3>1. \E x \in Places : place' = [place EXCEPT ![q] = x]
      BY <1>2, Zenon DEF Kernel, bget_hit, bget_sleep, bget_recycle, BgetReturns, iderw, iderw_wake, iderw_mem, Places
    <3> QED
      BY <1>1, <2>1, <3>1, Zenon
  <2>2. CASE q = p
    BY <1>2, <2>2, Zenon DEF Kernel, bget_hit, bget_sleep, bget_recycle, iderw, iderw_mem
  <2> QED
    BY <2>1, <2>2, Zenon
<1>3. ASSUME NEW b, place' = Wake(b) PROVE FALSE
  BY <1>3, WakeFacts, Zenon
<1>4. ASSUME NEW q \in Procs, Client(q) PROVE FALSE
  <2>1. ASSUME NEW s \in Sectors, bread(q, s) PROVE FALSE
    BY <1>1, <2>1, Zenon DEF bread
  <2>2. ASSUME NEW b \in held[q], brelse(q, b) PROVE FALSE
    BY <1>3, <2>2, Zenon DEF brelse
  <2>3. ASSUME NEW b \in held[q], NEW v \in Data, bwrite(q, b, v) \/ log_write(q, b, v) PROVE FALSE
    BY <1>1, <2>3, Zenon DEF bwrite, log_write, procVars
  <2> QED
    BY <1>4, <2>1, <2>2, <2>3, Zenon DEF Client
<1>5. ASSUME NEW q \in Procs, kill(q) PROVE FALSE
  BY <1>1, <1>5, Zenon DEF kill
<1>6. ASSUME Device PROVE FALSE
  <2>1. ASSUME ideintr PROVE FALSE
    BY <1>3, <2>1, Zenon DEF ideintr
  <2>2. ASSUME DriveDone \/ Spurious \/ ideintr_spurious PROVE FALSE
    BY <2>2, Zenon DEF DriveDone, Spurious, ideintr_spurious, procVars
  <2> QED
    BY <1>6, <2>1, <2>2, Zenon DEF Device
<1> QED
  BY <1>2, <1>4, <1>5, <1>6, Zenon DEF Next

\* When iderw returns from a write the block is on the platter, provided that every
\* interrupt is one that the drive was asked for and that reads do not fail: commit in
\* log.c relies on it for the order of its writes.
THEOREM WritesReachTheDisk ==
    ASSUME BcacheAssumption, ~SPURIOUS, ~ERRORS PROVE Spec => [][WriteThrough]_vars
<1>1. ASSUME BInv, [Next]_vars PROVE [WriteThrough]_vars
  <2>1. ASSUME NEW p \in Procs, place[p] = "iderw_wake", place'[p] = "user"
        PROVE  buf[cur[p]].data = disk[buf[cur[p]].sector]
    <3>1. iderw_wake(p)
      <4>1. place' # place
        BY <2>1, Zenon
      <4>2. Next
        BY <1>1, <4>1, Zenon DEF vars, procVars
      <4> QED
        BY <1>1, <2>1, <4>2, OnlyIderwReturns, Zenon
    <3>2. Transferred(cur[p]) /\ cur[p] \in Bufs
      <4>1. place \in [Procs -> Places] /\ cur[p] \in Bufs
        BY <1>1, <2>1, Zenon DEF BInv, VarsInv, PlaceInv
      <4>2. ~Transferred(cur[p]) => place' = [place EXCEPT ![p] = "iderw_sleep"]
        BY <3>1, Zenon DEF iderw_wake
      <4> QED
        BY <2>1, <4>1, <4>2, Zenon
    <3>3. buf[cur[p]].data = Latest(buf[cur[p]].sector)
      BY <1>1, <3>2, Zenon DEF BInv, DataInv, Transferred
    <3>4. ASSUME drive.busy, drive.sector = buf[cur[p]].sector PROVE FALSE
      <4>1. idequeue # <<>> /\ buf[idequeue[1]].sector = buf[cur[p]].sector
        BY <1>1, <3>4, Zenon DEF BInv, DriveInv
      <4>2. 1 \in 1..Len(idequeue) /\ idequeue[1] \in Bufs /\ buf[idequeue[1]].sector \in Sectors
        BY <1>1, <4>1, FirstQueued, Queued, Zenon
      <4>3. idequeue[1] = cur[p]
        BY <1>1, <3>2, <4>1, <4>2, Zenon DEF BInv, BufferInv
      <4>4. ~Transferred(idequeue[1])
        BY <1>1, <4>2, Zenon DEF BInv, QueueInv
      <4> QED
        BY <3>2, <4>3, <4>4, Zenon
    <3> QED
      BY <3>3, <3>4, Zenon DEF Latest
  <2> QED
    BY <2>1, Zenon DEF WriteThrough
<1> QED
  BY <1>1, BcacheInvariance, PTL DEF Spec

-----------------------------------------------------------------------------
(* The cache is an array of blocks *)

\* What the mapped variables are, without their choices.
StoreFacts ==
    /\ content \in [Sectors -> Data] /\ owner = [s \in Sectors |-> owner[s]]
    /\ \A b \in Bufs : buf[b].valid => content[buf[b].sector] = buf[b].data
    /\ \A s \in Sectors : (\A b \in Bufs : buf[b].sector = s => ~buf[b].valid) => content[s] = LatestOf(drive, disk, s)
    /\ \A p \in Procs, b \in Bufs : Has(p, b) => owner[buf[b].sector] = p
    /\ \A s \in Sectors : (\A b \in Bufs : buf[b].sector = s => ~buf[b].busy) => owner[s] = NoOne

\* A block's content is in its buffer or on the disk, and its owner has its buffer.
LEMMA StoreMapped == ASSUME BcacheAssumption PROVE BInv => StoreFacts
<1> SUFFICES ASSUME BInv PROVE StoreFacts
  BY Zenon
<1>1. \A s \in Sectors : content[s] = IF \E b \in Cached(s) : buf[b].valid
                                      THEN (CHOOSE c \in {buf[b] : b \in {d \in Cached(s) : buf[d].valid}} : TRUE).data
                                      ELSE Latest(s)
  BY Zenon DEF content
<1>2. \A s \in Sectors : owner[s] = IF \E b \in Cached(s) : buf[b].busy
                                    THEN CHOOSE p \in UNION {Holder(b) : b \in Cached(s)} : TRUE ELSE NoOne
  BY Zenon DEF owner
<1>3. ASSUME NEW b \in Bufs, buf[b].sector \in Sectors PROVE Cached(buf[b].sector) = {b}
  BY <1>3, Zenon DEF Cached, BInv, BufferInv
<1>4. \A b \in Bufs : (buf[b].valid \/ buf[b].busy) => buf[b].sector \in Sectors
  BY Zenon DEF BInv, BufferInv
<1>5. ASSUME NEW b \in Bufs, buf[b].valid PROVE content[buf[b].sector] = buf[b].data
  <2>1. buf[b].sector \in Sectors /\ Cached(buf[b].sector) = {b}
    BY <1>3, <1>4, <1>5, Zenon
  <2>2. {buf[c] : c \in {d \in Cached(buf[b].sector) : buf[d].valid}} = {buf[b]}
    BY <1>5, <2>1, Zenon
  <2>3. (CHOOSE c \in {buf[b]} : TRUE) = buf[b]
    BY Zenon
  <2>4. \E c \in Cached(buf[b].sector) : buf[c].valid
    BY <1>5, <2>1, Zenon
  <2>5. content[buf[b].sector] = (CHOOSE c \in {buf[d] : d \in {e \in Cached(buf[b].sector) : buf[e].valid}} : TRUE).data
    BY <1>1, <2>1, <2>4, Zenon
  <2> QED
    BY <2>2, <2>3, <2>5, Zenon
<1>6. ASSUME NEW s \in Sectors, \A b \in Bufs : buf[b].sector = s => ~buf[b].valid PROVE content[s] = Latest(s)
  BY <1>1, <1>6, Zenon DEF Cached
<1>7. ASSUME NEW p \in Procs, NEW b \in Bufs, Has(p, b) PROVE owner[buf[b].sector] = p
  <2>1. buf[b].busy /\ buf[b].sector \in Sectors
    BY <1>4, <1>7, Zenon DEF BInv, HolderInv
  <2>2. Cached(buf[b].sector) = {b}
    BY <1>3, <2>1, Zenon
  <2>3. Holder(b) = {p}
    BY <1>7 DEF Holder, Has, BInv, HolderInv
  <2>4. UNION {Holder(c) : c \in Cached(buf[b].sector)} = {p}
    BY <2>2, <2>3, Zenon
  <2>5. (CHOOSE q \in {p} : TRUE) = p
    BY Zenon
  <2>6. \E c \in Cached(buf[b].sector) : buf[c].busy
    BY <2>1, <2>2, Zenon
  <2>7. owner[buf[b].sector] = CHOOSE q \in UNION {Holder(c) : c \in Cached(buf[b].sector)} : TRUE
    BY <1>2, <2>1, <2>6, Zenon
  <2> QED
    BY <2>4, <2>5, <2>7, Zenon
<1>8. ASSUME NEW s \in Sectors, \A b \in Bufs : buf[b].sector = s => ~buf[b].busy PROVE owner[s] = NoOne
  BY <1>2, <1>8, Zenon DEF Cached
<1>9. content \in [Sectors -> Data]
  <2>1. ASSUME NEW s \in Sectors PROVE content[s] \in Data
    <3>1. CASE \E b \in Bufs : buf[b].sector = s /\ buf[b].valid
      BY <1>5, <3>1, Zenon DEF BInv, VarsInv, Buffer
    <3>2. CASE ~\E b \in Bufs : buf[b].sector = s /\ buf[b].valid
      BY <1>6, <3>2, Zenon DEF Latest, BInv, VarsInv, Command
    <3> QED
      BY <3>1, <3>2, Zenon
  <2>2. content = [s \in Sectors |-> content[s]]
    BY DEF content
  <2> QED
    BY <2>1, <2>2, Zenon
<1>10. owner = [s \in Sectors |-> owner[s]]
  BY DEF owner
<1>11. \A s : Latest(s) = LatestOf(drive, disk, s)
  BY Zenon DEF Latest, LatestOf
<1> QED
  BY <1>5, <1>6, <1>7, <1>8, <1>9, <1>10, <1>11, Zenon DEF StoreFacts

\* The same after a step.
LEMMA StoreMappedAfter == ASSUME BcacheAssumption PROVE BInv' => StoreFacts'
BY StoreMapped, PTL

\* The facts after a step, spelt out.
LEMMA StoreAfter ==
    ASSUME BcacheAssumption, BInv'
    PROVE  /\ content' \in [Sectors -> Data] /\ owner' = [s \in Sectors |-> owner'[s]]
           /\ \A b \in Bufs : buf'[b].valid => content'[buf'[b].sector] = buf'[b].data
           /\ \A s \in Sectors : (\A b \in Bufs : buf'[b].sector = s => ~buf'[b].valid) =>
                 content'[s] = LatestOf(drive', disk', s)
           /\ \A p \in Procs, b \in Bufs : Has(p, b)' => owner'[buf'[b].sector] = p
           /\ \A s \in Sectors : (\A b \in Bufs : buf'[b].sector = s => ~buf'[b].busy) => owner'[s] = NoOne
<1>1. StoreFacts'
  BY StoreMappedAfter, Zenon
<1> QED
  BY <1>1, Zenon DEF StoreFacts

\* A step that gives and takes no buffer changes no block's owner.
LEMMA OwnerStays ==
    ASSUME BcacheAssumption, BInv, BInv',
           \A b \in Bufs : buf'[b].sector = buf[b].sector /\ buf'[b].busy = buf[b].busy,
           \A q \in Procs, b \in Bufs : Has(q, b)' <=> Has(q, b)
    PROVE  owner' = owner
<1>1. StoreFacts
  BY StoreMapped, Zenon
<1>2. ASSUME NEW s \in Sectors PROVE owner'[s] = owner[s]
  <2>1. CASE \E b \in Bufs : buf[b].sector = s /\ buf[b].busy
    <3>1. PICK b \in Bufs : buf[b].sector = s /\ buf[b].busy
      BY <2>1, Zenon
    <3>2. PICK q \in Procs : Has(q, b)
      BY <3>1, Zenon DEF BInv, HolderInv
    <3>3. owner[buf[b].sector] = q
      BY <1>1, <3>2, Zenon DEF StoreFacts
    <3>4. owner'[buf'[b].sector] = q
      BY <3>2, StoreAfter, Zenon
    <3> QED
      BY <3>1, <3>3, <3>4, Zenon
  <2>2. CASE ~\E b \in Bufs : buf[b].sector = s /\ buf[b].busy
    <3>1. owner[s] = NoOne
      BY <1>1, <2>2, Zenon DEF StoreFacts
    <3>2. owner'[s] = NoOne
      BY <2>2, StoreAfter, Zenon
    <3> QED
      BY <3>1, <3>2, Zenon
  <2> QED
    BY <2>1, <2>2, Zenon
<1>3. owner = [s \in Sectors |-> owner[s]] /\ owner' = [s \in Sectors |-> owner'[s]]
  BY <1>1, StoreAfter, Zenon DEF StoreFacts
<1> QED
  BY <1>2, <1>3, Zenon

\* A step that fills no buffer but with what the disk has changes no block.
LEMMA ContentStays ==
    ASSUME BcacheAssumption, BInv, BInv',
           \A b \in Bufs : /\ buf'[b].sector = buf[b].sector
                           /\ buf[b].valid => buf'[b].valid /\ buf'[b].data = buf[b].data
                           /\ buf'[b].valid /\ ~buf[b].valid => buf'[b].data = Latest(buf[b].sector),
           \A s \in Sectors : (\A b \in Bufs : buf'[b].sector = s => ~buf'[b].valid) =>
                                  LatestOf(drive', disk', s) = Latest(s)
    PROVE  content' = content
<1>1. StoreFacts
  BY StoreMapped, Zenon
<1>2. ASSUME NEW s \in Sectors PROVE content'[s] = content[s]
  <2>1. CASE \E b \in Bufs : buf'[b].sector = s /\ buf'[b].valid
    <3>1. PICK b \in Bufs : buf'[b].sector = s /\ buf'[b].valid
      BY <2>1, Zenon
    <3>2. content'[s] = buf'[b].data
      BY <3>1, StoreAfter, Zenon
    <3>3. CASE buf[b].valid
      <4>1. content[buf[b].sector] = buf[b].data
        BY <1>1, <3>3, Zenon DEF StoreFacts
      <4> QED
        BY <3>1, <3>2, <3>3, <4>1, Zenon
    <3>4. CASE ~buf[b].valid
      <4>1. \A c \in Bufs : buf[c].sector = s => c = b
        BY <3>1 DEF BInv, BufferInv
      <4>2. \A c \in Bufs : buf[c].sector = s => ~buf[c].valid
        BY <3>4, <4>1, Zenon
      <4>3. content[s] = LatestOf(drive, disk, s)
        BY <1>1, <4>2, Zenon DEF StoreFacts
      <4>4. buf'[b].data = Latest(s)
        BY <3>1, <3>4, Zenon
      <4> QED
        BY <3>2, <4>3, <4>4, Zenon DEF Latest, LatestOf
    <3> QED
      BY <3>3, <3>4, Zenon
  <2>2. CASE ~\E b \in Bufs : buf'[b].sector = s /\ buf'[b].valid
    <3>1. content'[s] = LatestOf(drive', disk', s)
      BY <2>2, StoreAfter, Zenon
    <3>2. \A b \in Bufs : buf[b].sector = s => ~buf[b].valid
      BY <2>2, Zenon
    <3>3. content[s] = LatestOf(drive, disk, s)
      BY <1>1, <3>2, Zenon DEF StoreFacts
    <3>4. LatestOf(drive', disk', s) = Latest(s)
      BY <2>2, Zenon
    <3> QED
      BY <3>1, <3>3, <3>4, Zenon DEF Latest, LatestOf
  <2> QED
    BY <2>1, <2>2, Zenon
<1>3. content \in [Sectors -> Data] /\ content' \in [Sectors -> Data]
  BY <1>1, StoreAfter, Zenon DEF StoreFacts
<1> QED
  BY <1>2, <1>3

\* bget's return takes the block, and the buffer that it recycles had nothing that the
\* disk has not.
LEMMA ReturnTakes ==
    ASSUME BcacheAssumption, ~ERRORS, BInv, BInv', NEW p \in Procs, NEW b \in Bufs, Returns(p, b)
    PROVE  want[p] \in Sectors /\ Abstract!Take(p, want[p])
<1>1. /\ want[p] \in Sectors
      /\ \A c \in Bufs \ {b} : buf'[c] = buf[c]
      /\ buf'[b].sector = want[p] /\ buf'[b].busy
      /\ buf'[b].data = buf[b].data /\ (buf'[b].valid <=> buf[b].valid /\ buf[b].sector = want[p])
      /\ UNCHANGED ideVars
  BY ReturnsFacts
<1>2. \A q \in Procs, c \in Bufs : Has(q, c)' <=> (Has(q, c) \/ (q = p /\ c = b))
  BY ReturnsFacts, Zenon
<1>3. ~buf[b].busy /\ (buf[b].sector = want[p] \/ (~buf[b].dirty /\ \A c \in Bufs : buf[c].sector # want[p]))
  BY Zenon DEF Returns
<1>4. drive' = drive /\ disk' = disk
  BY <1>1, Zenon DEF ideVars
<1>5. StoreFacts
  BY StoreMapped, Zenon
<1>6. owner[want[p]] = NoOne
  <2>1. \A c \in Bufs : buf[c].sector = want[p] => ~buf[c].busy
    BY <1>1, <1>3 DEF BInv, BufferInv
  <2> QED
    BY <1>1, <1>5, <2>1, Zenon DEF StoreFacts
<1>7. owner'[want[p]] = p
  BY <1>1, <1>2, StoreAfter
<1>8. ASSUME NEW s \in Sectors, s # want[p] PROVE owner'[s] = owner[s]
  <2>1. CASE \E c \in Bufs : buf[c].sector = s /\ buf[c].busy
    <3>1. PICK c \in Bufs : buf[c].sector = s /\ buf[c].busy
      BY <2>1, Zenon
    <3>2. PICK q \in Procs : Has(q, c)
      BY <3>1, Zenon DEF BInv, HolderInv
    <3>3. owner[buf[c].sector] = q
      BY <1>5, <3>2, Zenon DEF StoreFacts
    <3>4. buf'[c] = buf[c] /\ Has(q, c)'
      BY <1>1, <1>2, <1>3, <3>1, <3>2, Zenon
    <3>5. owner'[buf'[c].sector] = q
      BY <3>4, StoreAfter, Zenon
    <3> QED
      BY <3>1, <3>3, <3>4, <3>5, Zenon
  <2>2. CASE ~\E c \in Bufs : buf[c].sector = s /\ buf[c].busy
    <3>1. owner[s] = NoOne
      BY <1>5, <2>2, Zenon DEF StoreFacts
    <3>2. \A c \in Bufs : buf'[c].sector = s => ~buf'[c].busy
      BY <1>1, <1>8, <2>2, Zenon
    <3>3. owner'[s] = NoOne
      BY <3>2, StoreAfter, Zenon
    <3> QED
      BY <3>1, <3>3, Zenon
  <2> QED
    BY <2>1, <2>2, Zenon
<1>9. owner' = [owner EXCEPT ![want[p]] = p]
  <2>1. owner = [s \in Sectors |-> owner[s]] /\ owner' = [s \in Sectors |-> owner'[s]]
    BY <1>5, StoreAfter, Zenon DEF StoreFacts
  <2> QED
    BY <1>7, <1>8, <2>1, Zenon
<1>10. ASSUME NEW s \in Sectors PROVE content'[s] = content[s]
  <2>1. CASE \E c \in Bufs : buf'[c].sector = s /\ buf'[c].valid
    <3>1. PICK c \in Bufs : buf'[c].sector = s /\ buf'[c].valid
      BY <2>1, Zenon
    <3>2. buf[c].sector = s /\ buf[c].valid /\ buf[c].data = buf'[c].data
      BY <1>1, <3>1, Zenon
    <3>3. content'[s] = buf'[c].data
      BY <3>1, StoreAfter, Zenon
    <3>4. content[s] = buf[c].data
      BY <1>5, <3>2, Zenon DEF StoreFacts
    <3> QED
      BY <3>2, <3>3, <3>4, Zenon
  <2>2. CASE ~\E c \in Bufs : buf'[c].sector = s /\ buf'[c].valid
    <3>1. content'[s] = LatestOf(drive, disk, s)
      BY <1>4, <2>2, StoreAfter, Zenon
    <3>2. CASE \E c \in Bufs : buf[c].sector = s /\ buf[c].valid
      <4>1. PICK c \in Bufs : buf[c].sector = s /\ buf[c].valid
        BY <3>2, Zenon
      <4>2. c = b /\ ~buf[b].dirty
        BY <1>1, <1>3, <2>2, <4>1, Zenon
      <4>3. buf[b].data = Latest(s)
        BY <4>1, <4>2, Zenon DEF BInv, DataInv
      <4>4. content[s] = buf[c].data
        BY <1>5, <4>1, Zenon DEF StoreFacts
      <4> QED
        BY <3>1, <4>2, <4>3, <4>4, Zenon DEF Latest, LatestOf
    <3>3. CASE ~\E c \in Bufs : buf[c].sector = s /\ buf[c].valid
      BY <1>5, <3>1, <3>3, Zenon DEF StoreFacts
    <3> QED
      BY <3>2, <3>3, Zenon
  <2> QED
    BY <2>1, <2>2, Zenon
<1>11. content' = content
  <2>1. content \in [Sectors -> Data] /\ content' \in [Sectors -> Data]
    BY <1>5, StoreAfter, Zenon DEF StoreFacts
  <2> QED
    BY <1>10, <2>1
<1> QED
  BY <1>1, <1>6, <1>9, <1>11, Zenon DEF Abstract!Take

\* bwrite and log_write change the block for the process that has it.
LEMMA WriteChanges ==
    ASSUME BcacheAssumption, BInv, BInv', NEW p \in Procs, NEW b \in held[p], NEW v \in Data,
           bwrite(p, b, v) \/ log_write(p, b, v)
    PROVE  buf[b].sector \in Sectors /\ Abstract!Change(p, buf[b].sector)
<1>1. /\ Fills(b, v) /\ UNCHANGED <<drive, disk>>
      /\ \/ UNCHANGED <<cur, held>>
         \/ /\ held' = [held EXCEPT ![p] = held[p] \ {b}] /\ cur' = [cur EXCEPT ![p] = b]
  BY Zenon DEF bwrite, log_write, Fills, procVars, ideVars
<1>2. b \in Bufs /\ Has(p, b) /\ buf[b].valid /\ buf[b].sector \in Sectors /\ cur[p] \notin Bufs
  BY Zenon DEF BInv, VarsInv, HolderInv, BufferInv, PlaceInv, Has, bwrite, log_write
<1>3. /\ \A c \in Bufs \ {b} : buf'[c] = buf[c]
      /\ buf'[b].sector = buf[b].sector /\ buf'[b].busy = buf[b].busy /\ buf'[b].valid = buf[b].valid
      /\ buf'[b].data = v
  BY <1>1, <1>2, FillsFacts, Zenon
<1>4. cur \in [Procs -> Bufs \cup {NoOne}] /\ held \in [Procs -> SUBSET Bufs]
  BY Zenon DEF BInv, VarsInv
<1>5. \A q \in Procs, c \in Bufs : Has(q, c)' <=> Has(q, c)
  BY <1>1, <1>2, <1>4 DEF Has
<1>6. owner' = owner
  <2>1. \A c \in Bufs : buf'[c].sector = buf[c].sector /\ buf'[c].busy = buf[c].busy
    BY <1>3, Zenon
  <2> QED
    BY <1>5, <2>1, OwnerStays, Zenon
<1>7. StoreFacts
  BY StoreMapped, Zenon
<1>8. owner[buf[b].sector] = p
  BY <1>2, <1>7, Zenon DEF StoreFacts
<1>9. content'[buf[b].sector] = v
  BY <1>2, <1>3, StoreAfter, Zenon
<1>10. ASSUME NEW s \in Sectors, s # buf[b].sector PROVE content'[s] = content[s]
  <2>1. CASE \E c \in Bufs : buf[c].sector = s /\ buf[c].valid
    <3>1. PICK c \in Bufs : buf[c].sector = s /\ buf[c].valid
      BY <2>1, Zenon
    <3>2. buf'[c] = buf[c]
      BY <1>3, <1>10, <3>1, Zenon
    <3>3. content[s] = buf[c].data
      BY <1>7, <3>1, Zenon DEF StoreFacts
    <3>4. content'[s] = buf[c].data
      BY <3>1, <3>2, StoreAfter, Zenon
    <3> QED
      BY <3>3, <3>4, Zenon
  <2>2. CASE ~\E c \in Bufs : buf[c].sector = s /\ buf[c].valid
    <3>1. content[s] = LatestOf(drive, disk, s)
      BY <1>7, <2>2, Zenon DEF StoreFacts
    <3>2. \A c \in Bufs : buf'[c].sector = s => ~buf'[c].valid
      BY <1>3, <2>2, Zenon
    <3>3. content'[s] = LatestOf(drive', disk', s)
      BY <3>2, StoreAfter, Zenon
    <3> QED
      BY <1>1, <3>1, <3>3, Zenon
  <2> QED
    BY <2>1, <2>2, Zenon
<1>11. content' = [content EXCEPT ![buf[b].sector] = v]
  <2>1. content \in [Sectors -> Data] /\ content' \in [Sectors -> Data]
    BY <1>7, StoreAfter, Zenon DEF StoreFacts
  <2> QED
    BY <1>2, <1>9, <1>10, <2>1, Zenon
<1> QED
  BY <1>2, <1>6, <1>8, <1>11, Zenon DEF Abstract!Change

\* brelse gives the block back.
LEMMA BrelseReleases ==
    ASSUME BcacheAssumption, BInv, BInv', NEW p \in Procs, NEW b \in held[p], brelse(p, b)
    PROVE  buf[b].sector \in Sectors /\ Abstract!Release(p, buf[b].sector)
<1>1. /\ buf' = [buf EXCEPT ![b].busy = FALSE] /\ held' = [held EXCEPT ![p] = held[p] \ {b}]
      /\ UNCHANGED <<drive, disk, cur>>
  BY Zenon DEF brelse, ideVars
<1>2. b \in Bufs /\ Has(p, b) /\ buf[b].valid /\ buf[b].sector \in Sectors /\ cur[p] # b
  BY Zenon DEF BInv, VarsInv, HolderInv, BufferInv, Has
<1>3. /\ (\A c \in Bufs \ {b} : buf'[c] = buf[c]) /\ ~buf'[b].busy
      /\ buf'[b].sector = buf[b].sector /\ buf'[b].valid = buf[b].valid /\ buf'[b].data = buf[b].data
  <2>1. buf \in [Bufs -> Buffer] /\ buf[b] \in Buffer
    BY <1>2, Zenon DEF BInv, VarsInv
  <2>2. buf'[b] = [buf[b] EXCEPT !.busy = FALSE]
    BY <1>1, <1>2, <2>1, Zenon
  <2>3. /\ ~buf'[b].busy
        /\ buf'[b].sector = buf[b].sector /\ buf'[b].valid = buf[b].valid /\ buf'[b].data = buf[b].data
    BY <2>1, <2>2, Zenon DEF Buffer
  <2> QED
    BY <1>1, <2>1, <2>3, Zenon
<1>4. held \in [Procs -> SUBSET Bufs]
  BY Zenon DEF BInv, VarsInv
<1>5. \A q \in Procs, c \in Bufs : Has(q, c)' <=> (Has(q, c) /\ ~(q = p /\ c = b))
  BY <1>1, <1>2, <1>4, Zenon DEF Has
<1>6. StoreFacts
  BY StoreMapped, Zenon
<1>7. owner[buf[b].sector] = p
  BY <1>2, <1>6, Zenon DEF StoreFacts
<1>8. owner'[buf[b].sector] = NoOne
  <2>1. \A c \in Bufs : buf'[c].sector = buf[b].sector => ~buf'[c].busy
    BY <1>2, <1>3 DEF BInv, BufferInv
  <2> QED
    BY <1>2, <2>1, StoreAfter, Zenon
<1>9. ASSUME NEW s \in Sectors, s # buf[b].sector PROVE owner'[s] = owner[s]
  <2>1. CASE \E c \in Bufs : buf[c].sector = s /\ buf[c].busy
    <3>1. PICK c \in Bufs : buf[c].sector = s /\ buf[c].busy
      BY <2>1, Zenon
    <3>2. PICK q \in Procs : Has(q, c)
      BY <3>1, Zenon DEF BInv, HolderInv
    <3>3. owner[buf[c].sector] = q
      BY <1>6, <3>2, Zenon DEF StoreFacts
    <3>4. c # b /\ buf'[c] = buf[c] /\ Has(q, c)'
      BY <1>3, <1>5, <1>9, <3>1, <3>2, Zenon
    <3>5. owner'[buf'[c].sector] = q
      BY <3>4, StoreAfter, Zenon
    <3> QED
      BY <3>1, <3>3, <3>4, <3>5, Zenon
  <2>2. CASE ~\E c \in Bufs : buf[c].sector = s /\ buf[c].busy
    <3>1. owner[s] = NoOne
      BY <1>6, <2>2, Zenon DEF StoreFacts
    <3>2. \A c \in Bufs : buf'[c].sector = s => ~buf'[c].busy
      BY <1>3, <2>2, Zenon
    <3>3. owner'[s] = NoOne
      BY <3>2, StoreAfter, Zenon
    <3> QED
      BY <3>1, <3>3, Zenon
  <2> QED
    BY <2>1, <2>2, Zenon
<1>10. owner' = [owner EXCEPT ![buf[b].sector] = NoOne]
  <2>1. owner = [s \in Sectors |-> owner[s]] /\ owner' = [s \in Sectors |-> owner'[s]]
    BY <1>6, StoreAfter, Zenon DEF StoreFacts
  <2> QED
    BY <1>8, <1>9, <2>1, Zenon
<1>11. content' = content
  <2>1. \A c \in Bufs : /\ buf'[c].sector = buf[c].sector
                        /\ buf[c].valid => buf'[c].valid /\ buf'[c].data = buf[c].data
                        /\ buf'[c].valid /\ ~buf[c].valid => buf'[c].data = Latest(buf[c].sector)
    BY <1>3, Zenon
  <2>2. \A s \in Sectors : LatestOf(drive', disk', s) = Latest(s)
    BY <1>1, Zenon DEF Latest, LatestOf
  <2> QED
    BY <2>1, <2>2, ContentStays, Zenon
<1> QED
  BY <1>2, <1>7, <1>10, <1>11, Zenon DEF Abstract!Release

\* All other steps are invisible: a caller's way into bget and its sleeps, the queue,
\* the drive, interrupts and kills.
LEMMA DriverInvisible ==
    ASSUME BcacheAssumption, ~ERRORS, BInv, BInv',
           \/ \E p \in Procs : \/ bget_sleep(p) \/ iderw(p) \/ iderw_wake(p) \/ iderw_mem(p) \/ kill(p)
                               \/ \E s \in Sectors : bread(p, s)
           \/ Device
           \/ UNCHANGED vars
    PROVE  content' = content /\ owner' = owner
<1> DEFINE Same == /\ \A b \in Bufs : /\ buf'[b].sector = buf[b].sector /\ buf'[b].busy = buf[b].busy
                                      /\ buf[b].valid => buf'[b].valid /\ buf'[b].data = buf[b].data
                                      /\ buf'[b].valid /\ ~buf[b].valid => buf'[b].data = Latest(buf[b].sector)
                   /\ \A q \in Procs, b \in Bufs : Has(q, b)' <=> Has(q, b)
                   /\ \A s \in Sectors : (\A b \in Bufs : buf'[b].sector = s => ~buf'[b].valid) =>
                                             LatestOf(drive', disk', s) = Latest(s)
<1>1. ASSUME UNCHANGED <<buf, drive, disk, cur, held>> PROVE Same
  BY <1>1, Zenon DEF Has, Latest, LatestOf
<1>2. ASSUME NEW p \in Procs, bget_sleep(p) \/ kill(p) \/ \E s \in Sectors : bread(p, s) PROVE Same
  BY ZenonT(40), <1>1, <1>2 DEF bget_sleep, kill, bread, bufVars, ideVars
<1>3. ASSUME NEW p \in Procs, iderw(p) PROVE Same
  <2>1. /\ place[p] = "iderw" /\ UNCHANGED <<buf, disk, cur, held>>
        /\ idequeue = <<>> => idestart(cur[p])
        /\ idequeue # <<>> => drive' = drive
    BY <1>3, Zenon DEF iderw, bufVars
  <2>2. cur[p] \in Bufs /\ buf[cur[p]].sector \in Sectors
    BY Zenon, <2>1 DEF BInv, PlaceInv, HolderInv, BufferInv, Has
  <2>3. ASSUME NEW s \in Sectors, \A b \in Bufs : buf[b].sector = s => ~buf[b].valid
        PROVE  LatestOf(drive', disk', s) = Latest(s)
    <3>1. s # buf[cur[p]].sector \/ ~buf[cur[p]].dirty
      BY <2>2, <2>3, Zenon DEF BInv, BufferInv
    <3>2. CASE idequeue = <<>>
      BY <2>1, <2>2, <3>1, <3>2, StartFacts, Zenon
    <3>3. CASE idequeue # <<>>
      BY <2>1, <3>3, Zenon DEF Latest, LatestOf
    <3> QED
      BY <3>2, <3>3, Zenon
  <2> QED
    BY Zenon, <2>1, <2>3 DEF Has
<1>4. ASSUME NEW p \in Procs, iderw_wake(p) PROVE Same
  <2>1. place[p] = "iderw_wake" /\ UNCHANGED <<buf, drive, disk, want>>
    BY <1>4, Zenon DEF iderw_wake, bufVars, ideVars
  <2>2. CASE Transferred(cur[p])
    <3>1. /\ held' = [held EXCEPT ![p] = held[p] \cup {cur[p]}] /\ cur' = [cur EXCEPT ![p] = NoOne]
          /\ place' = [place EXCEPT ![p] = "user"]
      BY <1>4, <2>2, Zenon DEF iderw_wake
    <3>2. \A q \in Procs, b \in Bufs : Has(q, b)' <=> Has(q, b)
      BY <2>1, <3>1, IderwReturns, Zenon
    <3> QED
      BY <2>1, <3>2, Zenon DEF Latest, LatestOf
  <2>3. CASE ~Transferred(cur[p])
    BY <1>1, <1>4, <2>1, <2>3, Zenon DEF iderw_wake
  <2> QED
    BY Zenon, <2>2, <2>3
<1>5. ASSUME NEW p \in Procs, iderw_mem(p) PROVE Same
  <2>1. /\ MEMDISK /\ place[p] = "iderw" /\ UNCHANGED <<drive, want>>
        /\ held' = [held EXCEPT ![p] = held[p] \cup {cur[p]}] /\ cur' = [cur EXCEPT ![p] = NoOne]
        /\ place' = [place EXCEPT ![p] = "user"]
    BY <1>5, Zenon DEF iderw_mem
  <2>2. \A q \in Procs, b \in Bufs : Has(q, b)' <=> Has(q, b)
    BY <2>1, IderwReturns, Zenon
  <2>3. MemFacts(cur[p])
    BY <1>5, IderwMemFacts, Zenon
  <2>4. ~drive.busy /\ ~(buf[cur[p]].valid /\ ~buf[cur[p]].dirty)
    BY <2>1, Zenon DEF BInv, DriveInv, QueueInv, Transferred
  <2>5. \A s : Latest(s) = disk[s] /\ LatestOf(drive', disk', s) = disk'[s]
    BY <2>1, <2>4, Zenon DEF Latest, LatestOf
  <2>6. buf[cur[p]].dirty => buf[cur[p]].valid
    BY Zenon, <2>3 DEF BInv, BufferInv, MemFacts
  <2>7. \A b \in Bufs : /\ buf'[b].sector = buf[b].sector /\ buf'[b].busy = buf[b].busy
                        /\ buf[b].valid => buf'[b].valid /\ buf'[b].data = buf[b].data
                        /\ buf'[b].valid /\ ~buf[b].valid => buf'[b].data = Latest(buf[b].sector)
    BY ZenonT(40), <2>3, <2>4, <2>5, <2>6 DEF MemFacts
  <2>8. ASSUME NEW s \in Sectors, \A b \in Bufs : buf'[b].sector = s => ~buf'[b].valid
        PROVE  LatestOf(drive', disk', s) = Latest(s)
    BY <2>3, <2>5, <2>8, Zenon DEF MemFacts
  <2> QED
    BY <2>2, <2>7, <2>8, Zenon
<1>6. ASSUME DriveDone PROVE Same
  <2>1. UNCHANGED <<buf, cur, held>> /\ \A s \in Sectors : LatestOf(drive', disk', s) = Latest(s)
    BY ZenonT(40), <1>6, DriveDoneStep DEF DriveDone, bufVars, procVars
  <2> QED
    BY <2>1, Zenon DEF Has
<1>7. ASSUME ideintr PROVE Same
  <2> DEFINE h == Head(idequeue)
  <2>1. IntrFacts(h) /\ UNCHANGED <<cur, held>> /\ idequeue # <<>>
    BY <1>7, IdeintrFacts, Zenon DEF ideintr
  <2> HIDE DEF h
  <2>2. ~(buf[h].valid /\ ~buf[h].dirty)
    <3>1. h = idequeue[1] /\ 1 \in 1..Len(idequeue)
      BY <2>1, FirstQueued, Zenon DEF h
    <3> QED
      BY <3>1, Zenon DEF BInv, QueueInv, Transferred
  <2>3. \A b \in Bufs : /\ buf'[b].sector = buf[b].sector /\ buf'[b].busy = buf[b].busy
                        /\ buf[b].valid => buf'[b].valid /\ buf'[b].data = buf[b].data
                        /\ buf'[b].valid /\ ~buf[b].valid => buf'[b].data = Latest(buf[b].sector)
    BY <2>1, <2>2, Zenon DEF IntrFacts
  <2>4. ASSUME NEW s \in Sectors, \A b \in Bufs : buf'[b].sector = s => ~buf'[b].valid
        PROVE  LatestOf(drive', disk', s) = Latest(s)
    <3>1. \A b \in Bufs : buf[b].dirty => buf[b].sector # s
      BY ZenonT(40), <2>3, <2>4 DEF BInv, BufferInv
    <3> QED
      BY <2>1, <3>1, Zenon DEF IntrFacts
  <2> QED
    BY <2>1, <2>3, <2>4, Zenon DEF Has
<1>8. ASSUME Spurious \/ ideintr_spurious PROVE Same
  BY <1>1, <1>8, Zenon DEF Spurious, ideintr_spurious, bufVars, procVars
<1>9. ASSUME UNCHANGED vars PROVE Same
  BY <1>1, <1>9, Zenon DEF vars, bufVars, ideVars, procVars
<1> HIDE DEF Same
<1>10. Same
  BY <1>2, <1>3, <1>4, <1>5, <1>6, <1>7, <1>8, <1>9, Zenon DEF Device
<1>11. owner' = owner
  BY <1>10, OwnerStays, Zenon DEF Same
<1>12. content' = content
  BY Zenon, <1>10, ContentStays DEF Same
<1> QED
  BY <1>11, <1>12, Zenon

\* The buffer cache over a drive that does not fail, or over memide.c, is an array of
\* blocks, each in the hands of one process at a time, that hold what was last written:
\* recycling, sleeping, kills, spurious interrupts and the order of the disk queue are
\* invisible to the callers of bread, bwrite, log_write and brelse.
THEOREM CacheIsBlockStore == ASSUME BcacheAssumption, ~ERRORS PROVE Spec => IsBlockStore
<1>1. ASSUME Init PROVE Abstract!Init
  <2>1. BInv /\ StoreFacts
    BY <1>1, BcacheInit, StoreMapped, Zenon
  <2>2. \A b \in Bufs : ~buf[b].busy
    BY <1>1, Zenon DEF Init
  <2>3. \A s \in Sectors : owner[s] = NoOne
    BY <2>1, <2>2, Zenon DEF StoreFacts
  <2> QED
    BY <2>1, <2>3, Zenon DEF Abstract!Init, StoreFacts
<1>2. ASSUME BInv, BInv', [Next]_vars PROVE [Abstract!Next]_(Abstract!vars)
  <2>1. ASSUME NEW p \in Procs, bget_hit(p) \/ bget_recycle(p) PROVE Abstract!Next
    <3>1. PICK b \in Bufs : Returns(p, b)
      BY <1>2, <2>1, BgetReturn, Zenon
    <3>2. want[p] \in Sectors /\ Abstract!Take(p, want[p])
      BY <1>2, <3>1, ReturnTakes, Zenon
    <3> QED
      BY <3>2, Zenon DEF Abstract!Next
  <2>2. ASSUME NEW p \in Procs, NEW b \in held[p], NEW v \in Data, bwrite(p, b, v) \/ log_write(p, b, v)
        PROVE  Abstract!Next
    <3>1. buf[b].sector \in Sectors /\ Abstract!Change(p, buf[b].sector)
      BY <1>2, <2>2, WriteChanges, Zenon
    <3> QED
      BY <3>1, Zenon DEF Abstract!Next
  <2>3. ASSUME NEW p \in Procs, NEW b \in held[p], brelse(p, b) PROVE Abstract!Next
    <3>1. buf[b].sector \in Sectors /\ Abstract!Release(p, buf[b].sector)
      BY <1>2, <2>3, BrelseReleases, Zenon
    <3> QED
      BY <3>1, Zenon DEF Abstract!Next
  <2>4. ASSUME \/ \E p \in Procs : \/ bget_sleep(p) \/ iderw(p) \/ iderw_wake(p) \/ iderw_mem(p) \/ kill(p)
                                   \/ \E s \in Sectors : bread(p, s)
               \/ Device
               \/ UNCHANGED vars
        PROVE  UNCHANGED Abstract!vars
    BY <1>2, <2>4, DriverInvisible, Zenon DEF Abstract!vars
  <2> QED
    BY <1>2, <2>1, <2>2, <2>3, <2>4, Zenon DEF Next, Kernel, Client
<1> QED
  BY <1>1, <1>2, BcacheInvariance, PTL DEF Spec, IsBlockStore, Abstract!Spec

-----------------------------------------------------------------------------
(* There are buffers enough *)

Holding(p) == {b \in Bufs : Has(p, b)}

\* The buffers that log_write keeps dirty and nobody is writing.
Pins == {b \in Bufs : buf[b].dirty /\ \A p \in Procs : cur[p] # b}

\* A process has MaxHeld buffers at the most, and fewer when it asks for one; the log
\* has pinned MaxPinned at the most.
CountInv ==
    /\ \A p \in Procs : IF place[p] \in {"bget", "bget_sleep"} THEN Cardinality(Holding(p)) < MaxHeld
                        ELSE Cardinality(Holding(p)) <= MaxHeld
    /\ Cardinality(Pins) <= MaxPinned

\* Members shared out among finitely many, m at the most to each and fewer to one, are
\* fewer than m for each.
LEMMA SharedOut ==
    ASSUME NEW P, IsFiniteSet(P), NEW m \in Nat, NEW B, IsFiniteSet(B), NEW H \in [P -> SUBSET B],
           \A q \in P : Cardinality(H[q]) <= m, NEW p \in P, Cardinality(H[p]) < m,
           \A b \in B : \E q \in P : b \in H[q]
    PROVE  Cardinality(B) < Cardinality(P) * m
<1> DEFINE Own(b) == CHOOSE q \in P : b \in H[q]
           Num(q) == CHOOSE g \in Bijection(1..Cardinality(H[q]), H[q]) : TRUE
           At(b) == CHOOSE i \in 1..Cardinality(H[Own(b)]) : Num(Own(b))[i] = b
           Slots == (P \X (1..m)) \ {<<p, m>>}
           f == [b \in B |-> <<Own(b), At(b)>>]
<1>1. \A b \in B : Own(b) \in P /\ b \in H[Own(b)]
  BY Zenon
<1>2. ASSUME NEW q \in P
      PROVE  /\ Num(q) \in Bijection(1..Cardinality(H[q]), H[q]) /\ Cardinality(H[q]) \in Nat
             /\ 1..Cardinality(H[q]) \subseteq 1..m /\ (q = p => m \notin 1..Cardinality(H[q]))
  <2>1. IsFiniteSet(H[q])
    BY FS_Subset, Zenon
  <2>2. Cardinality(H[q]) \in Nat /\ ExistsBijection(1..Cardinality(H[q]), H[q])
    BY <2>1, FS_CardinalityType, Zenon
  <2>3. Num(q) \in Bijection(1..Cardinality(H[q]), H[q])
    BY <2>2, Zenon DEF ExistsBijection
  <2> QED
    BY <2>2, <2>3
<1> HIDE DEF Own, Num
<1>10. ASSUME NEW b \in B PROVE At(b) \in 1..Cardinality(H[Own(b)]) /\ Num(Own(b))[At(b)] = b
  <2>1. Own(b) \in P /\ b \in H[Own(b)]
    BY <1>1, Zenon
  <2>2. Num(Own(b)) \in Surjection(1..Cardinality(H[Own(b)]), H[Own(b)])
    BY <1>2, <2>1, Zenon DEF Bijection
  <2>3. \E i \in 1..Cardinality(H[Own(b)]) : Num(Own(b))[i] = b
    BY <2>1, <2>2, Zenon DEF Surjection
  <2> QED
    BY <2>3, Zenon
<1> HIDE DEF At
<1>3. ASSUME NEW b \in B PROVE f[b] \in Slots
  <2>1. Own(b) \in P /\ At(b) \in 1..Cardinality(H[Own(b)])
    BY <1>1, <1>10, Zenon
  <2>2. At(b) \in 1..m /\ (Own(b) = p => At(b) # m)
    BY <1>2, <2>1, Zenon
  <2> QED
    BY <2>1, <2>2, Zenon
<1>4. ASSUME NEW b \in B, NEW c \in B, f[b] = f[c] PROVE b = c
  <2>1. Own(b) = Own(c) /\ At(b) = At(c)
    BY <1>4, Zenon
  <2> QED
    BY <1>10, <2>1, Zenon
<1>5. f \in Injection(B, Slots)
  BY <1>3, <1>4, Zenon DEF Injection, IsInjective
<1>6. /\ IsFiniteSet(P \X (1..m)) /\ Cardinality(P \X (1..m)) = Cardinality(P) * m
      /\ Cardinality(P) \in Nat /\ Cardinality(P) * m \in Nat
  <2>1. IsFiniteSet(1..m) /\ Cardinality(1..m) = m
    BY FS_Interval
  <2>2. Cardinality(P) \in Nat
    BY FS_CardinalityType, Zenon
  <2>3. IsFiniteSet(P \X (1..m)) /\ Cardinality(P \X (1..m)) = Cardinality(P) * m
    BY <2>1, FS_Product, Zenon
  <2> QED
    BY <2>2, <2>3, FS_CardinalityType, Zenon
<1>7. <<p, m>> \in P \X (1..m)
  <2>1. Cardinality(H[p]) \in Nat
    BY <1>2, Zenon
  <2> QED
    BY <2>1
<1>8. IsFiniteSet(Slots) /\ Cardinality(Slots) = Cardinality(P) * m - 1
  <2> DEFINE S == P \X (1..m)
             x == <<p, m>>
  <2>1. IsFiniteSet(S) /\ Cardinality(S) = Cardinality(P) * m /\ x \in S /\ Slots = S \ {x}
    BY <1>6, <1>7, Zenon
  <2> HIDE DEF S, x, Slots
  <2>2. /\ IsFiniteSet(S \ {x})
        /\ Cardinality(S \ {x}) = IF x \in S THEN Cardinality(S) - 1 ELSE Cardinality(S)
    BY <2>1, FS_RemoveElement, Zenon
  <2> QED
    BY <2>1, <2>2, Zenon
<1> HIDE DEF Slots, f
<1>9. Cardinality(B) <= Cardinality(Slots) /\ Cardinality(B) \in Nat
  BY <1>5, <1>8, FS_Injection, FS_CardinalityType, Zenon
<1> QED
  BY <1>6, <1>8, <1>9

\* In such a state bget finds a buffer to recycle, and iderw has something to do.
LEMMA CountsSuffice ==
    ASSUME BcacheAssumption, BuffersSuffice, BInv, CountInv
    PROVE  NoPanic
<1> SUFFICES ASSUME NEW p \in Procs, Panics(p) PROVE FALSE
  BY Zenon DEF NoPanic
<1>1. ~(place[p] = "iderw" /\ buf[cur[p]].valid /\ ~buf[cur[p]].dirty)
  BY Zenon DEF BInv, QueueInv, Transferred
<1>2. place[p] = "bget" /\ Victims = {}
  BY <1>1, Zenon DEF Panics
<1> DEFINE Busy == {b \in Bufs : buf[b].busy}
           H == [q \in Procs |-> Holding(q)]
<1>3. \A b \in Bufs : buf[b].busy \/ buf[b].dirty
  BY <1>2, Zenon DEF Victims, BInv, ListInv
<1>4. \A b \in Bufs : b \in Busy \/ b \in Pins
  BY <1>3, Zenon DEF Pins, BInv, HolderInv, Has
<1>5. IsFiniteSet(Busy) /\ IsFiniteSet(Pins)
  BY FS_Subset, Zenon DEF BcacheAssumption, Pins
<1>6. Cardinality(Busy) < Cardinality(Procs) * MaxHeld
  <2>1. \A q \in Procs : Holding(q) \subseteq Busy
    BY Zenon DEF Holding, BInv, HolderInv
  <2>2. H \in [Procs -> SUBSET Busy]
    BY <2>1, Zenon
  <2>3. \A b \in Busy : \E q \in Procs : b \in H[q]
    BY Zenon DEF Holding, BInv, HolderInv
  <2>4. \A q \in Procs : Cardinality(Holding(q)) \in Nat
    BY <1>5, <2>1, FS_Subset, FS_CardinalityType, Zenon
  <2>5. \A q \in Procs : Cardinality(Holding(q)) <= MaxHeld
    BY <2>4 DEF CountInv, BuffersSuffice
  <2>6. \A q \in Procs : Cardinality(H[q]) <= MaxHeld
    BY <2>5, Zenon
  <2>7. Cardinality(H[p]) < MaxHeld
    BY <1>2, Zenon DEF CountInv
  <2> HIDE DEF H, Busy
  <2>8. MaxHeld \in Nat /\ IsFiniteSet(Procs)
    BY Zenon DEF BuffersSuffice
  <2> QED
    BY <1>5, <2>2, <2>3, <2>6, <2>7, <2>8, SharedOut
<1>7. Bufs = Busy \cup Pins
  BY <1>4, Zenon DEF Pins
<1> HIDE DEF Busy
<1>8. Cardinality(Bufs) = Cardinality(Busy) + Cardinality(Pins) - Cardinality(Busy \cap Pins)
  BY <1>5, <1>7, FS_Union, Zenon
<1>9. Cardinality(Busy) \in Nat /\ Cardinality(Pins) \in Nat /\ Cardinality(Busy \cap Pins) \in Nat
  <2>1. IsFiniteSet(Busy \cap Pins)
    BY <1>5, FS_Subset, Zenon
  <2> QED
    BY <1>5, <2>1, FS_CardinalityType, Zenon
<1>10. Cardinality(Pins) <= MaxPinned
  BY Zenon DEF CountInv
<1>11. Cardinality(Procs) \in Nat /\ Cardinality(Procs) * MaxHeld \in Nat
  <2>1. Cardinality(Procs) \in Nat
    BY FS_CardinalityType, Zenon DEF BuffersSuffice
  <2> QED
    BY <2>1 DEF BuffersSuffice
<1> QED
  BY <1>6, <1>8, <1>9, <1>10, <1>11 DEF BuffersSuffice

\* A step after which a process has no more buffers, and asks for no more, and after
\* which no more are pinned keeps the counts.
LEMMA CountsKept ==
    ASSUME BcacheAssumption, BuffersSuffice, CountInv,
           \A q \in Procs : /\ Holding(q)' \subseteq Holding(q)
                            /\ place'[q] \in {"bget", "bget_sleep"} => place[q] \in {"bget", "bget_sleep"},
           Pins' \subseteq Pins
    PROVE  CountInv'
<1>1. IsFiniteSet(Pins) /\ \A q \in Procs : IsFiniteSet(Holding(q))
  BY FS_Subset, Zenon DEF BcacheAssumption, Pins, Holding
<1>2. ASSUME NEW q \in Procs
      PROVE  /\ Cardinality(Holding(q)') <= Cardinality(Holding(q))
             /\ Cardinality(Holding(q)) \in Nat /\ Cardinality(Holding(q)') \in Nat
  BY <1>1, FS_Subset, FS_CardinalityType, Zenon
<1>3. Cardinality(Pins') <= Cardinality(Pins) /\ Cardinality(Pins) \in Nat /\ Cardinality(Pins') \in Nat
  BY <1>1, FS_Subset, FS_CardinalityType, Zenon
<1>4. MaxHeld \in Nat /\ MaxPinned \in Nat
  BY Zenon DEF BuffersSuffice
<1>5. ASSUME NEW q \in Procs
      PROVE  IF place'[q] \in {"bget", "bget_sleep"} THEN Cardinality(Holding(q)') < MaxHeld
             ELSE Cardinality(Holding(q)') <= MaxHeld
  BY <1>2, <1>4 DEF CountInv
<1>6. Cardinality(Pins') <= MaxPinned
  BY <1>3, <1>4 DEF CountInv
<1> QED
  BY <1>5, <1>6, Zenon DEF CountInv

\* bread asks for a buffer only while it has fewer than MaxHeld.
LEMMA BreadCounts ==
    ASSUME BcacheAssumption, BuffersSuffice, BInv, CountInv, NEW p \in Procs, NEW s \in Sectors, bread(p, s)
    PROVE  CountInv'
<1>1. /\ place[p] = "user" /\ Cardinality(held[p]) < MaxHeld /\ place' = [place EXCEPT ![p] = "bget"]
      /\ UNCHANGED <<buf, cur, held>>
  BY Zenon DEF bread, bufVars
<1>2. \A q \in Procs : Holding(q)' = Holding(q)
  BY <1>1, Zenon DEF Holding, Has
<1>3. Pins' = Pins
  BY <1>1, Zenon DEF Pins
<1>4. Holding(p) = held[p]
  BY <1>1, Zenon DEF Holding, Has, BInv, PlaceInv, VarsInv
<1>5. \A q \in Procs \ {p} : place'[q] = place[q]
  BY <1>1, Zenon DEF BInv, VarsInv
<1>6. place'[p] = "bget"
  BY <1>1, Zenon DEF BInv, VarsInv
<1>7. ASSUME NEW q \in Procs
      PROVE  IF place'[q] \in {"bget", "bget_sleep"} THEN Cardinality(Holding(q)') < MaxHeld
             ELSE Cardinality(Holding(q)') <= MaxHeld
  BY <1>1, <1>2, <1>4, <1>5, <1>6, Zenon DEF CountInv
<1> QED
  BY <1>3, <1>7, Zenon DEF CountInv

\* bget's return gives it the one it asked for.
LEMMA ReturnCounts ==
    ASSUME BcacheAssumption, BuffersSuffice, BInv, CountInv, NEW p \in Procs, NEW b \in Bufs, Returns(p, b)
    PROVE  CountInv'
<1>1. /\ \A c \in Bufs \ {b} : buf'[c] = buf[c]
      /\ buf'[b].dirty = buf[b].dirty
      /\ \/ /\ place' = [place EXCEPT ![p] = "user"] /\ UNCHANGED cur
         \/ /\ cur' = [cur EXCEPT ![p] = b] /\ place' = [place EXCEPT ![p] = "iderw"]
  BY ReturnsFacts
<1>2. \A q \in Procs, c \in Bufs : Has(q, c)' <=> (Has(q, c) \/ (q = p /\ c = b))
  BY ReturnsFacts, Zenon
<1>3. cur[p] \notin Bufs /\ place[p] = "bget" /\ cur \in [Procs -> Bufs \cup {NoOne}] /\ place \in [Procs -> Places]
  BY Zenon, ReturnsFacts DEF Returns, BInv, VarsInv
<1>4. Pins' \subseteq Pins
  <2>1. ASSUME NEW c \in Bufs, \A q \in Procs : cur'[q] # c PROVE \A q \in Procs : cur[q] # c
    BY <1>1, <1>3, <2>1, Zenon
  <2>2. \A c \in Bufs : buf'[c].dirty = buf[c].dirty
    BY <1>1, Zenon
  <2> QED
    BY <2>1, <2>2, Zenon DEF Pins
<1>5. IsFiniteSet(Pins) /\ \A q \in Procs : IsFiniteSet(Holding(q))
  BY FS_Subset, Zenon DEF BcacheAssumption, Pins, Holding
<1>6. Cardinality(Pins') <= MaxPinned
  <2>1. Cardinality(Pins') <= Cardinality(Pins) /\ Cardinality(Pins) \in Nat /\ Cardinality(Pins') \in Nat
    BY <1>4, <1>5, FS_Subset, FS_CardinalityType, Zenon
  <2> QED
    BY <2>1 DEF CountInv, BuffersSuffice
<1>7. \A q \in Procs \ {p} : Holding(q)' = Holding(q) /\ place'[q] = place[q]
  BY <1>1, <1>2, <1>3, Zenon DEF Holding
<1>8. place'[p] \notin {"bget", "bget_sleep"} /\ Cardinality(Holding(p)') <= MaxHeld
  <2>1. Holding(p)' = Holding(p) \cup {b}
    BY <1>2, Zenon DEF Holding
  <2> DEFINE S == Holding(p)
  <2>2. IsFiniteSet(S) /\ Cardinality(S) \in Nat /\ Cardinality(S) < MaxHeld
    BY <1>3, <1>5, FS_CardinalityType, Zenon DEF CountInv
  <2> HIDE DEF S
  <2>3. Cardinality(S \cup {b}) = IF b \in S THEN Cardinality(S) ELSE Cardinality(S) + 1
    BY <2>2, FS_AddElement, Zenon
  <2>4. Cardinality(S \cup {b}) <= MaxHeld
    BY <2>2, <2>3 DEF BuffersSuffice
  <2>5. place'[p] \notin {"bget", "bget_sleep"}
    BY <1>1, <1>3, Zenon
  <2> QED
    BY <2>1, <2>4, <2>5, Zenon DEF S
<1>9. ASSUME NEW q \in Procs
      PROVE  IF place'[q] \in {"bget", "bget_sleep"} THEN Cardinality(Holding(q)') < MaxHeld
             ELSE Cardinality(Holding(q)') <= MaxHeld
  BY <1>7, <1>8, Zenon DEF CountInv
<1> QED
  BY <1>6, <1>9, Zenon DEF CountInv

\* bwrite pins nothing, and log_write one buffer while fewer than MaxPinned are.
LEMMA WriteCounts ==
    ASSUME BcacheAssumption, BuffersSuffice, BInv, CountInv, NEW p \in Procs, NEW b \in held[p], NEW v \in Data,
           bwrite(p, b, v) \/ log_write(p, b, v)
    PROVE  CountInv'
<1>1. b \in Bufs /\ Has(p, b) /\ cur[p] \notin Bufs /\ place[p] = "user"
  BY Zenon DEF BInv, VarsInv, PlaceInv, Has, bwrite, log_write
<1>2. cur \in [Procs -> Bufs \cup {NoOne}] /\ held \in [Procs -> SUBSET Bufs] /\ place \in [Procs -> Places]
  BY Zenon DEF BInv, VarsInv
<1>3. Fills(b, v)
  BY Zenon DEF bwrite, log_write, Fills
<1>4. \A c \in Bufs \ {b} : buf'[c] = buf[c]
  BY <1>1, <1>3, FillsFacts, Zenon
<1>5. CASE bwrite(p, b, v)
  <2>1. /\ held' = [held EXCEPT ![p] = held[p] \ {b}] /\ cur' = [cur EXCEPT ![p] = b]
        /\ place' = [place EXCEPT ![p] = "iderw"]
    BY <1>5, Zenon DEF bwrite
  <2>2. \A q \in Procs, c \in Bufs : Has(q, c)' <=> Has(q, c)
    BY <1>1, <1>2, <2>1, Zenon DEF Has
  <2>3. \A q \in Procs : Holding(q)' \subseteq Holding(q)
    BY <2>2, Zenon DEF Holding
  <2>4. \A q \in Procs : place'[q] \in {"bget", "bget_sleep"} => place[q] \in {"bget", "bget_sleep"}
    BY <1>2, <2>1, Zenon
  <2>5. Pins' \subseteq Pins
    <3>1. cur'[p] = b /\ \A q \in Procs \ {p} : cur'[q] = cur[q]
      BY <1>2, <2>1, Zenon
    <3> QED
      BY <1>1, <1>4, <3>1, Zenon DEF Pins
  <2> QED
    BY <2>3, <2>4, <2>5, CountsKept, Zenon
<1>6. CASE log_write(p, b, v)
  <2> DEFINE S == {c \in Bufs \ {b} : buf[c].dirty}
  <2>1. Cardinality(S) < MaxPinned /\ UNCHANGED <<place, cur, held>>
    BY <1>6, Zenon DEF log_write, procVars
  <2>2. Pins' \subseteq S \cup {b}
    BY <1>4, Zenon DEF Pins
  <2>3. IsFiniteSet(S) /\ Cardinality(S) \in Nat
    BY FS_Subset, FS_CardinalityType, Zenon DEF BcacheAssumption
  <2>4. b \notin S
    BY Zenon
  <2> HIDE DEF S
  <2>5. IsFiniteSet(S \cup {b}) /\ Cardinality(S \cup {b}) = IF b \in S THEN Cardinality(S) ELSE Cardinality(S) + 1
    BY <2>3, FS_AddElement, Zenon
  <2>6. Cardinality(Pins') <= Cardinality(S \cup {b}) /\ Cardinality(Pins') \in Nat
    BY <2>2, <2>5, FS_Subset, FS_CardinalityType, Zenon
  <2>7. Cardinality(Pins') <= MaxPinned
    BY <2>1, <2>3, <2>4, <2>5, <2>6 DEF BuffersSuffice
  <2>8. \A q \in Procs : Holding(q)' = Holding(q) /\ place'[q] = place[q]
    BY <2>1, Zenon DEF Holding, Has
  <2> QED
    BY <2>7, <2>8, Zenon DEF CountInv
<1> QED
  BY <1>5, <1>6, Zenon

\* brelse has one buffer less to count.
LEMMA BrelseCounts ==
    ASSUME BcacheAssumption, BuffersSuffice, BInv, CountInv, NEW p \in Procs, NEW b \in held[p], brelse(p, b)
    PROVE  CountInv'
<1>1. /\ buf' = [buf EXCEPT ![b].busy = FALSE] /\ held' = [held EXCEPT ![p] = held[p] \ {b}]
      /\ cur' = cur /\ place' = Wake(b)
  BY Zenon DEF brelse
<1>2. b \in Bufs /\ held \in [Procs -> SUBSET Bufs] /\ buf \in [Bufs -> Buffer] /\ buf[b] \in Buffer
  BY Zenon DEF BInv, VarsInv
<1>3. \A q \in Procs : Holding(q)' \subseteq Holding(q)
  BY <1>1, <1>2, Zenon DEF Holding, Has
<1>4. buf'[b] = [buf[b] EXCEPT !.busy = FALSE] /\ \A c \in Bufs \ {b} : buf'[c] = buf[c]
  BY <1>1, <1>2, Zenon
<1>5. buf'[b].dirty = buf[b].dirty
  BY <1>2, <1>4, Zenon DEF Buffer
<1>6. \A c \in Bufs : buf'[c].dirty = buf[c].dirty
  BY <1>4, <1>5, Zenon
<1>7. Pins' \subseteq Pins
  BY <1>1, <1>6, Zenon DEF Pins
<1>8. \A q \in Procs : place'[q] \in {"bget", "bget_sleep"} => place[q] \in {"bget", "bget_sleep"}
  BY <1>1, WakeFacts, Zenon
<1> QED
  BY <1>3, <1>7, <1>8, CountsKept, Zenon

\* The driver's steps, sleeps and kills ask for nothing and pin nothing.
LEMMA DriverCounts ==
    ASSUME BcacheAssumption, BuffersSuffice, BInv, CountInv,
           \/ \E p \in Procs : bget_sleep(p) \/ iderw(p) \/ iderw_wake(p) \/ iderw_mem(p) \/ kill(p)
           \/ Device
           \/ UNCHANGED vars
    PROVE  CountInv'
<1> DEFINE Fewer == /\ \A q \in Procs, b \in Bufs : Has(q, b)' <=> Has(q, b)
                    /\ \A b \in Bufs : buf'[b].dirty => buf[b].dirty
                    /\ \A q \in Procs : cur'[q] = cur[q] \/ (cur[q] \in Bufs /\ ~buf'[cur[q]].dirty)
                    /\ \A q \in Procs : place'[q] \in {"bget", "bget_sleep"} => place[q] \in {"bget", "bget_sleep"}
<1>1. place \in [Procs -> Places]
  BY Zenon DEF BInv, VarsInv
<1>2. ASSUME UNCHANGED <<buf, cur, held>>,
             \A q \in Procs : place'[q] \in {"bget", "bget_sleep"} => place[q] \in {"bget", "bget_sleep"}
      PROVE  Fewer
  BY <1>2, Zenon DEF Has
<1>3. ASSUME NEW p \in Procs, bget_sleep(p) \/ iderw(p) \/ kill(p) PROVE Fewer
  <2>1. UNCHANGED <<buf, cur, held>>
    BY <1>3, Zenon DEF bget_sleep, iderw, kill, bufVars
  <2>2. \A q \in Procs : place'[q] \in {"bget", "bget_sleep"} => place[q] \in {"bget", "bget_sleep"}
    BY <1>1, <1>3, Zenon DEF bget_sleep, iderw, kill, Woken
  <2> QED
    BY <1>2, <2>1, <2>2, Zenon
<1>4. ASSUME NEW p \in Procs, iderw_wake(p) \/ iderw_mem(p),
             held' = [held EXCEPT ![p] = held[p] \cup {cur[p]}], cur' = [cur EXCEPT ![p] = NoOne],
             place' = [place EXCEPT ![p] = "user"], \A b \in Bufs : buf'[b].dirty => buf[b].dirty, ~buf'[cur[p]].dirty
      PROVE  Fewer
  <2>1. place[p] \in {"iderw", "iderw_wake"} /\ UNCHANGED want
    BY <1>4, Zenon DEF iderw_wake, iderw_mem
  <2>2. /\ cur[p] \in Bufs /\ place'[p] = "user"
        /\ \A q \in Procs \ {p} : place'[q] = place[q] /\ cur'[q] = cur[q]
        /\ \A q \in Procs, c \in Bufs : Has(q, c)' <=> Has(q, c)
    BY ZenonT(40), <1>4, <2>1, IderwReturns
  <2> QED
    BY Zenon, <1>4, <2>2
<1>5. ASSUME NEW p \in Procs, iderw_wake(p) PROVE Fewer
  <2>1. CASE Transferred(cur[p])
    <3>1. /\ held' = [held EXCEPT ![p] = held[p] \cup {cur[p]}] /\ cur' = [cur EXCEPT ![p] = NoOne]
          /\ place' = [place EXCEPT ![p] = "user"] /\ buf' = buf
      BY <1>5, <2>1, Zenon DEF iderw_wake, bufVars
    <3>2. ~buf'[cur[p]].dirty /\ \A b \in Bufs : buf'[b].dirty => buf[b].dirty
      BY <2>1, <3>1, Zenon DEF Transferred
    <3> QED
      BY <1>4, <1>5, <3>1, <3>2, Zenon
  <2>2. CASE ~Transferred(cur[p])
    <3>1. UNCHANGED <<buf, cur, held>> /\ place' = [place EXCEPT ![p] = "iderw_sleep"]
      BY <1>5, <2>2, Zenon DEF iderw_wake, bufVars
    <3> QED
      BY <1>1, <1>2, <3>1, Zenon
  <2> QED
    BY <2>1, <2>2, Zenon
<1>6. ASSUME NEW p \in Procs, iderw_mem(p) PROVE Fewer
  <2>1. /\ held' = [held EXCEPT ![p] = held[p] \cup {cur[p]}] /\ cur' = [cur EXCEPT ![p] = NoOne]
        /\ place' = [place EXCEPT ![p] = "user"]
    BY ZenonT(40), <1>6 DEF iderw_mem
  <2>2. ~buf'[cur[p]].dirty /\ \A b \in Bufs : buf'[b].dirty => buf[b].dirty
    BY <1>6, IderwMemFacts, Zenon DEF MemFacts
  <2> QED
    BY <1>4, <1>6, <2>1, <2>2, Zenon
<1>7. ASSUME ideintr PROVE Fewer
  <2>1. UNCHANGED <<cur, held>> /\ place' = Wake(Head(idequeue))
    BY <1>7, Zenon DEF ideintr
  <2>2. \A b \in Bufs : buf'[b].dirty => buf[b].dirty
    BY <1>7, IdeintrFacts, Zenon DEF IntrFacts
  <2>3. \A q \in Procs : place'[q] \in {"bget", "bget_sleep"} => place[q] \in {"bget", "bget_sleep"}
    BY <2>1, WakeFacts, Zenon
  <2> QED
    BY Zenon, <2>1, <2>2, <2>3 DEF Has
<1>8. ASSUME DriveDone \/ Spurious \/ ideintr_spurious \/ UNCHANGED vars PROVE Fewer
  BY <1>2, <1>8, Zenon DEF DriveDone, Spurious, ideintr_spurious, vars, bufVars, procVars
<1> HIDE DEF Fewer
<1>9. Fewer
  BY <1>3, <1>5, <1>6, <1>7, <1>8, Zenon DEF Device
<1>10. \A q \in Procs : Holding(q)' \subseteq Holding(q)
  BY <1>9, Zenon DEF Fewer, Holding
<1>11. Pins' \subseteq Pins
  BY <1>9, Zenon DEF Fewer, Pins
<1> QED
  BY <1>9, <1>10, <1>11, CountsKept, Zenon DEF Fewer

\* With a buffer for each one that a process may hold and the log may pin, bget never
\* panics with "no buffers", and iderw never with "nothing to do".
THEOREM CacheNeverPanics == ASSUME BcacheAssumption, BuffersSuffice PROVE Spec => []NoPanic
<1>1. ASSUME Init PROVE CountInv
  <2>1. \A p \in Procs : held[p] = {} /\ cur[p] = NoOne /\ place[p] = "user"
    BY <1>1, Zenon DEF Init
  <2>2. \A b \in Bufs : ~buf[b].dirty /\ b # NoOne
    BY <1>1, Zenon DEF Init, BcacheAssumption
  <2>3. Pins = {} /\ \A p \in Procs : Holding(p) = {}
    BY <2>1, <2>2, Zenon DEF Pins, Holding, Has
  <2>4. Cardinality(Pins) = 0 /\ \A p \in Procs : Cardinality(Holding(p)) = 0
    BY <2>3, FS_EmptySet, Zenon
  <2> QED
    BY <2>1, <2>4 DEF CountInv, BuffersSuffice
<1>2. ASSUME BInv, CountInv, [Next]_vars PROVE CountInv'
  <2>1. ASSUME NEW p \in Procs, bget_hit(p) \/ bget_recycle(p) PROVE CountInv'
    BY <1>2, <2>1, BgetReturn, ReturnCounts, Zenon
  <2>2. ASSUME NEW p \in Procs, Client(p) PROVE CountInv'
    BY <1>2, <2>2, BreadCounts, BrelseCounts, WriteCounts, Zenon DEF Client
  <2>3. ASSUME \/ \E p \in Procs : bget_sleep(p) \/ iderw(p) \/ iderw_wake(p) \/ iderw_mem(p) \/ kill(p)
               \/ Device
               \/ UNCHANGED vars
        PROVE  CountInv'
    BY <1>2, <2>3, DriverCounts, Zenon
  <2> QED
    BY <1>2, <2>1, <2>2, <2>3, Zenon DEF Next, Kernel
<1>3. BInv /\ CountInv => NoPanic
  BY CountsSuffice, Zenon
<1> QED
  BY <1>1, <1>2, <1>3, BcacheInvariance, PTL DEF Spec

\* However few the buffers are, bget panics with "no buffers" only when each of them is
\* with a process or dirty, and iderw never with "nothing to do".
THEOREM CachePanicsOnlyWhenFull == ASSUME BcacheAssumption PROVE Spec => []PanicsOnlyWhenFull
<1>1. ASSUME BInv, NEW p \in Procs, Panics(p)
      PROVE  /\ place[p] = "bget" /\ Cached(want[p]) = {}
             /\ \A b \in Bufs : Holder(b) # {} \/ buf[b].dirty
  <2>1. ~(place[p] = "iderw" /\ buf[cur[p]].valid /\ ~buf[cur[p]].dirty)
    BY <1>1, Zenon DEF BInv, QueueInv, Transferred
  <2>2. place[p] = "bget" /\ Cached(want[p]) = {} /\ Victims = {}
    BY <1>1, <2>1, Zenon DEF Panics
  <2>3. \A b \in Bufs : buf[b].busy \/ buf[b].dirty
    BY <1>1, <2>2, Zenon DEF Victims, BInv, ListInv
  <2>4. ASSUME NEW b \in Bufs, buf[b].busy PROVE Holder(b) # {}
    <3>1. \E q \in Procs : Has(q, b)
      BY <1>1, <2>4, Zenon DEF BInv, HolderInv
    <3> QED
      BY <3>1, Zenon DEF Has, Holder
  <2> QED
    BY <2>2, <2>3, <2>4, Zenon
<1>2. BInv => PanicsOnlyWhenFull
  BY <1>1, Zenon DEF PanicsOnlyWhenFull
<1> QED
  BY <1>2, BcacheInvariance, PTL

\* The buffers are shared as bget and brelse promise, however many there are: a sector
\* has one buffer and a busy buffer one process, a process waits only for what another
\* has, the list and the queue hold a buffer once, and bget gives up only when every
\* buffer is held or pinned.
THEOREM CacheSharesBuffers == ASSUME BcacheAssumption PROVE Spec => []BuffersShared
<1>1. TypeOK /\ OneBufferEach /\ WaiterHasReason /\ PanicsOnlyWhenFull => BuffersShared
  BY Zenon DEF BuffersShared
<1> QED
  BY <1>1, CacheTypeCorrect, EachBlockHasOneBuffer, BufferWaitersHaveReason, CachePanicsOnlyWhenFull, PTL
=============================================================================
