----------------------------- MODULE LogProofs ------------------------------
(***************************************************************************)
(* Proofs about the write-ahead log: transactions exclude each other, and  *)
(* the log implements the atomic disk.                                     *)
(***************************************************************************)
EXTENDS Log, TLAPS

\* The invariants are long formulas: the provers get more time for them.
USE SMTT(30), ZenonT(30)

NoRepeat(s) == \A i, j \in 1 .. Len(s) : s[i] = s[j] => i = j

\* log.busy is held by the process in the transaction, and there is none
\* before recovery is over.
BusyInv ==
  /\ \A p \in Procs : InTrans(p) => busy
  /\ OneTransaction
  /\ boot \notin {"up", "panic"} => \A p \in Procs : pc[p] = "out"

\* The header names no sector twice: log_write absorbs.
HeadInv == NoRepeat(lh) /\ NoRepeat(dhead)

\* A clean buffer holds what the disk holds, a dirty one what the log holds.
CacheInv ==
  boot # "panic" =>
    /\ \A b \in Blocks \ dirty : mem[b] \in {NoData, disk[b]}
    /\ \A b \in dirty : \E i \in 1 .. Len(lh) : lh[i] = b
    /\ \A i \in 1 .. Len(lh) : lh[i] \in dirty => mem[lh[i]] = dlog[i]

\* How far the transaction, or recovery, has come.
Installing ==
  /\ lh = dhead /\ tail <= Len(lh)
  /\ \A i \in 1 .. tail - 1 : disk[lh[i]] = dlog[i]

Installed ==
  /\ lh = dhead /\ tail > Len(lh) /\ dirty = {}
  /\ \A i \in 1 .. Len(lh) : disk[lh[i]] = dlog[i]

PhaseInv ==
  /\ boot = "read" => lh = <<>> /\ dirty = {}
  /\ boot = "install" => Installing /\ dirty = {}
  /\ boot = "clear" => Installed
  /\ boot = "up" =>
       \A p \in Procs :
         /\ pc[p] = "in" => dhead = <<>> /\ \A i \in 1 .. Len(lh) : lh[i] \in dirty
         /\ pc[p] = "install" =>
              Installing /\ \A i \in 1 .. Len(lh) : lh[i] \in dirty <=> i >= tail
         /\ pc[p] = "clear" => Installed
         /\ pc[p] = "end" => lh = <<>> /\ dhead = <<>>
  /\ boot = "up" /\ ~busy => lh = <<>> /\ dhead = <<>>

LInv == TypeOK /\ BusyInv /\ HeadInv /\ CacheInv /\ PhaseInv

-----------------------------------------------------------------------------
\* What the log holds for a sector that the header names.
LEMMA OverlayIn ==
  ASSUME NEW h \in Seq(Blocks), NEW l, NEW d, NoRepeat(h), NEW i \in 1 .. Len(h)
  PROVE  Overlay(h, l, d)[h[i]] = l[i]
<1>1. h[i] \in Blocks
  OBVIOUS
<1>2. \E j \in 1 .. Len(h) : h[j] = h[i]
  OBVIOUS
<1>3. (CHOOSE j \in 1 .. Len(h) : h[j] = h[i]) = i
  <2>1. PICK j \in 1 .. Len(h) : j = CHOOSE k \in 1 .. Len(h) : h[k] = h[i]
    BY <1>2, Zenon
  <2>2. h[j] = h[i]
    BY <1>2, <2>1, Zenon
  <2>3. QED
    BY <2>1, <2>2, Zenon DEF NoRepeat
<1>4. QED
  BY <1>1, <1>2, <1>3, Zenon DEF Overlay

\* A sector that the header does not name is as it was.
LEMMA OverlayOut ==
  ASSUME NEW h, NEW l, NEW d, NEW b \in Blocks, \A i \in 1 .. Len(h) : h[i] # b
  PROVE  Overlay(h, l, d)[b] = d[b]
  BY Zenon DEF Overlay

\* Where the log holds what the home sectors hold, an overlay changes nothing.
LEMMA OverlayIs ==
  ASSUME NEW h \in Seq(Blocks), NEW l, NEW d, NoRepeat(h),
         \A i \in 1 .. Len(h) : d[h[i]] = l[i]
  PROVE  \A b \in Blocks : Overlay(h, l, d)[b] = d[b]
<1>1. ASSUME NEW i \in 1 .. Len(h) PROVE Overlay(h, l, d)[h[i]] = d[h[i]]
  <2>1. Overlay(h, l, d)[h[i]] = l[i]
    BY OverlayIn
  <2>2. QED
    BY <2>1
<1>2. ASSUME NEW b \in Blocks, \A i \in 1 .. Len(h) : h[i] # b
      PROVE  Overlay(h, l, d)[b] = d[b]
  BY <1>2, OverlayOut
<1>3. QED
  BY <1>1, <1>2, Zenon

\* An overlay is a function on the home sectors.
LEMMA OverlayFun ==
  ASSUME NEW h, NEW l, NEW d
  PROVE  Overlay(h, l, d) = [b \in Blocks |-> Overlay(h, l, d)[b]]
  BY Zenon DEF Overlay

-----------------------------------------------------------------------------
\* The invariant holds of a machine that has not booted yet.
LEMMA LogInit == Init => LInv
<1> SUFFICES ASSUME Init PROVE LInv
  OBVIOUS
<1>1. lh = <<>> /\ dhead = <<>> /\ dirty = {} /\ boot = "read"
  BY DEF Init
<1>2. TypeOK
  <2>1. <<>> \in Seq(Blocks) /\ Len(<<>>) = 0
    OBVIOUS
  <2>2. 0 <= LOGSIZE /\ 1 \in 1 .. LOGSIZE + 1
    BY LogAssumption
  <2>3. mem \in [Blocks -> Values \cup {NoData}] /\ pc \in [Procs -> Places]
    BY DEF Init, Places
  <2>4. QED
    BY <1>1, <2>1, <2>2, <2>3, Zenon DEF Init, TypeOK, Boots
<1>3. BusyInv
  BY DEF Init, BusyInv, InTrans, OneTransaction
<1>4. HeadInv
  BY <1>1 DEF HeadInv, NoRepeat
<1>5. CacheInv
  BY <1>1 DEF Init, CacheInv
<1>6. PhaseInv
  BY <1>1, Zenon DEF PhaseInv
<1>7. QED
  BY <1>2, <1>3, <1>4, <1>5, <1>6 DEF LInv

\* bread of a sector that is not cached keeps the invariant.
LEMMA LoadKeeps ==
  ASSUME LInv, NEW b \in Blocks, Load(b)
  PROVE  LInv'
<1>1. /\ mem[b] = NoData /\ mem' = [mem EXCEPT ![b] = disk[b]]
      /\ UNCHANGED <<disk, dlog, dhead, dirty, lh, busy, tail, pc, boot>>
  BY DEF Load, onDisk
<1> USE DEF LInv
<1>2. TypeOK'
  BY <1>1 DEF TypeOK
<1>3. BusyInv' /\ HeadInv' /\ PhaseInv'
  BY <1>1 DEF BusyInv, HeadInv, PhaseInv, NoRepeat, InTrans, OneTransaction, Installing, Installed
<1>4. CacheInv'
  BY <1>1, LogAssumption DEF CacheInv, TypeOK
<1>5. QED
  BY <1>2, <1>3, <1>4

\* Recycling a clean buffer keeps the invariant.
LEMMA EvictKeeps ==
  ASSUME LInv, NEW b \in Blocks, Evict(b)
  PROVE  LInv'
<1>1. /\ b \notin dirty /\ mem' = [mem EXCEPT ![b] = NoData]
      /\ UNCHANGED <<disk, dlog, dhead, dirty, lh, busy, tail, pc, boot>>
  BY DEF Evict, onDisk
<1> USE DEF LInv
<1>2. TypeOK'
  BY <1>1 DEF TypeOK
<1>3. BusyInv' /\ HeadInv' /\ PhaseInv'
  BY <1>1 DEF BusyInv, HeadInv, PhaseInv, NoRepeat, InTrans, OneTransaction, Installing, Installed
<1>4. CacheInv'
  BY <1>1 DEF CacheInv, TypeOK
<1>5. QED
  BY <1>2, <1>3, <1>4

\* Going to sleep in begin_trans keeps the invariant.
LEMMA SleepKeeps ==
  ASSUME LInv, NEW p \in Procs, begin_sleep(p)
  PROVE  LInv'
<1>1. /\ boot = "up" /\ pc[p] = "out" /\ pc' = [pc EXCEPT ![p] = "asleep"]
      /\ UNCHANGED <<disk, dlog, dhead, mem, dirty, lh, busy, tail, boot>>
  BY DEF begin_sleep, onDisk, cache, Goto
<1> USE DEF LInv
<1>2. TypeOK'
  BY <1>1 DEF TypeOK, Places
<1>3. BusyInv'
  BY <1>1 DEF BusyInv, InTrans, OneTransaction, TypeOK
<1>4. HeadInv' /\ CacheInv'
  BY <1>1 DEF HeadInv, CacheInv, NoRepeat
<1>5. PhaseInv'
  BY <1>1 DEF PhaseInv, Installing, Installed, TypeOK
<1>6. QED
  BY <1>2, <1>3, <1>4, <1>5

\* begin_trans keeps the invariant: with busy clear there is no transaction.
LEMMA BeginKeeps ==
  ASSUME LInv, NEW p \in Procs, begin_trans(p)
  PROVE  LInv'
<1>1. /\ boot = "up" /\ pc[p] = "out" /\ pc' = [pc EXCEPT ![p] = "in"]
      /\ ~busy /\ busy' = TRUE
      /\ UNCHANGED <<disk, dlog, dhead, mem, dirty, lh, tail, boot>>
  BY DEF begin_trans, onDisk, cache, Goto
<1> USE DEF LInv
<1>2. \A q \in Procs : ~InTrans(q)
  BY <1>1 DEF BusyInv
<1>3. lh = <<>> /\ dhead = <<>>
  BY <1>1 DEF PhaseInv
<1>4. TypeOK'
  BY <1>1 DEF TypeOK, Places
<1>5. BusyInv'
  BY <1>1, <1>2 DEF BusyInv, InTrans, OneTransaction, TypeOK
<1>6. HeadInv' /\ CacheInv'
  BY <1>1 DEF HeadInv, CacheInv, NoRepeat
<1>7. PhaseInv'
  BY <1>1, <1>2, <1>3 DEF PhaseInv, Installing, Installed, TypeOK, InTrans
<1>8. QED
  BY <1>4, <1>5, <1>6, <1>7

\* log_write keeps the invariant, for a new sector and for an absorbed one.
LEMMA WriteKeeps ==
  ASSUME LInv, NEW p \in Procs, NEW b \in Blocks, NEW v \in Values, log_write(p, b, v)
  PROVE  LInv'
<1>1. /\ boot = "up" /\ pc[p] = "in" /\ Len(lh) < LOGSIZE
      /\ mem' = [mem EXCEPT ![b] = v] /\ dirty' = dirty \cup {b}
      /\ UNCHANGED <<disk, dhead, busy, tail, pc, boot>>
  BY DEF log_write
<1>2. TypeOK /\ BusyInv /\ HeadInv /\ CacheInv /\ PhaseInv
  BY DEF LInv
<1>3. /\ lh \in Seq(Blocks) /\ Len(lh) \in Nat /\ LOGSIZE \in Nat
      /\ mem \in [Blocks -> Values \cup {NoData}] /\ dlog \in [1 .. LOGSIZE -> Values]
  BY <1>2, LogAssumption DEF TypeOK
<1>4. dhead = <<>> /\ \A i \in 1 .. Len(lh) : lh[i] \in dirty
  BY <1>1, <1>2 DEF PhaseInv
<1>5. \A q \in Procs : InTrans(q) => q = p
  BY <1>1, <1>2 DEF BusyInv, OneTransaction, InTrans
<1>6. BusyInv'
  BY <1>1, <1>2 DEF BusyInv, OneTransaction, InTrans
<1>7. busy
  BY <1>1, <1>2 DEF BusyInv, InTrans
<1>8. CASE \E i \in 1 .. Len(lh) : /\ lh[i] = b /\ dlog' = [dlog EXCEPT ![i] = v]
                                   /\ UNCHANGED lh
  <2>1. PICK i \in 1 .. Len(lh) : /\ lh[i] = b /\ dlog' = [dlog EXCEPT ![i] = v]
                                  /\ lh' = lh
    BY <1>8, Zenon
  <2>2. TypeOK'
    BY <1>1, <1>2, <2>1, Zenon DEF TypeOK
  <2>3. HeadInv'
    BY <1>1, <1>2, <2>1 DEF HeadInv, NoRepeat
  <2>4. CacheInv'
    BY <1>1, <1>2, <1>3, <1>4, <2>1 DEF CacheInv, HeadInv, NoRepeat
  <2>5. PhaseInv'
    BY <1>1, <1>4, <1>5, <1>7, <2>1 DEF PhaseInv, InTrans
  <2>6. QED
    BY <1>6, <2>2, <2>3, <2>4, <2>5 DEF LInv
<1>9. CASE /\ \A i \in 1 .. Len(lh) : lh[i] # b
           /\ dlog' = [dlog EXCEPT ![Len(lh) + 1] = v]
           /\ lh' = Append(lh, b)
  <2>1. /\ lh' \in Seq(Blocks) /\ Len(lh') = Len(lh) + 1
        /\ lh'[Len(lh) + 1] = b /\ \A i \in 1 .. Len(lh) : lh'[i] = lh[i]
    BY <1>3, <1>9
  <2>2. TypeOK'
    BY <1>1, <1>2, <1>3, <1>9, <2>1 DEF TypeOK
  <2>3. HeadInv'
    <3>1. NoRepeat(lh) /\ NoRepeat(dhead)
      BY <1>2 DEF HeadInv
    <3>2. ASSUME NEW i \in 1 .. Len(lh'), NEW j \in 1 .. Len(lh'), lh'[i] = lh'[j]
          PROVE  i = j
      <4>1. i \in 1 .. Len(lh) \/ i = Len(lh) + 1
        BY <1>3, <2>1
      <4>2. j \in 1 .. Len(lh) \/ j = Len(lh) + 1
        BY <1>3, <2>1
      <4>3. QED
        BY <1>9, <2>1, <3>1, <3>2, <4>1, <4>2 DEF NoRepeat
    <3>3. QED
      BY <1>1, <3>1, <3>2 DEF HeadInv, NoRepeat
  <2>4. CacheInv'
    BY <1>1, <1>2, <1>3, <1>4, <1>9, <2>1 DEF CacheInv
  <2>5. PhaseInv'
    <3>1. ASSUME NEW i \in 1 .. Len(lh') PROVE lh'[i] \in dirty'
      <4>1. i \in 1 .. Len(lh) \/ i = Len(lh) + 1
        BY <1>3, <2>1
      <4>2. QED
        BY <1>1, <1>4, <2>1, <4>1
    <3>2. \A q \in Procs : pc'[q] \notin {"install", "clear", "end"}
      BY <1>1, <1>5 DEF InTrans
    <3>3. QED
      BY <1>1, <1>4, <1>7, <3>1, <3>2 DEF PhaseInv
  <2>6. QED
    BY <1>6, <2>2, <2>3, <2>4, <2>5 DEF LInv
<1>10. QED
  BY <1>8, <1>9 DEF log_write

\* The panic keeps the invariant: what it says then is about the disk only.
LEMMA FullKeeps ==
  ASSUME LInv, NEW p \in Procs, log_full(p)
  PROVE  LInv'
<1>1. /\ boot' = "panic"
      /\ UNCHANGED <<disk, dlog, dhead, mem, dirty, lh, busy, tail, pc>>
  BY DEF log_full, onDisk, cache
<1> USE DEF LInv
<1>2. TypeOK'
  BY <1>1 DEF TypeOK, Boots
<1>3. BusyInv'
  BY <1>1 DEF BusyInv, OneTransaction, InTrans
<1>4. HeadInv'
  BY <1>1 DEF HeadInv, NoRepeat
<1>5. CacheInv' /\ PhaseInv'
  BY <1>1 DEF CacheInv, PhaseInv
<1>6. QED
  BY <1>2, <1>3, <1>4, <1>5

\* The commit, write_head, keeps the invariant.
LEMMA HeadKeeps ==
  ASSUME LInv, NEW p \in Procs, write_head(p)
  PROVE  LInv'
<1>1. /\ boot = "up" /\ pc[p] = "in" /\ dhead' = lh /\ tail' = 1
      /\ pc' = [pc EXCEPT ![p] = IF lh = <<>> THEN "end" ELSE "install"]
      /\ UNCHANGED <<disk, dlog, mem, dirty, lh, busy, boot>>
  BY DEF write_head, cache, Goto
<1>2. TypeOK /\ BusyInv /\ HeadInv /\ CacheInv /\ PhaseInv
  BY DEF LInv
<1>3. \A i \in 1 .. Len(lh) : lh[i] \in dirty
  BY <1>1, <1>2 DEF PhaseInv
<1>4. \A q \in Procs : InTrans(q) => q = p
  BY <1>1, <1>2 DEF BusyInv, OneTransaction, InTrans
<1>5. busy
  BY <1>1, <1>2 DEF BusyInv, InTrans
<1>6. lh \in Seq(Blocks) /\ pc \in [Procs -> Places]
  BY <1>2 DEF TypeOK
<1>7. TypeOK'
  BY <1>1, <1>2, LogAssumption DEF TypeOK, Places
<1>8. BusyInv'
  BY <1>1, <1>2, <1>4, <1>5, <1>6 DEF BusyInv, OneTransaction, InTrans
<1>9. HeadInv' /\ CacheInv'
  BY <1>1, <1>2 DEF HeadInv, CacheInv, NoRepeat
<1>10. PhaseInv'
  <2>1. lh # <<>> => Len(lh) >= 1
    BY <1>6
  <2>2. Len(lh) \in Nat
    BY <1>6
  <2>3. QED
    BY <1>1, <1>3, <1>4, <1>5, <1>6, <2>1, <2>2 DEF PhaseInv, Installing, InTrans
<1>11. QED
  BY <1>7, <1>8, <1>9, <1>10 DEF LInv

\* Copying a block to its home keeps what the log and the header say, and makes
\* clean what it makes equal.  (Transactions and recovery both take this step.)
LEMMA InstallFacts ==
  ASSUME TypeOK, HeadInv, CacheInv, boot \in {"up", "install"}, Installing, InstallBlock
  PROVE  /\ disk' \in [Blocks -> Values] /\ dirty' \subseteq Blocks
         /\ mem' \in [Blocks -> Values \cup {NoData}]
         /\ tail' \in 1 .. LOGSIZE + 1 /\ tail' = tail + 1
         /\ lh[tail] \in Blocks /\ dirty' = dirty \ {lh[tail]}
         /\ \A b \in Blocks \ dirty' : mem'[b] \in {NoData, disk'[b]}
         /\ \A b \in dirty' : \E i \in 1 .. Len(lh) : lh[i] = b
         /\ \A i \in 1 .. Len(lh) : lh[i] \in dirty' => mem'[lh[i]] = dlog[i]
         /\ \A i \in 1 .. tail : disk'[lh[i]] = dlog[i]
<1>1. /\ lh \in Seq(Blocks) /\ Len(lh) \in Nat /\ Len(lh) <= LOGSIZE /\ LOGSIZE \in Nat
      /\ tail \in 1 .. Len(lh)
      /\ disk \in [Blocks -> Values] /\ mem \in [Blocks -> Values \cup {NoData}]
      /\ dlog \in [1 .. LOGSIZE -> Values] /\ dirty \subseteq Blocks
  BY LogAssumption DEF TypeOK, Installing
<1>2. lh[tail] \in Blocks /\ dlog[tail] \in Values
  BY <1>1
<1>3. /\ disk' = [disk EXCEPT ![lh[tail]] = dlog[tail]]
      /\ mem' = [mem EXCEPT ![lh[tail]] = dlog[tail]]
      /\ dirty' = dirty \ {lh[tail]} /\ tail' = tail + 1
  BY DEF InstallBlock
<1>4. /\ disk' \in [Blocks -> Values] /\ dirty' \subseteq Blocks
      /\ mem' \in [Blocks -> Values \cup {NoData}]
      /\ tail' \in 1 .. LOGSIZE + 1
  BY <1>1, <1>2, <1>3
<1>5. \A b \in Blocks \ dirty' : mem'[b] \in {NoData, disk'[b]}
  BY <1>1, <1>2, <1>3 DEF CacheInv
<1>6. \A b \in dirty' : \E i \in 1 .. Len(lh) : lh[i] = b
  BY <1>3 DEF CacheInv
<1>7. \A i \in 1 .. Len(lh) : lh[i] \in Blocks
  BY <1>1
<1>8. \A i \in 1 .. Len(lh) : lh[i] \in dirty' => mem'[lh[i]] = dlog[i]
  BY <1>1, <1>2, <1>3, <1>7 DEF CacheInv
<1>9. \A i \in 1 .. tail : disk'[lh[i]] = dlog[i]
  <2>1. ASSUME NEW i \in 1 .. tail PROVE disk'[lh[i]] = dlog[i]
    <3>1. i \in 1 .. Len(lh) /\ (i = tail \/ i \in 1 .. tail - 1)
      BY <1>1
    <3>2. CASE i = tail
      BY <1>1, <1>2, <1>3, <3>2
    <3>3. CASE i \in 1 .. tail - 1
      <4>1. disk[lh[i]] = dlog[i] /\ lh[i] # lh[tail]
        BY <1>1, <3>1, <3>3 DEF Installing, HeadInv, NoRepeat
      <4>2. QED
        BY <1>1, <1>3, <1>7, <3>1, <4>1
    <3>4. QED
      BY <3>1, <3>2, <3>3
  <2>2. QED
    BY <2>1
<1>10. QED
  BY <1>2, <1>3, <1>4, <1>5, <1>6, <1>8, <1>9

\* install_trans keeps the invariant.
LEMMA InstallKeeps ==
  ASSUME LInv, NEW p \in Procs, install_trans(p)
  PROVE  LInv'
<1>1. /\ boot = "up" /\ pc[p] = "install" /\ InstallBlock
      /\ pc' = [pc EXCEPT ![p] = IF tail = Len(lh) THEN "clear" ELSE "install"]
      /\ UNCHANGED <<dlog, dhead, lh, busy, boot>>
  BY DEF install_trans, InstallBlock, Goto
<1>2. TypeOK /\ BusyInv /\ HeadInv /\ CacheInv /\ PhaseInv
  BY DEF LInv
<1>3. Installing /\ \A i \in 1 .. Len(lh) : lh[i] \in dirty <=> i >= tail
  BY <1>1, <1>2 DEF PhaseInv
<1>4. \A q \in Procs : InTrans(q) => q = p
  BY <1>1, <1>2 DEF BusyInv, OneTransaction, InTrans
<1>5. busy
  BY <1>1, <1>2 DEF BusyInv, InTrans
<1>6. /\ lh \in Seq(Blocks) /\ Len(lh) \in Nat /\ pc \in [Procs -> Places]
      /\ tail \in 1 .. Len(lh)
  BY <1>2, <1>3 DEF TypeOK, Installing
<1>7. /\ disk' \in [Blocks -> Values] /\ dirty' \subseteq Blocks
      /\ mem' \in [Blocks -> Values \cup {NoData}]
      /\ tail' \in 1 .. LOGSIZE + 1 /\ tail' = tail + 1
      /\ dirty' = dirty \ {lh[tail]}
      /\ \A b \in Blocks \ dirty' : mem'[b] \in {NoData, disk'[b]}
      /\ \A b \in dirty' : \E i \in 1 .. Len(lh) : lh[i] = b
      /\ \A i \in 1 .. Len(lh) : lh[i] \in dirty' => mem'[lh[i]] = dlog[i]
      /\ \A i \in 1 .. tail : disk'[lh[i]] = dlog[i]
  BY <1>1, <1>2, <1>3, InstallFacts
<1>8. TypeOK'
  BY <1>1, <1>2, <1>7 DEF TypeOK, Places
<1>9. BusyInv'
  BY <1>1, <1>2, <1>4, <1>5, <1>6 DEF BusyInv, OneTransaction, InTrans
<1>10. HeadInv'
  BY <1>1, <1>2 DEF HeadInv, NoRepeat
<1>11. CacheInv'
  BY <1>1, <1>7 DEF CacheInv
<1>12. \A i \in 1 .. Len(lh) : lh[i] \in dirty' <=> i >= tail + 1
  BY <1>2, <1>3, <1>6, <1>7 DEF HeadInv, NoRepeat
<1>13. PhaseInv'
  <2>1. \A q \in Procs \ {p} : pc'[q] \notin {"in", "install", "clear", "end"}
    BY <1>1, <1>4, <1>6 DEF InTrans
  <2>2. CASE tail = Len(lh)
    <3>1. pc'[p] = "clear"
      BY <1>1, <1>6, <2>2
    <3>2. dirty' = {}
      BY <1>6, <1>7, <1>12, <2>2
    <3>3. Installed'
      BY <1>1, <1>3, <1>6, <1>7, <2>2, <3>2 DEF Installed, Installing
    <3>4. QED
      BY <1>1, <1>5, <2>1, <3>1, <3>3 DEF PhaseInv
  <2>3. CASE tail # Len(lh)
    <3>1. pc'[p] = "install"
      BY <1>1, <1>6, <2>3
    <3>2. Installing'
      BY <1>1, <1>3, <1>6, <1>7, <2>3 DEF Installing
    <3>3. \A i \in 1 .. Len(lh') : lh'[i] \in dirty' <=> i >= tail'
      BY <1>1, <1>7, <1>12
    <3>4. QED
      BY <1>1, <1>5, <2>1, <3>1, <3>2, <3>3 DEF PhaseInv
  <2>4. QED
    BY <2>2, <2>3
<1>14. QED
  BY <1>8, <1>9, <1>10, <1>11, <1>13 DEF LInv

\* Erasing the log at the end of commit_trans keeps the invariant.
LEMMA EraseKeeps ==
  ASSUME LInv, NEW p \in Procs, erase(p)
  PROVE  LInv'
<1>1. /\ boot = "up" /\ pc[p] = "clear" /\ lh' = <<>> /\ dhead' = <<>>
      /\ pc' = [pc EXCEPT ![p] = "end"]
      /\ UNCHANGED <<disk, dlog, mem, dirty, busy, tail, boot>>
  BY DEF erase, EraseLog, Goto, cache
<1>2. TypeOK /\ BusyInv /\ HeadInv /\ CacheInv /\ PhaseInv
  BY DEF LInv
<1>3. dirty = {}
  BY <1>1, <1>2 DEF PhaseInv, Installed
<1>4. \A q \in Procs : InTrans(q) => q = p
  BY <1>1, <1>2 DEF BusyInv, OneTransaction, InTrans
<1>5. busy
  BY <1>1, <1>2 DEF BusyInv, InTrans
<1>6. pc \in [Procs -> Places]
  BY <1>2 DEF TypeOK
<1>7. TypeOK'
  <2>1. <<>> \in Seq(Blocks) /\ Len(<<>>) = 0 /\ 0 <= LOGSIZE
    BY LogAssumption
  <2>2. pc' \in [Procs -> Places]
    BY <1>1, <1>6 DEF Places
  <2>3. QED
    BY <1>1, <1>2, <2>1, <2>2 DEF TypeOK
<1>8. BusyInv'
  BY <1>1, <1>2, <1>4, <1>5, <1>6 DEF BusyInv, OneTransaction, InTrans
<1>9. HeadInv'
  BY <1>1 DEF HeadInv, NoRepeat
<1>10. CacheInv'
  BY <1>1, <1>2, <1>3 DEF CacheInv
<1>11. PhaseInv'
  BY <1>1, <1>4, <1>5, <1>6 DEF PhaseInv, InTrans
<1>12. QED
  BY <1>7, <1>8, <1>9, <1>10, <1>11 DEF LInv

\* The end of commit_trans keeps the invariant: no transaction is left.
LEMMA EndKeeps ==
  ASSUME LInv, NEW p \in Procs, end_trans(p)
  PROVE  LInv'
<1>1. /\ boot = "up" /\ pc[p] = "end" /\ busy' = FALSE
      /\ pc' = [q \in Procs |-> IF q = p \/ pc[q] = "asleep" THEN "out" ELSE pc[q]]
      /\ UNCHANGED <<disk, dlog, dhead, mem, dirty, lh, tail, boot>>
  BY DEF end_trans, onDisk, cache
<1>2. TypeOK /\ BusyInv /\ HeadInv /\ CacheInv /\ PhaseInv
  BY DEF LInv
<1>3. lh = <<>> /\ dhead = <<>>
  BY <1>1, <1>2 DEF PhaseInv
<1>4. \A q \in Procs : InTrans(q) => q = p
  BY <1>1, <1>2 DEF BusyInv, OneTransaction, InTrans
<1>5. pc \in [Procs -> Places]
  BY <1>2 DEF TypeOK
<1>6. \A q \in Procs : pc'[q] \notin {"in", "install", "clear", "end"}
  BY <1>1, <1>4, <1>5 DEF InTrans
<1>7. pc' \in [Procs -> Places]
  BY <1>1, <1>5 DEF Places
<1>8. TypeOK'
  BY <1>1, <1>2, <1>7, Zenon DEF TypeOK
<1>9. BusyInv'
  BY <1>1, <1>6 DEF BusyInv, OneTransaction, InTrans
<1>10. HeadInv' /\ CacheInv'
  BY <1>1, <1>2 DEF HeadInv, CacheInv, NoRepeat
<1>11. PhaseInv'
  BY <1>1, <1>3, <1>6 DEF PhaseInv
<1>12. QED
  BY <1>8, <1>9, <1>10, <1>11 DEF LInv

\* A crash keeps the invariant: memory is empty and the disk as it was.
LEMMA CrashKeeps ==
  ASSUME LInv, Crash
  PROVE  LInv'
<1>1. /\ mem' = [b \in Blocks |-> NoData] /\ dirty' = {} /\ lh' = <<>> /\ busy' = FALSE
      /\ tail' = 1 /\ pc' = [p \in Procs |-> "out"] /\ boot' = "read"
      /\ UNCHANGED <<disk, dlog, dhead>>
  BY DEF Crash, onDisk
<1>2. TypeOK /\ HeadInv
  BY DEF LInv
<1>3. TypeOK'
  <2>1. <<>> \in Seq(Blocks) /\ Len(<<>>) = 0 /\ 0 <= LOGSIZE /\ 1 \in 1 .. LOGSIZE + 1
    BY LogAssumption
  <2>2. pc' \in [Procs -> Places] /\ mem' \in [Blocks -> Values \cup {NoData}]
    BY <1>1 DEF Places
  <2>3. QED
    BY <1>1, <1>2, <2>1, <2>2, Zenon DEF TypeOK, Boots
<1>4. BusyInv'
  BY <1>1 DEF BusyInv, OneTransaction, InTrans
<1>5. HeadInv'
  BY <1>1, <1>2 DEF HeadInv, NoRepeat
<1>6. CacheInv'
  BY <1>1 DEF CacheInv
<1>7. PhaseInv'
  BY <1>1, Zenon DEF PhaseInv
<1>8. QED
  BY <1>3, <1>4, <1>5, <1>6, <1>7 DEF LInv

\* Reading the header of the log keeps the invariant.
LEMMA ReadHeadKeeps ==
  ASSUME LInv, read_head
  PROVE  LInv'
<1>1. /\ boot = "read" /\ lh' = dhead /\ tail' = 1
      /\ boot' = IF dhead = <<>> THEN "clear" ELSE "install"
      /\ UNCHANGED <<disk, dlog, dhead, mem, dirty, busy, pc>>
  BY DEF read_head, onDisk, cache
<1>2. TypeOK /\ BusyInv /\ HeadInv /\ CacheInv /\ PhaseInv
  BY DEF LInv
<1>3. dirty = {}
  BY <1>1, <1>2 DEF PhaseInv
<1>4. dhead \in Seq(Blocks) /\ Len(dhead) \in Nat /\ (dhead # <<>> => Len(dhead) >= 1)
  BY <1>2 DEF TypeOK
<1>5. TypeOK'
  BY <1>1, <1>2, LogAssumption DEF TypeOK, Boots
<1>6. BusyInv'
  BY <1>1, <1>2 DEF BusyInv, OneTransaction, InTrans
<1>7. HeadInv'
  BY <1>1, <1>2 DEF HeadInv, NoRepeat
<1>8. CacheInv'
  BY <1>1, <1>2, <1>3 DEF CacheInv
<1>9. PhaseInv'
  BY <1>1, <1>3, <1>4 DEF PhaseInv, Installing, Installed
<1>10. QED
  BY <1>5, <1>6, <1>7, <1>8, <1>9 DEF LInv

\* Recovery's install_trans keeps the invariant.
LEMMA RecoverInstallKeeps ==
  ASSUME LInv, recover_install
  PROVE  LInv'
<1>1. /\ boot = "install" /\ InstallBlock
      /\ boot' = IF tail = Len(lh) THEN "clear" ELSE "install"
      /\ UNCHANGED <<dlog, dhead, lh, busy, pc>>
  BY DEF recover_install, InstallBlock
<1>2. TypeOK /\ BusyInv /\ HeadInv /\ CacheInv /\ PhaseInv
  BY DEF LInv
<1>3. Installing /\ dirty = {}
  BY <1>1, <1>2 DEF PhaseInv
<1>4. lh \in Seq(Blocks) /\ Len(lh) \in Nat /\ tail \in 1 .. Len(lh)
  BY <1>2, <1>3 DEF TypeOK, Installing
<1>5. /\ disk' \in [Blocks -> Values] /\ dirty' \subseteq Blocks
      /\ mem' \in [Blocks -> Values \cup {NoData}]
      /\ tail' \in 1 .. LOGSIZE + 1 /\ tail' = tail + 1
      /\ dirty' = dirty \ {lh[tail]}
      /\ \A b \in Blocks \ dirty' : mem'[b] \in {NoData, disk'[b]}
      /\ \A b \in dirty' : \E i \in 1 .. Len(lh) : lh[i] = b
      /\ \A i \in 1 .. Len(lh) : lh[i] \in dirty' => mem'[lh[i]] = dlog[i]
      /\ \A i \in 1 .. tail : disk'[lh[i]] = dlog[i]
  BY <1>1, <1>2, <1>3, InstallFacts
<1>6. TypeOK'
  BY <1>1, <1>2, <1>5 DEF TypeOK, Boots
<1>7. BusyInv'
  BY <1>1, <1>2 DEF BusyInv, OneTransaction, InTrans
<1>8. HeadInv'
  BY <1>1, <1>2 DEF HeadInv, NoRepeat
<1>9. CacheInv'
  BY <1>1, <1>5 DEF CacheInv
<1>10. PhaseInv'
  BY <1>1, <1>3, <1>4, <1>5 DEF PhaseInv, Installing, Installed
<1>11. QED
  BY <1>6, <1>7, <1>8, <1>9, <1>10 DEF LInv

\* Recovery's erasing of the log keeps the invariant.
LEMMA RecoverEraseKeeps ==
  ASSUME LInv, recover_erase
  PROVE  LInv'
<1>1. /\ boot = "clear" /\ boot' = "up" /\ lh' = <<>> /\ dhead' = <<>>
      /\ UNCHANGED <<disk, dlog, mem, dirty, busy, tail, pc>>
  BY DEF recover_erase, EraseLog, cache
<1>2. TypeOK /\ BusyInv /\ HeadInv /\ CacheInv /\ PhaseInv
  BY DEF LInv
<1>3. dirty = {}
  BY <1>1, <1>2 DEF PhaseInv, Installed
<1>4. \A p \in Procs : pc[p] = "out"
  BY <1>1, <1>2 DEF BusyInv
<1>5. TypeOK'
  <2>1. <<>> \in Seq(Blocks) /\ Len(<<>>) = 0 /\ 0 <= LOGSIZE
    BY LogAssumption
  <2>2. QED
    BY <1>1, <1>2, <2>1 DEF TypeOK, Boots
<1>6. BusyInv'
  BY <1>1, <1>2 DEF BusyInv, OneTransaction, InTrans
<1>7. HeadInv'
  BY <1>1 DEF HeadInv, NoRepeat
<1>8. CacheInv'
  BY <1>1, <1>2, <1>3 DEF CacheInv
<1>9. PhaseInv'
  BY <1>1, <1>4 DEF PhaseInv
<1>10. QED
  BY <1>5, <1>6, <1>7, <1>8, <1>9 DEF LInv

\* The invariant is inductive.
LEMMA LogStep == LInv /\ [Next]_vars => LInv'
<1> SUFFICES ASSUME LInv, [Next]_vars PROVE LInv'
  OBVIOUS
<1>1. CASE UNCHANGED vars
  <2>1. UNCHANGED <<disk, dlog, dhead, mem, dirty, lh, busy, tail, pc, boot>>
    BY <1>1 DEF vars, onDisk, cache
  <2>2. TypeOK' /\ BusyInv' /\ HeadInv'
    BY <2>1 DEF LInv, TypeOK, BusyInv, HeadInv, NoRepeat, InTrans, OneTransaction
  <2>3. CacheInv' /\ PhaseInv'
    BY <2>1 DEF LInv, CacheInv, PhaseInv, Installing, Installed
  <2>4. QED
    BY <2>2, <2>3 DEF LInv
<1>2. CASE Crash
  BY <1>2, CrashKeeps
<1>3. CASE Recover
  BY <1>3, ReadHeadKeeps, RecoverInstallKeeps, RecoverEraseKeeps DEF Recover
<1>4. CASE \E b \in Blocks : Load(b) \/ Evict(b)
  BY <1>4, LoadKeeps, EvictKeeps
<1>5. ASSUME NEW p \in Procs, begin_sleep(p) \/ begin_trans(p) \/ log_full(p) \/ CommitStep(p)
      PROVE  LInv'
  BY <1>5, SleepKeeps, BeginKeeps, FullKeeps, HeadKeeps, InstallKeeps, EraseKeeps, EndKeeps
     DEF CommitStep
<1>6. ASSUME NEW p \in Procs, NEW b \in Blocks, NEW v \in Values, log_write(p, b, v)
      PROVE  LInv'
  BY <1>6, WriteKeeps
<1>7. QED
  BY <1>1, <1>2, <1>3, <1>4, <1>5, <1>6, Zenon DEF Next

\* The inductive invariant holds in every reachable state of log.c.
THEOREM LogInvariance == Spec => []LInv
<1>1. Init => LInv
  BY LogInit
<1>2. LInv /\ [Next]_vars => LInv'
  BY LogStep
<1>3. QED
  BY <1>1, <1>2, PTL DEF Spec

\* begin_trans admits one system call at a time, until the end of its commit.
THEOREM TransactionsExclude == Spec => []OneTransaction
<1>1. LInv => OneTransaction
  BY DEF LInv, BusyInv
<1>2. QED
  BY <1>1, LogInvariance, PTL

\* The variables of log.c keep their types; the header never overflows.
THEOREM LogTypeCorrect == Spec => []TypeOK
<1>1. LInv => TypeOK
  BY DEF LInv
<1>2. QED
  BY <1>1, LogInvariance, PTL

-----------------------------------------------------------------------------
(* Refinement *)

Cur == IF boot = "up" THEN View ELSE Recovered

\* With no dirty buffer the file system reads what is on disk.
LEMMA CleanView ==
  ASSUME TypeOK, CacheInv, boot # "panic", dirty = {}
  PROVE  View = disk
<1>1. disk = [b \in Blocks |-> disk[b]]
  BY DEF TypeOK
<1>2. \A b \in Blocks : mem[b] \in {NoData, disk[b]}
  BY DEF CacheInv
<1>3. \A b \in Blocks : (IF mem[b] = NoData THEN disk[b] ELSE mem[b]) = disk[b]
  BY <1>2
<1>4. QED
  BY <1>1, <1>3, Zenon DEF View

\* With an empty header, recovery leaves the home sectors alone.
LEMMA OverlayEmpty ==
  ASSUME NEW l, NEW d \in [Blocks -> Values]
  PROVE  Overlay(<<>>, l, d) = d
<1>1. Len(<<>>) = 0 /\ \A i \in 1 .. Len(<<>>) : FALSE
  OBVIOUS
<1>2. d = [b \in Blocks |-> d[b]]
  OBVIOUS
<1>3. \A b \in Blocks : Overlay(<<>>, l, d)[b] = d[b]
  BY <1>1, Zenon DEF Overlay
<1>4. Overlay(<<>>, l, d) = [b \in Blocks |-> Overlay(<<>>, l, d)[b]]
  BY OverlayFun
<1>5. QED
  BY <1>2, <1>3, <1>4, Zenon

\* Copying a block that the header names leaves the recovered disk as it is.
LEMMA OverlayInstall ==
  ASSUME NEW h \in Seq(Blocks), NEW l, NEW d, NEW d2,
         NEW t \in 1 .. Len(h), \A b \in Blocks : b # h[t] => d2[b] = d[b]
  PROVE  Overlay(h, l, d2) = Overlay(h, l, d)
<1>1. ASSUME NEW b \in Blocks, \A i \in 1 .. Len(h) : h[i] # b
      PROVE  d2[b] = d[b]
  BY <1>1
<1>2. QED
  BY <1>1, Zenon DEF Overlay

\* The process in the transaction is the owner that the abstraction sees.
LEMMA OwnerIs ==
  ASSUME NEW f, NEW p \in Procs, f[p] = "in", \A q \in Procs : f[q] = "in" => q = p
  PROVE  (CHOOSE q \in Procs : f[q] = "in") = p
  BY Zenon

AbsSame == Recovered' = Recovered /\ Cur' = Cur /\ Owner' = Owner

\* The owner does not change while the processes in a transaction do not.
LEMMA OwnerSame ==
  ASSUME boot' = boot,
         \A p \in Procs : pc'[p] = "in" <=> pc[p] = "in"
  PROVE  Owner' = Owner
<1>1. (CHOOSE p \in Procs : pc'[p] = "in") = (CHOOSE p \in Procs : pc[p] = "in")
  BY Zenon
<1>2. QED
  BY <1>1, Zenon DEF Owner

\* Without a process in a transaction nobody is the owner.
LEMMA OwnerNone ==
  /\ (boot # "up" \/ \A p \in Procs : pc[p] # "in") => Owner = NoOne
  /\ (boot' # "up" \/ \A p \in Procs : pc'[p] # "in") => Owner' = NoOne
  BY Zenon DEF Owner

\* The process in a transaction is the owner.
LEMMA OwnerIn ==
  ASSUME NEW p \in Procs
  PROVE  /\ OneTransaction /\ boot = "up" /\ pc[p] = "in" => Owner = p
         /\ OneTransaction' /\ boot' = "up" /\ pc'[p] = "in" => Owner' = p
<1>1. ASSUME OneTransaction, boot = "up", pc[p] = "in" PROVE Owner = p
  <2>1. \A q \in Procs : pc[q] = "in" => q = p
    BY <1>1 DEF OneTransaction, InTrans
  <2>2. (CHOOSE q \in Procs : pc[q] = "in") = p
    BY <1>1, <2>1, OwnerIs
  <2>3. QED
    BY <1>1, <2>2, Zenon DEF Owner
<1>2. ASSUME OneTransaction', boot' = "up", pc'[p] = "in" PROVE Owner' = p
  <2>1. \A q \in Procs : pc'[q] = "in" => q = p
    BY <1>2 DEF OneTransaction, InTrans
  <2>2. (CHOOSE q \in Procs : pc'[q] = "in") = p
    BY <1>2, <2>1, OwnerIs
  <2>3. QED
    BY <1>2, <2>2, Zenon DEF Owner
<1>3. QED
  BY <1>1, <1>2

\* Reading and recycling buffers changes nothing that the file system can see.
LEMMA CacheAbs ==
  ASSUME LInv, NEW b \in Blocks, Load(b) \/ Evict(b)
  PROVE  AbsSame
<1>1. UNCHANGED <<disk, dlog, dhead, pc, boot>> /\ boot = "up"
  BY DEF Load, Evict, onDisk
<1>2. \A c \in Blocks : (IF mem'[c] = NoData THEN disk[c] ELSE mem'[c])
                      = (IF mem[c] = NoData THEN disk[c] ELSE mem[c])
  <2>1. TypeOK /\ CacheInv
    BY DEF LInv
  <2>2. \A c \in Blocks : c # b => mem'[c] = mem[c]
    BY <2>1 DEF Load, Evict, TypeOK
  <2>3. CASE Load(b)
    BY <2>1, <2>2, <2>3 DEF Load, TypeOK
  <2>4. CASE Evict(b)
    <3>1. mem[b] = disk[b] /\ mem'[b] = NoData
      BY <2>1, <2>4 DEF Evict, CacheInv, TypeOK
    <3>2. QED
      BY <2>2, <3>1
  <2>5. QED
    BY <2>3, <2>4
<1>3. View' = View
  BY <1>1, <1>2, Zenon DEF View
<1>4. Recovered' = Recovered
  BY <1>1, Zenon DEF Recovered
<1>5. Owner' = Owner
  BY <1>1, OwnerSame
<1>6. QED
  BY <1>1, <1>3, <1>4, <1>5 DEF AbsSame, Cur

\* Copying a committed block is invisible.
LEMMA InstallAbs ==
  ASSUME LInv, NEW p \in Procs, install_trans(p)
  PROVE  AbsSame
<1>1. /\ boot = "up" /\ pc[p] = "install" /\ InstallBlock
      /\ pc' = [pc EXCEPT ![p] = IF tail = Len(lh) THEN "clear" ELSE "install"]
      /\ UNCHANGED <<dlog, dhead, lh, boot>>
  BY DEF install_trans, InstallBlock, Goto
<1>2. TypeOK /\ HeadInv /\ CacheInv /\ PhaseInv
  BY DEF LInv
<1>3. Installing /\ \A i \in 1 .. Len(lh) : lh[i] \in dirty <=> i >= tail
  BY <1>1, <1>2 DEF PhaseInv
<1>4. /\ lh \in Seq(Blocks) /\ lh = dhead /\ tail \in 1 .. Len(lh)
      /\ disk \in [Blocks -> Values] /\ mem \in [Blocks -> Values \cup {NoData}]
      /\ dlog[tail] \in Values /\ pc \in [Procs -> Places]
  BY <1>2, <1>3, LogAssumption DEF TypeOK, Installing
<1>5. /\ disk' = [disk EXCEPT ![lh[tail]] = dlog[tail]]
      /\ mem' = [mem EXCEPT ![lh[tail]] = dlog[tail]]
  BY <1>1 DEF InstallBlock
<1>6. Recovered' = Recovered
  <2>1. Overlay(lh, dlog, disk') = Overlay(lh, dlog, disk)
    <3>1. \A b \in Blocks : b # lh[tail] => disk'[b] = disk[b]
      BY <1>4, <1>5
    <3>2. QED
      BY <1>4, <3>1, OverlayInstall
  <2>2. QED
    BY <1>1, <1>4, <2>1, Zenon DEF Recovered
<1>7. mem[lh[tail]] = dlog[tail] /\ lh[tail] \in Blocks /\ dlog[tail] # NoData
  BY <1>1, <1>2, <1>3, <1>4, LogAssumption DEF CacheInv
<1>8. \A c \in Blocks : (IF mem'[c] = NoData THEN disk'[c] ELSE mem'[c])
                      = (IF mem[c] = NoData THEN disk[c] ELSE mem[c])
  BY <1>4, <1>5, <1>7
<1>9. View' = View
  BY <1>8, Zenon DEF View
<1>10. Owner' = Owner
  BY <1>1, <1>4, OwnerSame
<1>11. QED
  BY <1>1, <1>6, <1>9, <1>10 DEF AbsSame, Cur

\* With every block copied, erasing the log changes nothing that a recovery
\* would find.
LEMMA ErasedSame ==
  ASSUME TypeOK, HeadInv, Installed, dhead' = <<>>, disk' = disk, dlog' = dlog
  PROVE  Recovered = disk /\ Recovered' = disk
<1>1. dhead \in Seq(Blocks) /\ NoRepeat(dhead) /\ disk \in [Blocks -> Values]
  BY DEF TypeOK, HeadInv
<1>2. \A i \in 1 .. Len(dhead) : disk[dhead[i]] = dlog[i]
  BY DEF Installed
<1>3. disk = [b \in Blocks |-> disk[b]]
  BY <1>1
<1>4. Overlay(dhead, dlog, disk) = disk
  <2>1. \A b \in Blocks : Overlay(dhead, dlog, disk)[b] = disk[b]
    BY <1>1, <1>2, OverlayIs
  <2>2. Overlay(dhead, dlog, disk) = [b \in Blocks |-> Overlay(dhead, dlog, disk)[b]]
    BY OverlayFun
  <2>3. QED
    BY <1>3, <2>1, <2>2, Zenon
<1>5. Overlay(dhead', dlog', disk') = disk
  BY <1>1, OverlayEmpty
<1>6. QED
  BY <1>4, <1>5 DEF Recovered

\* The end of commit_trans is invisible.
LEMMA EraseAbs ==
  ASSUME LInv, NEW p \in Procs, erase(p)
  PROVE  AbsSame
<1>1. /\ boot = "up" /\ pc[p] = "clear" /\ dhead' = <<>>
      /\ pc' = [pc EXCEPT ![p] = "end"]
      /\ UNCHANGED <<disk, dlog, mem, boot>>
  BY DEF erase, EraseLog, Goto, cache
<1>2. TypeOK /\ HeadInv /\ Installed /\ pc \in [Procs -> Places]
  BY <1>1 DEF LInv, PhaseInv, TypeOK
<1>3. Recovered' = Recovered
  BY <1>1, <1>2, ErasedSame
<1>4. View' = View
  BY <1>1, Zenon DEF View
<1>5. Owner' = Owner
  BY <1>1, <1>2, OwnerSame
<1>6. QED
  BY <1>1, <1>3, <1>4, <1>5 DEF AbsSame, Cur

\* Waiting for a transaction, and ending one, are invisible.
LEMMA SleepEndAbs ==
  ASSUME LInv, NEW p \in Procs, begin_sleep(p) \/ end_trans(p)
  PROVE  AbsSame
<1>1. boot = "up" /\ UNCHANGED <<disk, dlog, dhead, mem, boot>>
  BY DEF begin_sleep, end_trans, onDisk, cache
<1>2. pc \in [Procs -> Places]
  BY DEF LInv, TypeOK
<1>3. \A q \in Procs : pc'[q] = "in" <=> pc[q] = "in"
  BY <1>2 DEF begin_sleep, end_trans, Goto
<1>4. Recovered' = Recovered /\ View' = View
  BY <1>1, Zenon DEF Recovered, View
<1>5. QED
  BY <1>1, <1>3, <1>4, OwnerSame DEF AbsSame, Cur

\* Recovery is invisible: what it leads to is what it started from.
LEMMA RecoverAbs ==
  ASSUME LInv, Recover
  PROVE  AbsSame
<1>1. TypeOK /\ HeadInv /\ CacheInv /\ PhaseInv
  BY DEF LInv
<1>2. boot # "up" /\ pc' = pc /\ dlog' = dlog
  BY DEF Recover, read_head, recover_install, recover_erase, InstallBlock, EraseLog, onDisk
<1>3. \A p \in Procs : pc[p] = "out"
  BY <1>2 DEF LInv, BusyInv, Recover, read_head, recover_install, recover_erase
<1>4. Owner' = Owner
  BY <1>2, <1>3, OwnerNone
<1>5. CASE read_head
  <2>1. Recovered' = Recovered /\ boot' # "up"
    BY <1>5, Zenon DEF read_head, Recovered, onDisk
  <2>2. QED
    BY <1>2, <1>4, <2>1 DEF AbsSame, Cur
<1>6. CASE recover_install
  <2>1. Installing /\ boot' # "up" /\ dhead' = dhead
    BY <1>1, <1>6 DEF recover_install, PhaseInv, InstallBlock
  <2>2. /\ lh \in Seq(Blocks) /\ lh = dhead /\ tail \in 1 .. Len(lh)
        /\ disk \in [Blocks -> Values]
    BY <1>1, <2>1 DEF TypeOK, Installing
  <2>3. disk' = [disk EXCEPT ![lh[tail]] = dlog[tail]]
    BY <1>6 DEF recover_install, InstallBlock
  <2>4. Overlay(lh, dlog, disk') = Overlay(lh, dlog, disk)
    <3>1. \A b \in Blocks : b # lh[tail] => disk'[b] = disk[b]
      BY <2>2, <2>3
    <3>2. QED
      BY <2>2, <3>1, OverlayInstall
  <2>5. Recovered' = Recovered
    BY <1>2, <2>1, <2>2, <2>4, Zenon DEF Recovered
  <2>6. QED
    BY <1>2, <1>4, <2>1, <2>5 DEF AbsSame, Cur
<1>7. CASE recover_erase
  <2>1. /\ boot = "clear" /\ boot' = "up" /\ dhead' = <<>>
        /\ UNCHANGED <<disk, dlog, mem, dirty>>
    BY <1>7 DEF recover_erase, EraseLog, cache
  <2>2. Installed
    BY <1>1, <2>1 DEF PhaseInv
  <2>3. Recovered = disk /\ Recovered' = disk
    BY <1>1, <2>1, <2>2, ErasedSame
  <2>4. View = disk
    BY <1>1, <2>1, <2>2, CleanView DEF Installed
  <2>5. View' = View
    BY <2>1, Zenon DEF View
  <2>6. QED
    BY <1>2, <1>4, <2>1, <2>3, <2>4, <2>5 DEF AbsSame, Cur
<1>8. QED
  BY <1>5, <1>6, <1>7 DEF Recover

\* A crash, and the panic of log_write, lose the transaction and nothing else.
LEMMA CrashAbs ==
  ASSUME LInv, Crash \/ \E p \in Procs : log_full(p)
  PROVE  Recovered' = Recovered /\ Cur' = Recovered /\ Owner' = NoOne
<1>1. boot' # "up" /\ UNCHANGED <<disk, dlog, dhead>>
  BY DEF Crash, log_full, onDisk
<1>2. Recovered' = Recovered
  BY <1>1, Zenon DEF Recovered
<1>3. QED
  BY <1>1, <1>2, OwnerNone DEF Cur

\* begin_trans makes the process the owner.
LEMMA BeginAbs ==
  ASSUME LInv, LInv', NEW p \in Procs, begin_trans(p)
  PROVE  Owner = NoOne /\ Owner' = p /\ Recovered' = Recovered /\ Cur' = Cur
<1>1. /\ boot = "up" /\ ~busy /\ pc' = [pc EXCEPT ![p] = "in"]
      /\ UNCHANGED <<disk, dlog, dhead, mem, boot>>
  BY DEF begin_trans, onDisk, cache, Goto
<1>2. \A q \in Procs : pc[q] # "in"
  BY <1>1 DEF LInv, BusyInv, InTrans
<1>3. pc \in [Procs -> Places] /\ OneTransaction'
  BY DEF LInv, TypeOK, BusyInv
<1>4. Owner = NoOne /\ Owner' = p
  BY <1>1, <1>2, <1>3, OwnerNone, OwnerIn
<1>5. Recovered' = Recovered /\ View' = View
  BY <1>1, Zenon DEF Recovered, View
<1>6. QED
  BY <1>1, <1>4, <1>5 DEF Cur

\* log_write changes what the file system reads and not what survives a crash.
LEMMA WriteAbs ==
  ASSUME LInv, LInv', NEW p \in Procs, NEW b \in Blocks, NEW v \in Values, log_write(p, b, v)
  PROVE  Owner = p /\ Owner' = p /\ Recovered' = Recovered /\ Cur' = [Cur EXCEPT ![b] = v]
<1>1. /\ boot = "up" /\ pc[p] = "in" /\ mem' = [mem EXCEPT ![b] = v]
      /\ UNCHANGED <<disk, dhead, pc, boot>>
  BY DEF log_write
<1>2. TypeOK /\ OneTransaction /\ OneTransaction' /\ PhaseInv
  BY DEF LInv, BusyInv
<1>3. dhead = <<>> /\ disk \in [Blocks -> Values] /\ mem \in [Blocks -> Values \cup {NoData}]
  BY <1>1, <1>2 DEF PhaseInv, TypeOK
<1>4. Recovered = disk /\ Recovered' = disk
  BY <1>1, <1>3, OverlayEmpty DEF Recovered
<1>5. Owner = p /\ Owner' = p
  BY <1>1, <1>2, OwnerIn
<1>6. View' = [View EXCEPT ![b] = v]
  BY <1>1, <1>3, LogAssumption, Zenon DEF View
<1>7. QED
  BY <1>1, <1>4, <1>5, <1>6 DEF Cur

\* write_head makes what the file system reads survive, all at once.
LEMMA HeadAbs ==
  ASSUME LInv, LInv', NEW p \in Procs, write_head(p)
  PROVE  Owner = p /\ Owner' = NoOne /\ Recovered' = Cur /\ Cur' = Cur
<1>1. /\ boot = "up" /\ pc[p] = "in" /\ dhead' = lh
      /\ pc' = [pc EXCEPT ![p] = IF lh = <<>> THEN "end" ELSE "install"]
      /\ UNCHANGED <<disk, dlog, mem, lh, boot>>
  BY DEF write_head, cache, Goto
<1>2. TypeOK /\ OneTransaction /\ HeadInv /\ CacheInv /\ PhaseInv
  BY DEF LInv, BusyInv
<1>3. pc \in [Procs -> Places] /\ lh \in Seq(Blocks) /\ NoRepeat(lh) /\ dlog \in [1 .. LOGSIZE -> Values]
  BY <1>2 DEF TypeOK, HeadInv
<1>4. Owner = p
  BY <1>1, <1>2, OwnerIn
<1>5. \A q \in Procs : pc'[q] # "in"
  BY <1>1, <1>2, <1>3 DEF OneTransaction, InTrans
<1>6. Owner' = NoOne
  BY <1>5, OwnerNone
<1>7. \A i \in 1 .. Len(lh) : lh[i] \in Blocks /\ lh[i] \in dirty /\ mem[lh[i]] = dlog[i]
  BY <1>1, <1>2, <1>3 DEF PhaseInv, CacheInv
<1>8. \A i \in 1 .. Len(lh) : dlog[i] # NoData
  BY <1>2, <1>3, LogAssumption DEF TypeOK
<1>9. \A i \in 1 .. Len(lh) : View[lh[i]] = dlog[i]
  BY <1>7, <1>8 DEF View
<1>10. \A c \in Blocks : (\A i \in 1 .. Len(lh) : lh[i] # c) => View[c] = disk[c]
  <2>1. ASSUME NEW c \in Blocks, \A i \in 1 .. Len(lh) : lh[i] # c PROVE View[c] = disk[c]
    <3>1. c \notin dirty
      BY <1>1, <1>2, <2>1 DEF CacheInv
    <3>2. mem[c] \in {NoData, disk[c]}
      BY <1>1, <1>2, <3>1 DEF CacheInv
    <3>3. QED
      BY <3>2 DEF View
  <2>2. QED
    BY <2>1
<1>11. View = [c \in Blocks |-> View[c]]
  BY Zenon DEF View
<1>12. Overlay(lh, dlog, disk) = View
  <2>1. \A c \in Blocks : Overlay(lh, dlog, disk)[c] = View[c]
    <3>1. ASSUME NEW c \in Blocks, \A i \in 1 .. Len(lh) : lh[i] # c
          PROVE  Overlay(lh, dlog, disk)[c] = View[c]
      <4>1. Overlay(lh, dlog, disk)[c] = disk[c]
        BY <3>1, OverlayOut
      <4>2. QED
        BY <1>10, <3>1, <4>1
    <3>2. ASSUME NEW i \in 1 .. Len(lh)
          PROVE  Overlay(lh, dlog, disk)[lh[i]] = View[lh[i]]
      <4>1. lh \in Seq(Blocks) /\ NoRepeat(lh)
        BY <1>3
      <4>2. Overlay(lh, dlog, disk)[lh[i]] = dlog[i]
        BY <4>1, <3>2, OverlayIn
      <4>3. QED
        BY <1>9, <4>2
    <3>3. QED
      BY <3>1, <3>2, Zenon
  <2>2. Overlay(lh, dlog, disk) = [c \in Blocks |-> Overlay(lh, dlog, disk)[c]]
    BY OverlayFun
  <2>3. QED
    BY <1>11, <2>1, <2>2, Zenon
<1>13. Recovered' = View
  BY <1>1, <1>12, Zenon DEF Recovered
<1>14. View' = View
  BY <1>1, Zenon DEF View
<1>15. QED
  BY <1>1, <1>4, <1>6, <1>13, <1>14 DEF Cur

\* Every step of the log is a step of the atomic disk, or invisible.
LEMMA LogRefines ==
  LInv /\ LInv' /\ [Next]_vars => [Abstract!Next]_(Abstract!absVars)
<1> SUFFICES ASSUME LInv, LInv', [Next]_vars
             PROVE  Abstract!Next \/ UNCHANGED <<Recovered, Cur, Owner>>
  BY DEF Abstract!absVars, Cur
<1>1. ASSUME AbsSame PROVE UNCHANGED <<Recovered, Cur, Owner>>
  BY <1>1 DEF AbsSame
<1>2. CASE UNCHANGED vars
  <2>1. UNCHANGED <<disk, dlog, dhead, mem, pc, boot>>
    BY <1>2 DEF vars, onDisk, cache
  <2>2. QED
    BY <2>1, Zenon DEF Recovered, Cur, View, Owner
<1>3. CASE Crash \/ \E p \in Procs : log_full(p)
  <2>1. Recovered' = Recovered /\ Cur' = Recovered /\ Owner' = NoOne
    BY <1>3, CrashAbs
  <2>2. Abstract!Crash
    BY <2>1 DEF Abstract!Crash, Cur
  <2>3. QED
    BY <2>2 DEF Abstract!Next
<1>4. CASE Recover
  BY <1>1, <1>4, RecoverAbs
<1>5. CASE \E b \in Blocks : Load(b) \/ Evict(b)
  BY <1>1, <1>5, CacheAbs
<1>6. ASSUME NEW p \in Procs, begin_sleep(p) \/ install_trans(p) \/ erase(p) \/ end_trans(p)
      PROVE  UNCHANGED <<Recovered, Cur, Owner>>
  BY <1>1, <1>6, SleepEndAbs, InstallAbs, EraseAbs
<1>7. ASSUME NEW p \in Procs, begin_trans(p) PROVE Abstract!Next
  <2>1. Owner = NoOne /\ Owner' = p /\ Recovered' = Recovered /\ Cur' = Cur
    BY <1>7, BeginAbs
  <2>2. Abstract!Begin(p)
    BY <2>1 DEF Abstract!Begin, Cur
  <2>3. QED
    BY <2>2 DEF Abstract!Next
<1>8. ASSUME NEW p \in Procs, write_head(p) PROVE Abstract!Next
  <2>1. Owner = p /\ Owner' = NoOne /\ Recovered' = Cur /\ Cur' = Cur
    BY <1>8, HeadAbs
  <2>2. Abstract!Commit(p)
    BY <2>1 DEF Abstract!Commit, Cur
  <2>3. QED
    BY <2>2 DEF Abstract!Next
<1>9. ASSUME NEW p \in Procs, NEW b \in Blocks, NEW v \in Values, log_write(p, b, v)
      PROVE  Abstract!Next
  <2>1. Owner = p /\ Owner' = p /\ Recovered' = Recovered /\ Cur' = [Cur EXCEPT ![b] = v]
    BY <1>9, WriteAbs
  <2>2. Abstract!Write(p, b, v)
    BY <2>1 DEF Abstract!Write, Cur
  <2>3. QED
    BY <2>2 DEF Abstract!Next
<1>10. QED
  BY <1>2, <1>3, <1>4, <1>5, <1>6, <1>7, <1>8, <1>9, Zenon DEF Next, CommitStep

\* The log implements the atomic disk: whatever the number of processes, blocks
\* and log blocks, and wherever crashes come, recovery included, the writes of
\* a transaction survive all together or not at all.
THEOREM LogIsAtomic == Spec => Atomic
<1>1. Init => Abstract!Init
  <2> SUFFICES ASSUME Init PROVE Abstract!Init
    OBVIOUS
  <2>1. dhead = <<>> /\ disk \in [Blocks -> Values] /\ boot = "read"
    BY DEF Init
  <2>2. Recovered = disk
    BY <2>1, OverlayEmpty DEF Recovered
  <2>3. Owner = NoOne
    BY <2>1, OwnerNone
  <2>4. QED
    BY <2>1, <2>2, <2>3 DEF Abstract!Init
<1>2. LInv /\ LInv' /\ [Next]_vars => [Abstract!Next]_(Abstract!absVars)
  BY LogRefines
<1>3. QED
  BY <1>1, <1>2, LogInvariance, PTL DEF Spec, Atomic, Abstract!Spec
=============================================================================
