----------------------------- MODULE PipeProofs -----------------------------
(***************************************************************************)
(* Proofs about Pipe, for every number of processes, every size of the     *)
(* ring and every width of the counters that the size divides.             *)
(***************************************************************************)
EXTENDS Pipe, Integers, TLAPS

\* The invariants are long formulas: the provers get more time for them.
USE SMTT(30), ZenonT(30)

-----------------------------------------------------------------------------
(* Sequences of bytes *)

\* A sequence is a function on 1 to its length.
LEMMA LenProperties ==
  ASSUME NEW S, NEW s \in Seq(S)
  PROVE  Len(s) \in Nat /\ s \in [1 .. Len(s) -> S] /\ DOMAIN s = 1 .. Len(s)
  OBVIOUS

\* The elements of a sequence.
LEMMA ElementOfSeq ==
  ASSUME NEW S, NEW s \in Seq(S), NEW j \in 1 .. Len(s)
  PROVE  s[j] \in S
  OBVIOUS

\* Sequences with the same elements are equal.
LEMMA SeqEqual ==
  ASSUME NEW S, NEW s \in Seq(S), NEW t \in Seq(S), Len(s) = Len(t),
         \A i \in 1 .. Len(s) : s[i] = t[i]
  PROVE  s = t
  OBVIOUS

\* One sequence after another.
LEMMA ConcatProperties ==
  ASSUME NEW S, NEW s \in Seq(S), NEW t \in Seq(S)
  PROVE  /\ s \o t \in Seq(S) /\ Len(s \o t) = Len(s) + Len(t)
         /\ \A i \in 1 .. Len(s) + Len(t) :
              (s \o t)[i] = IF i <= Len(s) THEN s[i] ELSE t[i - Len(s)]
  OBVIOUS

\* A part of a sequence.
LEMMA SubSeqProperties ==
  ASSUME NEW S, NEW s, NEW lo \in Int, NEW hi \in Int, \A i \in lo .. hi : s[i] \in S
  PROVE  /\ SubSeq(s, lo, hi) \in Seq(S)
         /\ Len(SubSeq(s, lo, hi)) = (IF lo <= hi THEN hi - lo + 1 ELSE 0)
         /\ \A i \in 1 .. hi - lo + 1 : SubSeq(s, lo, hi)[i] = s[lo + i - 1]
  OBVIOUS

\* No part of a sequence.
LEMMA SubSeqEmpty ==
  ASSUME NEW s, NEW lo \in Int, NEW hi \in Int, hi < lo
  PROVE  SubSeq(s, lo, hi) = <<>>
  OBVIOUS

-----------------------------------------------------------------------------
(* Counters that wrap around *)

\* Division with remainder.
LEMMA DivMod ==
  ASSUME NEW x \in Nat, NEW m \in Nat \ {0}
  PROVE  x = m * (x \div m) + (x % m) /\ x % m \in 0 .. m - 1 /\ x \div m \in Nat
  OBVIOUS

\* Only one multiple of m lies strictly between -m and m.
LEMMA SmallMultiple ==
  ASSUME NEW m \in Nat \ {0}, NEW d \in Int, m * d < m, -m < m * d
  PROVE  d = 0
  OBVIOUS

\* The remainder is unique.
LEMMA ModUnique ==
  ASSUME NEW m \in Nat \ {0}, NEW c \in Int, NEW r \in 0 .. m - 1, NEW x \in Nat, x = m * c + r
  PROVE  x % m = r
<1>1. x = m * (x \div m) + (x % m) /\ x % m \in 0 .. m - 1 /\ x \div m \in Int
  BY DivMod
<1>. DEFINE d == (x \div m) - c
<1>2. m * d = r - (x % m)
  BY <1>1
<1>3. d = 0
  BY <1>1, <1>2, SmallMultiple
<1>. QED
  BY <1>1, <1>3

\* Multiples of m do not change the remainder.
LEMMA ModShift ==
  ASSUME NEW m \in Nat \ {0}, NEW c \in Nat, NEW x \in Nat
  PROVE  (x + m * c) % m = x % m
<1>. DEFINE d == (x \div m) + c
            r == x % m
<1>1. x = m * (x \div m) + (x % m) /\ x % m \in 0 .. m - 1 /\ x \div m \in Nat
  BY DivMod, Zenon
<1>2. x + m * c = m * d + r /\ d \in Int /\ r \in 0 .. m - 1 /\ x + m * c \in Nat
  BY <1>1
<1>. HIDE DEF d
<1>. QED
  BY <1>2, ModUnique, Zenon

\* Less than m apart, and the same remainder: the same number.
LEMMA ModApart ==
  ASSUME NEW m \in Nat \ {0}, NEW x \in Nat, NEW y \in Nat, x <= y, y < x + m, x % m = y % m
  PROVE  x = y
<1>1. x = m * (x \div m) + (x % m) /\ (x \div m) \in Int
  BY DivMod
<1>2. y = m * (y \div m) + (y % m) /\ (y \div m) \in Int
  BY DivMod
<1>. DEFINE d == (y \div m) - (x \div m)
<1>3. m * d = y - x /\ d \in Int
  BY <1>1, <1>2
<1>. HIDE DEF d
<1>4. d = 0
  BY <1>3, SmallMultiple
<1>. QED
  BY <1>3, <1>4

\* A number below the modulus, and the counter one turn on.
LEMMA ModTurn ==
  ASSUME NEW m \in Nat \ {0}, NEW x \in 0 .. m - 1
  PROVE  x % m = x /\ (x + m) % m = x
  BY ModUnique

\* The unsigned difference of two counters.
LEMMA Difference ==
  ASSUME NEW m \in Nat \ {0}, NEW a \in 0 .. m - 1, NEW b \in 0 .. m - 1
  PROVE  (a + m - b) % m = IF b <= a THEN a - b ELSE a + m - b
<1>1. CASE b <= a
  <2>1. a - b \in 0 .. m - 1 /\ a + m - b = (a - b) + m
    BY <1>1
  <2>2. ((a - b) + m) % m = a - b
    BY <2>1, ModTurn
  <2>. QED
    BY <1>1, <2>1, <2>2
<1>2. CASE ~(b <= a)
  <2>1. a + m - b \in 0 .. m - 1
    BY <1>2
  <2>2. (a + m - b) % m = a + m - b
    BY <2>1, ModTurn
  <2>. QED
    BY <1>2, <2>2
<1>. QED
  BY <1>1, <1>2

\* A counter advanced by k wraps around at most once.
LEMMA Advance ==
  ASSUME NEW m \in Nat \ {0}, NEW a \in 0 .. m - 1, NEW k \in 0 .. m - 1
  PROVE  /\ (a + k) % m = IF a + k < m THEN a + k ELSE a + k - m
         /\ (a + k) % m \in 0 .. m - 1
<1>1. CASE a + k < m
  <2>1. a + k \in 0 .. m - 1
    BY <1>1
  <2>. QED
    BY <1>1, <2>1, ModTurn, Zenon
<1>2. CASE ~(a + k < m)
  <2>1. a + k - m \in 0 .. m - 1 /\ (a + k - m) + m = a + k
    BY <1>2
  <2>2. ((a + k - m) + m) % m = a + k - m
    BY <2>1, ModTurn
  <2>. QED
    BY <1>2, <2>1, <2>2
<1>. QED
  BY <1>1, <1>2

\* A counter that wraps around still names the right place in the ring, because
\* PIPESIZE divides 2^32.
LEMMA IndexWraps ==
  ASSUME NEW a \in 0 .. WORD - 1, NEW k \in 0 .. WORD - 1, NEW x \in Nat
  PROVE  (((a + k) % WORD) + x) % PIPESIZE = (a + k + x) % PIPESIZE
<1>1. PIPESIZE \in Nat \ {0} /\ WORD \in Nat \ {0} /\ WORD % PIPESIZE = 0
  BY PipeAssumption
<1>2. PICK c \in Nat : WORD = PIPESIZE * c
  <2>1. WORD = PIPESIZE * (WORD \div PIPESIZE) + (WORD % PIPESIZE) /\ WORD \div PIPESIZE \in Nat
    BY <1>1, DivMod
  <2>2. PIPESIZE * (WORD \div PIPESIZE) \in Nat
    BY <1>1, <2>1
  <2>. QED
    BY <1>1, <2>1, <2>2
<1>3. CASE a + k < WORD
  <2>1. (a + k) % WORD = a + k
    BY <1>1, <1>3, Advance, Zenon
  <2>. QED
    BY <2>1
<1>4. CASE ~(a + k < WORD)
  <2>1. (a + k) % WORD = a + k - WORD
    BY <1>1, <1>4, Advance, Zenon
  <2>2. a + k - WORD + x \in Nat /\ (a + k - WORD + x) + PIPESIZE * c = a + k + x
    BY <1>1, <1>2, <1>4
  <2>3. ((a + k - WORD + x) + PIPESIZE * c) % PIPESIZE = (a + k - WORD + x) % PIPESIZE
    BY <1>1, <2>2, ModShift, Zenon
  <2>. QED
    BY <2>1, <2>2, <2>3
<1>. QED
  BY <1>3, <1>4

-----------------------------------------------------------------------------
(* The inductive invariant *)

\* No more bytes wait than the ring holds.
RingInv == Count <= PIPESIZE

\* An end that a process has open, or is closing, is open in the pipe; who
\* closes an end was the last to have it; the page lives while an end is open.
EndsInv ==
  /\ live = (readopen \/ writeopen)
  /\ \A p \in Procs : /\ "r" \in holds[p] \/ closing[p] = "r" => readopen
                      /\ "w" \in holds[p] \/ closing[p] = "w" => writeopen
                      /\ pc[p] = "close" <=> closing[p] # "none"
  /\ \A p, q \in Procs : closing[p] # "none" =>
       closing[p] \notin holds[q] /\ (closing[p] = closing[q] => p = q)

\* Who is in piperead has the read end open, who is in pipewrite the write end;
\* nobody else has bytes left to write.
WhereInv ==
  \A p \in Procs : /\ pc[p] \in {"read", "rcheck", "rsleep"} => "r" \in holds[p]
                   /\ pc[p] \in {"write", "wcheck", "wsleep"} => "w" \in holds[p]
                   /\ pc[p] \notin {"write", "wcheck", "wsleep"} => rest[p] = <<>>

\* A writer that sleeps, or is about to, found the ring full and a reader; a
\* reader that does has a writer.
SleepInv ==
  \A p \in Procs : /\ pc[p] \in {"wcheck", "wsleep"} => Full /\ readopen
                   /\ pc[p] \in {"rcheck", "rsleep"} => writeopen

PInv == TypeOK /\ RingInv /\ EndsInv /\ WhereInv /\ SleepInv

\* What the invariant says of the counters.
LEMMA CountFacts ==
  ASSUME TypeOK
  PROVE  /\ WORD \in Nat \ {0} /\ PIPESIZE \in Nat \ {0} /\ PIPESIZE < WORD
         /\ nread \in 0 .. WORD - 1 /\ nwrite \in 0 .. WORD - 1
         /\ Count = (IF nread <= nwrite THEN nwrite - nread ELSE nwrite + WORD - nread)
         /\ Count \in 0 .. WORD - 1
<1>1. /\ WORD \in Nat \ {0} /\ PIPESIZE \in Nat \ {0} /\ PIPESIZE < WORD
      /\ nread \in 0 .. WORD - 1 /\ nwrite \in 0 .. WORD - 1
  BY PipeAssumption DEF TypeOK
<1>2. Count = (IF nread <= nwrite THEN nwrite - nread ELSE nwrite + WORD - nread)
  BY <1>1, Difference DEF Count
<1>. QED
  BY <1>1, <1>2

\* The test of pipewrite for a full ring compares the counters.
LEMMA FullCount ==
  ASSUME NEW r \in 0 .. WORD - 1, NEW w \in 0 .. WORD - 1
  PROVE  w = (r + PIPESIZE) % WORD <=> (w + WORD - r) % WORD = PIPESIZE
<1>1. /\ WORD \in Nat \ {0} /\ PIPESIZE \in Nat \ {0} /\ PIPESIZE < WORD
      /\ PIPESIZE \in 0 .. WORD - 1
  BY PipeAssumption
<1>2. (w + WORD - r) % WORD = IF r <= w THEN w - r ELSE w + WORD - r
  BY <1>1, Difference
<1>3. (r + PIPESIZE) % WORD = IF r + PIPESIZE < WORD THEN r + PIPESIZE ELSE r + PIPESIZE - WORD
  BY <1>1, Advance, Zenon
<1>4. w = (IF r + PIPESIZE < WORD THEN r + PIPESIZE ELSE r + PIPESIZE - WORD)
      <=> (IF r <= w THEN w - r ELSE w + WORD - r) = PIPESIZE
  BY <1>1
<1>. QED
  BY <1>2, <1>3, <1>4

\* pipewrite's loop advances nwrite by what it put in.
LEMMA PutCount ==
  ASSUME TypeOK, NEW p \in Procs, NEW k \in Nat, Count + k <= PIPESIZE, Put(p, k)
  PROVE  nwrite' \in 0 .. WORD - 1 /\ nread' = nread /\ Count' = Count + k
<1>1. k \in 0 .. WORD - 1
  BY CountFacts
<1>2. /\ nwrite' = IF nwrite + k < WORD THEN nwrite + k ELSE nwrite + k - WORD
      /\ nwrite' \in 0 .. WORD - 1 /\ nread' = nread
  BY <1>1, CountFacts, Advance, Zenon DEF Put
<1>3. Count' = IF nread <= nwrite' THEN nwrite' - nread ELSE nwrite' + WORD - nread
  BY <1>2, CountFacts, Difference, Zenon DEF Count
<1>. QED
  BY <1>2, <1>3, CountFacts

\* The ring keeps its type.
LEMMA PutType ==
  ASSUME TypeOK, NEW p \in Procs, NEW k \in Nat, k <= Len(rest[p]), Put(p, k)
  PROVE  data' \in [0 .. PIPESIZE - 1 -> Bytes]
<1>1. rest[p] \in Seq(Bytes) /\ Len(rest[p]) \in Nat /\ data \in [0 .. PIPESIZE - 1 -> Bytes]
  BY DEF TypeOK
<1>2. \A i \in 1 .. k : rest[p][i] \in Bytes
  BY <1>1
<1>3. ASSUME NEW j \in 0 .. PIPESIZE - 1
      PROVE  (IF \E i \in 1 .. k : (nwrite + i - 1) % PIPESIZE = j
              THEN rest[p][CHOOSE i \in 1 .. k : (nwrite + i - 1) % PIPESIZE = j]
              ELSE data[j]) \in Bytes
  <2>. DEFINE at == CHOOSE i \in 1 .. k : (nwrite + i - 1) % PIPESIZE = j
  <2>1. CASE \E i \in 1 .. k : (nwrite + i - 1) % PIPESIZE = j
    <3>1. at \in 1 .. k
      BY Zenon, <2>1
    <3>. HIDE DEF at
    <3>2. rest[p][at] \in Bytes
      BY <1>2, <3>1
    <3>. QED
      BY <2>1, <3>2 DEF at
  <2>2. CASE ~ \E i \in 1 .. k : (nwrite + i - 1) % PIPESIZE = j
    BY <1>1, <2>2
  <2>. QED
    BY <2>1, <2>2
<1>. QED
  BY <1>3, Zenon DEF Put

\* piperead takes at most what there is.
LEMMA ReadCount ==
  ASSUME TypeOK, NEW p \in Procs, piperead(p)
  PROVE  \E k \in 0 .. Count :
           /\ k = Least(n[p], Count)
           /\ nread' = (nread + k) % WORD /\ nread' \in 0 .. WORD - 1 /\ nwrite' = nwrite
           /\ Count' = Count - k
           /\ got' = [i \in 1 .. k |-> data[(nread + i - 1) % PIPESIZE]]
<1>. DEFINE k == Least(n[p], Count)
<1>0. n[p] \in Nat
  <2>1. n[p] \in Counts \cup {0}
    BY DEF TypeOK
  <2>2. \A x \in Counts \cup {0} : x \in Nat
    BY PipeAssumption
  <2>. QED
    BY Zenon, <2>1, <2>2
<1>1. k \in 0 .. Count /\ k \in 0 .. WORD - 1
  BY <1>0, CountFacts DEF Least
<1>2. /\ nread' = (nread + k) % WORD /\ nwrite' = nwrite
      /\ got' = [i \in 1 .. k |-> data[(nread + i - 1) % PIPESIZE]]
  BY DEF piperead
<1>. HIDE DEF k
<1>3. /\ nread' = IF nread + k < WORD THEN nread + k ELSE nread + k - WORD
      /\ nread' \in 0 .. WORD - 1
  BY <1>1, <1>2, CountFacts, Advance, Zenon
<1>4. Count' = IF nread' <= nwrite THEN nwrite - nread' ELSE nwrite + WORD - nread'
  BY <1>2, <1>3, CountFacts, Difference, Zenon DEF Count
<1>5. Count' = Count - k
  BY <1>1, <1>3, <1>4, CountFacts
<1>. QED
  BY <1>1, <1>2, <1>3, <1>5 DEF k

\* The k bytes of the ring d that are read from a counter r on.
ReadFrom(d, r, k) == [i \in 1 .. k |-> d[(r + i - 1) % PIPESIZE]]

\* They are a sequence of bytes.
LEMMA ReadType ==
  ASSUME NEW d \in [0 .. PIPESIZE - 1 -> Bytes], NEW r \in Nat, NEW k \in Nat
  PROVE  /\ ReadFrom(d, r, k) \in Seq(Bytes) /\ Len(ReadFrom(d, r, k)) = k
         /\ \A i \in 1 .. k : ReadFrom(d, r, k)[i] = d[(r + i - 1) % PIPESIZE]
<1>. DEFINE s == ReadFrom(d, r, k)
<1>1. ASSUME NEW i \in 1 .. k PROVE d[(r + i - 1) % PIPESIZE] \in Bytes
  <2>1. r + i - 1 \in Nat /\ PIPESIZE \in Nat \ {0}
    BY PipeAssumption
  <2>2. (r + i - 1) % PIPESIZE \in 0 .. PIPESIZE - 1
    BY <2>1, DivMod
  <2>. QED
    BY <2>2
<1>2. s \in Seq(Bytes)
  BY <1>1 DEF ReadFrom
<1>3. DOMAIN s = 1 .. k /\ \A i \in 1 .. k : s[i] = d[(r + i - 1) % PIPESIZE]
  BY DEF ReadFrom
<1>. HIDE DEF s
<1>4. Len(s) = k
  BY <1>2, <1>3, LenProperties
<1>. QED
  BY <1>2, <1>3, <1>4 DEF s

-----------------------------------------------------------------------------
(* The steps *)

\* A step that leaves the counters alone leaves the bytes in the pipe alone.
LEMMA RingFrame ==
  ASSUME UNCHANGED <<nread, nwrite>>
  PROVE  Count' = Count /\ Full' = Full
  BY DEF Count, Full

\* Entering the kernel, going to sleep, and kill() keep the invariant.
LEMMA MoveKeeps ==
  ASSUME PInv, NEW p \in Procs,
         \/ read(p) \/ write(p) \/ piperead_empty(p) \/ piperead_sleep(p) \/ pipewrite_sleep(p)
  PROVE  PInv'
<1>1. /\ UNCHANGED <<ring, ends, killed, got>>
      /\ \E x \in Places : pc' = [pc EXCEPT ![p] = x]
      /\ n' \in [Procs -> Counts \cup {0}] /\ rest' \in [Procs -> Seq(Bytes)]
  <2>1. n \in [Procs -> Counts \cup {0}] /\ rest \in [Procs -> Seq(Bytes)]
    BY DEF PInv, TypeOK
  <2>2. Addrs \subseteq Seq(Bytes)
    BY PipeAssumption
  <2>3. CASE read(p)
    BY <2>1, <2>3 DEF read, Goto, Places
  <2>4. CASE write(p)
    BY <2>1, <2>2, <2>4 DEF write, Goto, Places
  <2>5. CASE piperead_empty(p)
    BY <2>1, <2>5 DEF piperead_empty, Goto, Places
  <2>6. CASE piperead_sleep(p) \/ pipewrite_sleep(p)
    BY <2>1, <2>6 DEF piperead_sleep, pipewrite_sleep, Goto, Places, calls
  <2>. QED
    BY <2>3, <2>4, <2>5, <2>6
<1>2. /\ UNCHANGED <<data, nread, nwrite, readopen, writeopen, live, holds, closing, killed, got>>
      /\ Count' = Count /\ Full' = Full
  BY <1>1, RingFrame DEF ring, ends
<1>3. TypeOK'
  BY <1>1, <1>2, Zenon DEF PInv, TypeOK
<1>4. RingInv'
  BY <1>2 DEF PInv, RingInv
<1>5. /\ pc \in [Procs -> Places] /\ \A q \in Procs \ {p} : pc'[q] = pc[q]
      /\ pc[p] # "close" /\ pc'[p] # "close"
      /\ pc'[p] \in {"read", "rcheck", "rsleep"} => "r" \in holds[p]
      /\ pc'[p] \in {"write", "wcheck", "wsleep"} => "w" \in holds[p]
      /\ pc'[p] \in {"wcheck", "wsleep"} => Full /\ readopen
      /\ pc'[p] \in {"rcheck", "rsleep"} => writeopen
  BY Zenon DEF PInv, TypeOK, WhereInv, SleepInv, read, write, piperead_empty, piperead_sleep,
     pipewrite_sleep, Goto
<1>8. /\ pc'[p] \notin {"write", "wcheck", "wsleep"} => rest'[p] = <<>>
      /\ \A q \in Procs \ {p} : rest'[q] = rest[q]
  BY DEF PInv, TypeOK, WhereInv, read, write, piperead_empty, piperead_sleep,
     pipewrite_sleep, Goto, calls
<1>6. EndsInv'
  BY <1>2, <1>5 DEF PInv, EndsInv
<1>7. WhereInv' /\ SleepInv'
  BY <1>2, <1>5, <1>8 DEF PInv, WhereInv, SleepInv
<1>. QED
  BY <1>3, <1>4, <1>6, <1>7 DEF PInv

\* kill() keeps it: the process it wakes has its end open.
LEMMA killKeeps ==
  ASSUME PInv, NEW p \in Procs, kill(p)
  PROVE  PInv'
<1>1. /\ UNCHANGED <<data, nread, nwrite, readopen, writeopen, live, holds, closing, n, rest, got>>
      /\ killed' = [killed EXCEPT ![p] = TRUE]
      /\ Count' = Count /\ Full' = Full
  BY RingFrame DEF kill, ring, ends, calls
<1>2. \E x \in {"read", "write", pc[p]} :
        /\ pc' = [pc EXCEPT ![p] = x]
        /\ x = "read" => pc[p] \in {"read", "rsleep"}
        /\ x = "write" => pc[p] \in {"write", "wsleep"}
  BY Zenon DEF kill
<1>3. pc \in [Procs -> Places] /\ killed \in [Procs -> BOOLEAN]
  BY DEF PInv, TypeOK
<1>4. pc' \in [Procs -> Places] /\ killed' \in [Procs -> BOOLEAN]
  BY <1>1, <1>2, <1>3 DEF Places
<1>5. TypeOK' /\ RingInv'
  BY <1>1, <1>4 DEF PInv, TypeOK, RingInv
<1>6. EndsInv'
  BY <1>1, <1>2, <1>3 DEF PInv, EndsInv
<1>7. WhereInv' /\ SleepInv'
  BY <1>1, <1>2, <1>3 DEF PInv, WhereInv, SleepInv
<1>. QED
  BY <1>5, <1>6, <1>7 DEF PInv

\* piperead keeps the invariant: it wakes every writer that sleeps.
LEMMA pipereadKeeps ==
  ASSUME PInv, NEW p \in Procs, piperead(p)
  PROVE  PInv'
<1>1. PICK k \in 0 .. Count :
        /\ k = Least(n[p], Count)
        /\ nread' = (nread + k) % WORD /\ nread' \in 0 .. WORD - 1 /\ nwrite' = nwrite
        /\ Count' = Count - k
        /\ got' = [i \in 1 .. k |-> data[(nread + i - 1) % PIPESIZE]]
  BY ReadCount DEF PInv
<1>2. k \in Nat /\ Count \in Nat /\ PIPESIZE \in Nat
  BY CountFacts DEF PInv
<1>3. /\ UNCHANGED <<data, nwrite, readopen, writeopen, live, holds, closing, rest, killed>>
      /\ n' = [n EXCEPT ![p] = 0] /\ pc[p] = "read"
      /\ pc' = [x \in Procs |-> IF x = p THEN "user" ELSE IF pc[x] = "wsleep" THEN "write" ELSE pc[x]]
      /\ \A x \in Procs : pc[x] \notin {"rcheck", "wcheck"}
  BY DEF piperead, ends, Wake, LockFree
<1>4. TypeOK'
  <2>1. got' \in Seq(Bytes)
    <3>1. nread \in Nat /\ data \in [0 .. PIPESIZE - 1 -> Bytes]
      BY CountFacts DEF PInv, TypeOK
    <3>2. got' = ReadFrom(data, nread, k)
      BY <1>1 DEF ReadFrom
    <3>. QED
      BY <1>2, <3>1, <3>2, ReadType
  <2>2. n' \in [Procs -> Counts \cup {0}]
    BY <1>3 DEF PInv, TypeOK
  <2>3. pc' \in [Procs -> Places]
    BY <1>3 DEF PInv, TypeOK, Places
  <2>. QED
    BY <1>1, <1>3, <2>1, <2>2, <2>3 DEF PInv, TypeOK
<1>5. RingInv'
  BY <1>1, <1>2 DEF PInv, RingInv
<1>6. EndsInv'
  BY <1>3 DEF PInv, EndsInv
<1>7. WhereInv' /\ SleepInv'
  BY <1>3 DEF PInv, WhereInv, SleepInv
<1>. QED
  BY <1>4, <1>5, <1>6, <1>7 DEF PInv

\* What pipewrite does in one critical section: it puts k bytes in, keeps rs of
\* the rest and goes to x, waking the readers or not.
Writes(p, k, x, rs) ==
  /\ pc[p] = "write" /\ LockFree
  /\ Put(p, k) /\ k \in Nat /\ k <= Len(rest[p]) /\ Count + k <= PIPESIZE
  /\ rs \in Seq(Bytes) /\ rest' = [rest EXCEPT ![p] = rs]
  /\ x \in {"user", "wcheck"} /\ (x = "user" => rs = <<>>)
  /\ Wake(p, x, "rsleep", "read") \/ Goto(p, x)
  /\ x = "wcheck" => Count + k = PIPESIZE /\ readopen
  /\ UNCHANGED <<ends, n, got, killed>>

\* Such a step keeps the invariant: with a writer asleep the ring is full, and
\* stays full.
LEMMA WritesKeeps ==
  ASSUME PInv, NEW p \in Procs, NEW k, NEW x, NEW rs, Writes(p, k, x, rs)
  PROVE  PInv'
<1>1. /\ k \in Nat /\ Count + k <= PIPESIZE /\ TypeOK
      /\ Count \in Nat /\ PIPESIZE \in Nat
  BY CountFacts DEF PInv, Writes
<1>2. nwrite' \in 0 .. WORD - 1 /\ nread' = nread /\ Count' = Count + k
  BY <1>1, PutCount DEF Writes
<1>3. data' \in [0 .. PIPESIZE - 1 -> Bytes]
  BY <1>1, PutType DEF Writes
<1>4. /\ UNCHANGED <<readopen, writeopen, live, holds, closing, n, got, killed>>
      /\ rest' = [rest EXCEPT ![p] = rs] /\ rs \in Seq(Bytes) /\ pc[p] = "write"
      /\ x \in {"user", "wcheck"} /\ (x = "wcheck" => Count + k = PIPESIZE /\ readopen)
      /\ x = "user" => rs = <<>>
      /\ \A y \in Procs : pc[y] \notin {"rcheck", "wcheck"}
  BY DEF Writes, ends, LockFree
<1>5. /\ pc \in [Procs -> Places] /\ pc' \in [Procs -> Places] /\ pc'[p] = x
      /\ \A y \in Procs \ {p} : pc'[y] = pc[y] \/ (pc[y] = "rsleep" /\ pc'[y] = "read")
  <2>1. pc \in [Procs -> Places]
    BY DEF PInv, TypeOK
  <2>2. CASE Wake(p, x, "rsleep", "read")
    BY <1>4, <2>1, <2>2 DEF Wake, Places
  <2>3. CASE Goto(p, x)
    BY <1>4, <2>1, <2>3 DEF Goto, Places
  <2>. QED
    BY <2>1, <2>2, <2>3 DEF Writes
<1>6. TypeOK'
  <2>1. rest' \in [Procs -> Seq(Bytes)]
    BY <1>4 DEF PInv, TypeOK
  <2>2. nread' \in 0 .. WORD - 1
    BY <1>2 DEF PInv, TypeOK
  <2>. QED
    BY <1>2, <1>3, <1>4, <1>5, <2>1, <2>2 DEF PInv, TypeOK
<1>7. RingInv'
  BY <1>1, <1>2 DEF RingInv
<1>8. EndsInv'
  BY <1>4, <1>5 DEF PInv, EndsInv
<1>9. WhereInv'
  <2>1. rest'[p] = rs /\ \A y \in Procs \ {p} : rest'[y] = rest[y]
    BY <1>4 DEF PInv, TypeOK
  <2>. QED
    BY <1>4, <1>5, <2>1 DEF PInv, WhereInv
<1>10. SleepInv'
  <2>1. Full' <=> Count' = PIPESIZE
    BY <1>6, FullCount DEF TypeOK, Full, Count
  <2>2. Full <=> Count = PIPESIZE
    BY <1>1, FullCount DEF TypeOK, Full, Count
  <2>3. ASSUME NEW y \in Procs, pc[y] = "wsleep" PROVE Full' /\ readopen
    BY <1>1, <1>2, <2>1, <2>2, <2>3 DEF PInv, SleepInv
  <2>4. x = "wcheck" => Full' /\ readopen
    BY <1>1, <1>2, <1>4, <2>1
  <2>. QED
    BY <1>4, <1>5, <2>3, <2>4 DEF PInv, SleepInv
<1>. QED
  BY <1>6, <1>7, <1>8, <1>9, <1>10 DEF PInv

\* pipewrite, whether all fits, or it goes to sleep, or it gives up.
LEMMA pipewriteWrites ==
  ASSUME PInv, NEW p \in Procs, pipewrite(p) \/ pipewrite_full(p) \/ pipewrite_fail(p)
  PROVE  \E k, x, rs : Writes(p, k, x, rs)
<1>1. /\ rest[p] \in Seq(Bytes) /\ Len(rest[p]) \in Nat /\ <<>> \in Seq(Bytes)
      /\ Count \in Nat /\ PIPESIZE \in Nat /\ Count <= PIPESIZE
  BY CountFacts DEF PInv, TypeOK, RingInv
<1>2. CASE pipewrite(p)
  <2>1. Writes(p, Len(rest[p]), "user", <<>>)
    BY <1>1, <1>2 DEF pipewrite, Writes
  <2>. QED
    BY <2>1
<1>. DEFINE k == PIPESIZE - Count
<1>3. k \in Nat /\ Count + k = PIPESIZE
  BY <1>1
<1>4. CASE pipewrite_full(p)
  <2>1. k <= Len(rest[p]) /\ k + 1 \in 1 .. Len(rest[p]) + 1
    BY <1>1, <1>3, <1>4 DEF pipewrite_full
  <2>2. SubSeq(rest[p], k + 1, Len(rest[p])) \in Seq(Bytes)
    BY <1>1, <1>3, <2>1, SubSeqProperties
  <2>3. Writes(p, k, "wcheck", SubSeq(rest[p], k + 1, Len(rest[p])))
    BY <1>1, <1>3, <1>4, <2>1, <2>2 DEF pipewrite_full, Writes
  <2>. QED
    BY <2>3
<1>5. CASE pipewrite_fail(p)
  <2>1. Writes(p, k, "user", <<>>)
    BY <1>1, <1>3, <1>5 DEF pipewrite_fail, Writes
  <2>. QED
    BY <2>1
<1>. QED
  BY <1>2, <1>4, <1>5

\* fileclose keeps the invariant.
LEMMA filecloseKeeps ==
  ASSUME PInv, NEW p \in Procs, NEW e \in {"r", "w"}, fileclose(p, e)
  PROVE  PInv'
<1>1. /\ UNCHANGED <<data, nread, nwrite, readopen, writeopen, live, n, rest, got, killed>>
      /\ Count' = Count /\ Full' = Full
  BY RingFrame DEF fileclose, ring, calls
<1>2. \E y \in {"none", e} :
        /\ closing' = [closing EXCEPT ![p] = y]
        /\ pc' = [pc EXCEPT ![p] = IF y = "none" THEN "user" ELSE "close"]
        /\ y # "none" => \A q \in Procs \ {p} : e \notin holds[q]
  BY Zenon DEF fileclose, Goto
<1>3. /\ holds' = [holds EXCEPT ![p] = @ \ {e}] /\ pc[p] = "user" /\ e \in holds[p]
  BY DEF fileclose
<1>4. /\ holds \in [Procs -> SUBSET {"r", "w"}] /\ closing \in [Procs -> {"none", "r", "w"}]
      /\ pc \in [Procs -> Places]
  BY DEF PInv, TypeOK
<1>5. TypeOK' /\ RingInv'
  <2>1. holds' \in [Procs -> SUBSET {"r", "w"}]
    BY <1>3, <1>4
  <2>2. closing' \in [Procs -> {"none", "r", "w"}] /\ pc' \in [Procs -> Places]
    BY <1>2, <1>4 DEF Places
  <2>. QED
    BY <1>1, <2>1, <2>2 DEF PInv, TypeOK, RingInv
<1>6. EndsInv'
  BY <1>1, <1>2, <1>3, <1>4 DEF PInv, EndsInv
<1>7. WhereInv' /\ SleepInv'
  BY <1>1, <1>2, <1>3, <1>4 DEF PInv, WhereInv, SleepInv
<1>. QED
  BY <1>5, <1>6, <1>7 DEF PInv

\* pipeclose keeps the invariant: the end it closes was nobody else's, and who
\* waits for that end is woken.
LEMMA pipecloseKeeps ==
  ASSUME PInv, NEW p \in Procs, pipeclose(p)
  PROVE  PInv'
<1>1. /\ UNCHANGED <<data, nread, nwrite, holds, n, rest, got, killed>>
      /\ Count' = Count /\ Full' = Full
  BY RingFrame DEF pipeclose, ring, calls
<1>2. /\ readopen' = (readopen /\ closing[p] # "r") /\ writeopen' = (writeopen /\ closing[p] # "w")
      /\ live' = (readopen' \/ writeopen')
      /\ closing' = [closing EXCEPT ![p] = "none"]
      /\ pc[p] = "close" /\ closing[p] \in {"r", "w"}
      /\ \A x \in Procs : pc[x] \notin {"rcheck", "wcheck"}
  BY DEF pipeclose, LockFree, PInv, TypeOK, EndsInv
<1>3. /\ holds \in [Procs -> SUBSET {"r", "w"}] /\ closing \in [Procs -> {"none", "r", "w"}]
      /\ pc \in [Procs -> Places]
  BY DEF PInv, TypeOK
<1>4. /\ pc' \in [Procs -> Places] /\ pc'[p] = "user"
      /\ \A x \in Procs \ {p} :
           \/ pc'[x] = pc[x] /\ ~(closing[p] = "w" /\ pc[x] = "rsleep")
                             /\ ~(closing[p] = "r" /\ pc[x] = "wsleep")
           \/ pc[x] = "rsleep" /\ pc'[x] = "read"
           \/ pc[x] = "wsleep" /\ pc'[x] = "write"
  BY <1>2, <1>3 DEF pipeclose, Wake, Places
<1>5. TypeOK' /\ RingInv'
  <2>1. closing' \in [Procs -> {"none", "r", "w"}]
    BY <1>2, <1>3
  <2>2. {readopen', writeopen', live'} \subseteq BOOLEAN
    BY <1>2
  <2>. QED
    BY <1>1, <1>4, <2>1, <2>2 DEF PInv, TypeOK, RingInv
<1>6. EndsInv'
  <2>1. \A x \in Procs \ {p} : closing[p] \notin holds[x] /\ closing[x] # closing[p]
    BY <1>2 DEF PInv, EndsInv
  <2>2. closing[p] \notin holds[p]
    BY <1>2 DEF PInv, EndsInv
  <2>3. ASSUME NEW x \in Procs
        PROVE  /\ "r" \in holds'[x] \/ closing'[x] = "r" => readopen'
               /\ "w" \in holds'[x] \/ closing'[x] = "w" => writeopen'
    BY <1>1, <1>2, <1>3, <2>1, <2>2, Zenon DEF PInv, EndsInv
  <2>4. ASSUME NEW x \in Procs PROVE pc'[x] = "close" <=> closing'[x] # "none"
    BY <1>2, <1>3, <1>4 DEF PInv, EndsInv
  <2>5. ASSUME NEW x \in Procs, NEW y \in Procs, closing'[x] # "none"
        PROVE  closing'[x] \notin holds'[y] /\ (closing'[x] = closing'[y] => x = y)
    BY <1>1, <1>2, <1>3, <2>5 DEF PInv, EndsInv
  <2>. QED
    BY <1>2, <2>3, <2>4, <2>5 DEF EndsInv
<1>7. WhereInv'
  BY <1>1, <1>2, <1>3, <1>4 DEF PInv, WhereInv
<1>8. SleepInv'
  <2>1. ASSUME NEW x \in Procs, pc'[x] \in {"wcheck", "wsleep"} PROVE Full /\ readopen'
    BY <1>2, <1>4, <2>1, Zenon DEF PInv, SleepInv
  <2>2. ASSUME NEW x \in Procs, pc'[x] \in {"rcheck", "rsleep"} PROVE writeopen'
    BY <1>2, <1>4, <2>2, Zenon DEF PInv, SleepInv
  <2>. QED
    BY <1>1, <2>1, <2>2 DEF SleepInv
<1>. QED
  BY <1>5, <1>6, <1>7, <1>8 DEF PInv

\* fork keeps the invariant: the child shares ends that are open.
LEMMA forkKeeps ==
  ASSUME PInv, NEW p \in Procs, NEW c \in Procs, fork(p, c)
  PROVE  PInv'
<1>1. /\ UNCHANGED <<data, nread, nwrite, readopen, writeopen, live, closing, pc, n, rest, got>>
      /\ holds' = [holds EXCEPT ![c] = holds[p]] /\ killed' = [killed EXCEPT ![c] = FALSE]
      /\ pc[c] = "user" /\ Count' = Count /\ Full' = Full
  BY RingFrame DEF fork, ring, calls
<1>2. holds \in [Procs -> SUBSET {"r", "w"}] /\ killed \in [Procs -> BOOLEAN]
  BY DEF PInv, TypeOK
<1>3. TypeOK' /\ RingInv'
  BY <1>1, <1>2 DEF PInv, TypeOK, RingInv
<1>4. EndsInv'
  BY <1>1, <1>2 DEF PInv, EndsInv
<1>5. WhereInv' /\ SleepInv'
  BY <1>1, <1>2 DEF PInv, WhereInv, SleepInv
<1>. QED
  BY <1>3, <1>4, <1>5 DEF PInv

\* pipealloc keeps the invariant: nobody is left in a pipe whose page is free.
LEMMA pipeallocKeeps ==
  ASSUME PInv, NEW p \in Procs, pipealloc(p)
  PROVE  PInv' /\ Count' = 0
<1>1. /\ UNCHANGED <<data, closing, pc, n, rest, got>>
      /\ readopen' = TRUE /\ writeopen' = TRUE /\ live' = TRUE /\ nread' = 0 /\ nwrite' = 0
      /\ holds' = [holds EXCEPT ![p] = {"r", "w"}] /\ killed' = [killed EXCEPT ![p] = FALSE]
      /\ pc[p] = "user" /\ ~live
  BY DEF pipealloc, calls
<1>2. holds \in [Procs -> SUBSET {"r", "w"}] /\ killed \in [Procs -> BOOLEAN]
      /\ closing \in [Procs -> {"none", "r", "w"}]
  BY DEF PInv, TypeOK
<1>3. \A q \in Procs : holds[q] = {} /\ closing[q] = "none"
  <2>1. ~readopen /\ ~writeopen
    BY <1>1, Zenon DEF PInv, EndsInv
  <2>2. \A q \in Procs : /\ "r" \notin holds[q] /\ "w" \notin holds[q]
                         /\ closing[q] # "r" /\ closing[q] # "w"
    BY <2>1, Zenon DEF PInv, EndsInv
  <2>. QED
    BY <1>2, <2>2, Zenon
<1>4. 0 \in 0 .. WORD - 1 /\ Count' = 0 /\ 0 <= PIPESIZE
  <2>1. WORD \in Nat \ {0} /\ PIPESIZE \in Nat
    BY PipeAssumption
  <2>2. 0 \in 0 .. WORD - 1
    BY <2>1
  <2>3. (0 + WORD - 0) % WORD = 0
    BY <2>1, <2>2, Difference
  <2>. QED
    BY <1>1, <2>1, <2>2, <2>3 DEF Count
<1>5. TypeOK'
  BY <1>1, <1>2, <1>4 DEF PInv, TypeOK
<1>6. RingInv'
  BY <1>4 DEF RingInv
<1>7. EndsInv'
  BY <1>1, <1>2, <1>3, Zenon DEF EndsInv, PInv
<1>8. WhereInv' /\ SleepInv'
  BY <1>1, <1>2, <1>3 DEF PInv, WhereInv, SleepInv
<1>. QED
  BY <1>4, <1>5, <1>6, <1>7, <1>8 DEF PInv

\* The invariant holds before the first pipe is made.
LEMMA PipeInit == Init => PInv
<1>. SUFFICES ASSUME Init PROVE PInv
  OBVIOUS
<1>1. WORD \in Nat \ {0} /\ PIPESIZE \in Nat \ {0} /\ 0 \in 0 .. WORD - 1
  BY PipeAssumption
<1>2. TypeOK
  BY <1>1 DEF Init, TypeOK, Places
<1>3. RingInv
  BY <1>1, <1>2, CountFacts DEF Init, RingInv
<1>4. EndsInv /\ WhereInv /\ SleepInv
  BY Zenon DEF Init, EndsInv, WhereInv, SleepInv
<1>. QED
  BY <1>2, <1>3, <1>4 DEF PInv

\* Every step keeps it.
LEMMA PipeNext == PInv /\ [Next]_vars => PInv'
<1>1. ASSUME PInv, UNCHANGED vars PROVE PInv'
  <2>1. /\ UNCHANGED <<data, nread, nwrite, readopen, writeopen, live, holds, closing, pc,
                       n, rest, got, killed>>
        /\ Count' = Count /\ Full' = Full
    BY <1>1, RingFrame DEF vars, ring, ends, calls
  <2>. QED
    BY <1>1, <2>1 DEF PInv, TypeOK, RingInv, EndsInv, WhereInv, SleepInv
<1>2. ASSUME PInv, NEW p \in Procs, Kernel(p) PROVE PInv'
  BY <1>2, MoveKeeps, pipereadKeeps, pipewriteWrites, WritesKeeps, pipecloseKeeps DEF Kernel
<1>. QED
  BY <1>1, <1>2, MoveKeeps, killKeeps, pipeallocKeeps, filecloseKeeps, forkKeeps DEF Next

\* The inductive invariant of the pipe.
THEOREM PipeInvariance == Spec => []PInv
  BY PipeInit, PipeNext, PTL DEF Spec

\* The page of a pipe is freed once, when both ends are closed, and nobody is or
\* gets inside a freed pipe (pipe.c:69-73, file.c:55-79).
THEOREM PipeNeverUsedAfterFree == Spec => []NoUseAfterFree
<1>1. ASSUME PInv, NEW p \in Procs, pc[p] # "user" \/ holds[p] # {} PROVE live
  <2>1. holds[p] \in SUBSET {"r", "w"} /\ closing[p] \in {"none", "r", "w"} /\ pc[p] \in Places
    BY <1>1 DEF PInv, TypeOK
  <2>2. CASE pc[p] = "close"
    BY <1>1, <2>1, <2>2, Zenon DEF PInv, EndsInv
  <2>3. CASE pc[p] # "close"
    <3>1. "r" \in holds[p] \/ "w" \in holds[p]
      BY <1>1, <2>1, <2>3 DEF PInv, WhereInv, Places
    <3>. QED
      BY <1>1, <3>1, Zenon DEF PInv, EndsInv
  <2>. QED
    BY <2>2, <2>3
<1>2. PInv => NoUseAfterFree
  BY <1>1 DEF NoUseAfterFree
<1>. QED
  BY <1>2, PipeInvariance, PTL

-----------------------------------------------------------------------------
(* Wakeups *)

\* What ReaderWoken says of one step.
ReaderStep ==
  \A p \in Procs : pc[p] = "rsleep" /\ pc'[p] = "rsleep" =>
    /\ writeopen'
    /\ nread = nwrite /\ nread' # nwrite' => \E q \in Procs : pc[q] = "write" /\ killed[q]

\* A step that puts bytes into an empty ring and leaves a reader asleep is that
\* of a killed writer.
LEMMA BytesWake ==
  ASSUME PInv, Next, NEW p \in Procs, pc[p] = "rsleep", pc'[p] = "rsleep",
         nread = nwrite, nread' # nwrite'
  PROVE  \E q \in Procs : pc[q] = "write" /\ killed[q]
<1>1. PICK q \in Procs :
        \/ read(q) \/ write(q) \/ Kernel(q) \/ kill(q) \/ pipealloc(q)
        \/ \E e \in {"r", "w"} : fileclose(q, e)
        \/ \E c \in Procs \ {q} : fork(q, c)
  BY DEF Next
<1>2. piperead(q) \/ pipewrite(q) \/ pipewrite_full(q) \/ pipewrite_fail(q)
  BY <1>1 DEF Kernel, read, write, kill, pipealloc, fileclose, fork, pipeclose,
     piperead_empty, piperead_sleep, pipewrite_sleep, ring
<1>3. ~piperead(q)
  <2>. SUFFICES ASSUME piperead(q) PROVE FALSE
    OBVIOUS
  <2>1. PICK k \in 0 .. Count :
          /\ k = Least(n[q], Count)
          /\ nread' = (nread + k) % WORD /\ nread' \in 0 .. WORD - 1 /\ nwrite' = nwrite
          /\ Count' = Count - k
          /\ got' = [i \in 1 .. k |-> data[(nread + i - 1) % PIPESIZE]]
    BY ReadCount DEF PInv
  <2>2. k = 0 /\ nread + 0 = nread /\ nread \in 0 .. WORD - 1 /\ WORD \in Nat \ {0}
    BY CountFacts DEF PInv
  <2>3. nread % WORD = nread
    BY <2>2, ModTurn
  <2>. QED
    BY <2>1, <2>2, <2>3
<1>4. ~pipewrite(q) /\ ~pipewrite_full(q)
  BY DEF pipewrite, pipewrite_full, Wake
<1>5. readopen
  BY DEF PInv, WhereInv, EndsInv
<1>. QED
  BY <1>2, <1>3, <1>4, <1>5 DEF pipewrite_fail

\* No wakeup of a pipe is lost: a writer asleep waits for room that is not
\* there, and a reader is woken by the close of the last writer and by the bytes
\* of every writer but a killed one (pipe.c:63-68, 84-91, 105, 117).
THEOREM PipeLosesNoWakeup == Spec => NoLostWakeup
<1>1. PInv => WriterHasReason
  BY DEF PInv, SleepInv, WriterHasReason
<1>2. PInv /\ PInv' /\ [Next]_vars => [ReaderStep]_vars
  <2>. SUFFICES ASSUME PInv, PInv', Next PROVE ReaderStep
    OBVIOUS
  <2>1. \A p \in Procs : pc'[p] = "rsleep" => writeopen'
    BY DEF PInv, SleepInv
  <2>. QED
    BY <2>1, BytesWake DEF ReaderStep
<1>3. [][ReaderStep]_vars => ReaderWoken
  BY PTL DEF ReaderStep, ReaderWoken
<1>. QED
  BY <1>1, <1>2, <1>3, PipeInvariance, PTL DEF Spec, NoLostWakeup

-----------------------------------------------------------------------------
(* Refinement of Channel *)

\* The bytes in the ring, in the order in which they will be read.
Q == [i \in 1 .. Count |-> data[(nread + i - 1) % PIPESIZE]]

\* They are as many as the counters say.
LEMMA QueueIs ==
  ASSUME TypeOK
  PROVE  /\ Q \in Seq(Bytes) /\ Len(Q) = Count /\ Count \in Nat
         /\ \A i \in 1 .. Count : Q[i] = data[(nread + i - 1) % PIPESIZE]
<1>1. Count \in Nat /\ nread \in Nat /\ data \in [0 .. PIPESIZE - 1 -> Bytes]
  BY CountFacts DEF TypeOK
<1>2. Q = ReadFrom(data, nread, Count)
  BY DEF Q, ReadFrom
<1>. QED
  BY <1>1, <1>2, ReadType, Zenon

\* Where nwrite points: at the first free place behind the bytes.
LEMMA WriteIndex ==
  ASSUME TypeOK, NEW j \in Nat \ {0}
  PROVE  (nwrite + j - 1) % PIPESIZE = (nread + Count + j - 1) % PIPESIZE
<1>1. /\ WORD \in Nat \ {0} /\ nread \in 0 .. WORD - 1 /\ nwrite \in 0 .. WORD - 1
      /\ Count \in 0 .. WORD - 1
      /\ Count = (IF nread <= nwrite THEN nwrite - nread ELSE nwrite + WORD - nread)
  BY CountFacts
<1>2. (nread + Count) % WORD
        = IF nread + Count < WORD THEN nread + Count ELSE nread + Count - WORD
  BY <1>1, Advance, Zenon
<1>3. (nread + Count) % WORD = nwrite
  BY <1>1, <1>2
<1>4. j - 1 \in Nat /\ nwrite + (j - 1) = nwrite + j - 1
      /\ nread + Count + (j - 1) = nread + Count + j - 1
  BY <1>1
<1>5. (((nread + Count) % WORD) + (j - 1)) % PIPESIZE = (nread + Count + (j - 1)) % PIPESIZE
  BY <1>1, <1>4, IndexWraps, Zenon
<1>. QED
  BY <1>3, <1>4, <1>5

\* The places that pipewrite fills are distinct, and none holds a byte that is
\* still to be read.
LEMMA PlacesApart ==
  ASSUME TypeOK, NEW k \in Nat, Count + k <= PIPESIZE, NEW j \in 1 .. k
  PROVE  /\ \A i \in 1 .. k : (nwrite + i - 1) % PIPESIZE = (nwrite + j - 1) % PIPESIZE => i = j
         /\ \A i \in 1 .. Count : (nread + i - 1) % PIPESIZE # (nwrite + j - 1) % PIPESIZE
<1>1. PIPESIZE \in Nat \ {0} /\ nread \in Nat /\ nwrite \in Nat /\ Count \in Nat
  BY CountFacts
<1>2. ASSUME NEW i \in 1 .. k, (nwrite + i - 1) % PIPESIZE = (nwrite + j - 1) % PIPESIZE
      PROVE  i = j
  <2>1. CASE i <= j
    <3>. DEFINE x == nwrite + i - 1
                y == nwrite + j - 1
    <3>1. x \in Nat /\ y \in Nat /\ x <= y /\ y < x + PIPESIZE
      BY <1>1, <2>1
    <3>2. x = y
      BY <1>1, <1>2, <3>1, ModApart, Zenon
    <3>. QED
      BY <1>1, <3>2
  <2>2. CASE ~(i <= j)
    <3>. DEFINE x == nwrite + j - 1
                y == nwrite + i - 1
    <3>1. x \in Nat /\ y \in Nat /\ x <= y /\ y < x + PIPESIZE
      BY <1>1, <2>2
    <3>2. x = y
      BY <1>1, <1>2, <3>1, ModApart, Zenon
    <3>. QED
      BY <1>1, <3>2
  <2>. QED
    BY <2>1, <2>2
<1>3. ASSUME NEW i \in 1 .. Count, (nread + i - 1) % PIPESIZE = (nwrite + j - 1) % PIPESIZE
      PROVE  FALSE
  <2>. DEFINE x == nread + i - 1
              y == nread + Count + j - 1
  <2>1. x \in Nat /\ y \in Nat /\ x <= y /\ x # y /\ y < x + PIPESIZE
    BY <1>1
  <2>2. x % PIPESIZE = y % PIPESIZE
    BY <1>3, WriteIndex
  <2>. HIDE DEF x, y
  <2>3. x = y
    BY <1>1, <2>1, <2>2, ModApart, Zenon
  <2>. QED
    BY <2>1, <2>3
<1>. QED
  BY <1>2, <1>3

\* pipewrite's loop appends the first k bytes of the rest to the queue.
LEMMA PutAppends ==
  ASSUME TypeOK, TypeOK', NEW p \in Procs, NEW k \in Nat, k <= Len(rest[p]),
         Count + k <= PIPESIZE, Put(p, k)
  PROVE  Q' = Q \o SubSeq(rest[p], 1, k)
<1>. DEFINE s == SubSeq(rest[p], 1, k)
<1>1. rest[p] \in Seq(Bytes) /\ Len(rest[p]) \in Nat
  BY DEF TypeOK
<1>2. s \in Seq(Bytes) /\ Len(s) = k /\ \A j \in 1 .. k : s[j] = rest[p][j]
  <2>1. \A j \in 1 .. k : rest[p][j] \in Bytes
    BY <1>1, ElementOfSeq
  <2>. QED
    BY <1>1, <2>1, SubSeqProperties
<1>. HIDE DEF s
<1>3. nread' = nread /\ Count' = Count + k
  BY PutCount
<1>4. /\ Q \in Seq(Bytes) /\ Len(Q) = Count /\ Count \in Nat
      /\ \A i \in 1 .. Count : Q[i] = data[(nread + i - 1) % PIPESIZE]
  BY QueueIs
<1>5. /\ Q' \in Seq(Bytes) /\ Len(Q') = Count + k
      /\ \A i \in 1 .. Count + k : Q'[i] = data'[(nread + i - 1) % PIPESIZE]
  <2>1. Count + k \in Nat /\ nread \in Nat /\ data' \in [0 .. PIPESIZE - 1 -> Bytes]
    BY <1>4, CountFacts DEF TypeOK
  <2>2. Q' = ReadFrom(data', nread, Count + k)
    BY <1>3 DEF Q, ReadFrom
  <2>. QED
    BY <2>1, <2>2, ReadType, Zenon
<1>6. PIPESIZE \in Nat \ {0} /\ nread \in Nat /\ nwrite \in Nat
  BY CountFacts
<1>7. ASSUME NEW i \in 1 .. Count PROVE Q'[i] = Q[i]
  <2>1. i \in 1 .. Count + k /\ nread + i - 1 \in Nat
    BY <1>4, <1>6
  <2>2. (nread + i - 1) % PIPESIZE \in 0 .. PIPESIZE - 1
    BY <1>6, <2>1, DivMod, Zenon
  <2>3. ~ \E j \in 1 .. k : (nwrite + j - 1) % PIPESIZE = (nread + i - 1) % PIPESIZE
    BY PlacesApart
  <2>4. data'[(nread + i - 1) % PIPESIZE] = data[(nread + i - 1) % PIPESIZE]
    BY <2>2, <2>3 DEF Put
  <2>. QED
    BY <1>4, <1>5, <2>1, <2>4
<1>8. ASSUME NEW j \in 1 .. k PROVE Q'[Count + j] = s[j]
  <2>. DEFINE at == (nwrite + j - 1) % PIPESIZE
  <2>1. Count + j \in 1 .. Count + k /\ nwrite + j - 1 \in Nat
    BY <1>4, <1>6
  <2>2. at \in 0 .. PIPESIZE - 1
    BY <1>6, <2>1, DivMod, Zenon
  <2>3. (CHOOSE i \in 1 .. k : (nwrite + i - 1) % PIPESIZE = at) = j
    BY PlacesApart
  <2>4. \E i \in 1 .. k : (nwrite + i - 1) % PIPESIZE = at
    OBVIOUS
  <2>5. data'[at] = rest[p][j]
    BY <2>2, <2>3, <2>4, Zenon DEF Put
  <2>6. at = (nread + (Count + j) - 1) % PIPESIZE
    <3>1. j \in Nat \ {0} /\ nread + Count + j - 1 = nread + (Count + j) - 1
      BY <1>4, <1>6
    <3>. QED
      BY <3>1, WriteIndex
  <2>. QED
    BY <1>2, <1>5, <2>1, <2>5, <2>6
<1>9. /\ Q \o s \in Seq(Bytes) /\ Len(Q \o s) = Count + k
      /\ \A i \in 1 .. Count + k : (Q \o s)[i] = IF i <= Count THEN Q[i] ELSE s[i - Count]
  <2>1. /\ Q \o s \in Seq(Bytes) /\ Len(Q \o s) = Len(Q) + Len(s)
        /\ \A i \in 1 .. Len(Q) + Len(s) :
             (Q \o s)[i] = IF i <= Len(Q) THEN Q[i] ELSE s[i - Len(Q)]
    BY <1>2, <1>4, ConcatProperties
  <2>. QED
    BY <1>2, <1>4, <2>1
<1>10. ASSUME NEW i \in 1 .. Count + k PROVE Q'[i] = (Q \o s)[i]
  <2>1. CASE i <= Count
    BY <1>4, <1>7, <1>9, <2>1
  <2>2. CASE ~(i <= Count)
    <3>1. i - Count \in 1 .. k /\ Count + (i - Count) = i
      BY <1>4, <2>2
    <3>2. Q'[Count + (i - Count)] = s[i - Count]
      BY <1>8, <3>1
    <3>. QED
      BY <1>9, <2>2, <3>1, <3>2
  <2>. QED
    BY <2>1, <2>2, Zenon
<1>11. Q' = Q \o s
  BY <1>5, <1>9, <1>10, SeqEqual
<1>. QED
  BY <1>11 DEF s

\* piperead takes the first k bytes of the queue.
LEMMA ReadTakes ==
  ASSUME PInv, PInv', NEW p \in Procs, piperead(p)
  PROVE  \E k \in 0 .. Len(Q) : got' = SubSeq(Q, 1, k) /\ Q' = SubSeq(Q, k + 1, Len(Q))
<1>1. PICK k \in 0 .. Count :
        /\ k = Least(n[p], Count)
        /\ nread' = (nread + k) % WORD /\ nread' \in 0 .. WORD - 1 /\ nwrite' = nwrite
        /\ Count' = Count - k
        /\ got' = [i \in 1 .. k |-> data[(nread + i - 1) % PIPESIZE]]
  BY ReadCount DEF PInv
<1>2. /\ Q \in Seq(Bytes) /\ Len(Q) = Count /\ Count \in Nat
      /\ \A i \in 1 .. Count : Q[i] = data[(nread + i - 1) % PIPESIZE]
  BY QueueIs DEF PInv
<1>3. /\ nread \in Nat /\ nread' \in Nat /\ data \in [0 .. PIPESIZE - 1 -> Bytes] /\ data' = data
      /\ WORD \in Nat /\ Count \in 0 .. WORD - 1 /\ nread \in 0 .. WORD - 1
      /\ \A i \in 1 .. Count : Q[i] \in Bytes
  <2>1. TypeOK /\ data \in [0 .. PIPESIZE - 1 -> Bytes] /\ data' = data
    BY Zenon DEF PInv, TypeOK, piperead
  <2>2. WORD \in Nat \ {0} /\ nread \in 0 .. WORD - 1 /\ Count \in 0 .. WORD - 1
    BY <2>1, CountFacts, Zenon
  <2>3. nread \in Nat /\ nread' \in Nat
    BY <1>1, <2>2
  <2>4. \A i \in 1 .. Count : Q[i] \in Bytes
    BY <1>2, ElementOfSeq, Zenon
  <2>. QED
    BY <2>1, <2>2, <2>3, <2>4, Zenon
<1>4. got' = SubSeq(Q, 1, k)
  <2>1. /\ got' \in Seq(Bytes) /\ Len(got') = k
        /\ \A i \in 1 .. k : got'[i] = data[(nread + i - 1) % PIPESIZE]
    <3>1. got' = ReadFrom(data, nread, k)
      BY <1>1 DEF ReadFrom
    <3>2. k \in Nat
      BY <1>2
    <3>. QED
      BY <1>3, <3>1, <3>2, ReadType, Zenon
  <2>2. /\ SubSeq(Q, 1, k) \in Seq(Bytes) /\ Len(SubSeq(Q, 1, k)) = k
        /\ \A i \in 1 .. k : SubSeq(Q, 1, k)[i] = Q[i]
    <3>1. \A i \in 1 .. k : Q[i] \in Bytes
      BY <1>2, <1>3
    <3>. QED
      BY <1>2, <3>1, SubSeqProperties
  <2>3. \A i \in 1 .. k : got'[i] = SubSeq(Q, 1, k)[i]
    BY <1>2, <2>1, <2>2
  <2>. QED
    BY <2>1, <2>2, <2>3, SeqEqual
<1>5. Q' = SubSeq(Q, k + 1, Count)
  <2>1. /\ Q' \in Seq(Bytes) /\ Len(Q') = Count - k
        /\ \A i \in 1 .. Count - k : Q'[i] = data[(nread' + i - 1) % PIPESIZE]
    <3>1. Q' = ReadFrom(data, nread', Count - k)
      BY <1>1, <1>3 DEF Q, ReadFrom
    <3>2. Count - k \in Nat
      BY <1>2
    <3>. QED
      BY <1>3, <3>1, <3>2, ReadType, Zenon
  <2>. DEFINE t == SubSeq(Q, k + 1, Count)
  <2>2. t \in Seq(Bytes) /\ Len(t) = Count - k /\ \A i \in 1 .. Count - k : t[i] = Q[k + i]
    <3>1. \A i \in k + 1 .. Count : Q[i] \in Bytes
      BY <1>2, <1>3
    <3>2. k + 1 \in Int /\ Count \in Int /\ Count - (k + 1) + 1 = Count - k
      BY <1>2
    <3>3. /\ t \in Seq(Bytes) /\ Len(t) = (IF k + 1 <= Count THEN Count - (k + 1) + 1 ELSE 0)
          /\ \A i \in 1 .. Count - (k + 1) + 1 : t[i] = Q[k + 1 + i - 1]
      BY <3>1, <3>2, SubSeqProperties
    <3>. HIDE DEF t
    <3>4. Len(t) = Count - k
      BY <1>2, <3>3
    <3>5. ASSUME NEW i \in 1 .. Count - k PROVE t[i] = Q[k + i]
      <4>1. i \in 1 .. Count - (k + 1) + 1 /\ k + 1 + i - 1 = k + i
        BY <1>2
      <4>. QED
        BY <3>3, <4>1, Zenon
    <3>. QED
      BY <3>3, <3>4, <3>5, Zenon
  <2>3. ASSUME NEW i \in 1 .. Count - k PROVE Q'[i] = t[i]
    <3>1. k + i \in 1 .. Count /\ i - 1 \in Nat /\ k \in 0 .. WORD - 1
          /\ nread + k + (i - 1) = nread + (k + i) - 1 /\ nread' + (i - 1) = nread' + i - 1
      BY <1>2, <1>3
    <3>2. (((nread + k) % WORD) + (i - 1)) % PIPESIZE = (nread + k + (i - 1)) % PIPESIZE
      BY <1>3, <3>1, IndexWraps, Zenon
    <3>3. (nread' + i - 1) % PIPESIZE = (nread + (k + i) - 1) % PIPESIZE
      BY <1>1, <3>1, <3>2
    <3>. QED
      BY <1>2, <2>1, <2>2, <3>1, <3>3, Zenon
  <2>. HIDE DEF t
  <2>4. Q' = t
    BY <2>1, <2>2, <2>3, SeqEqual
  <2>. QED
    BY <2>4 DEF t
<1>. QED
  BY <1>2, <1>4, <1>5, Zenon

\* The steps of Channel, with Q as its queue.
Sends(p, k, left) ==
  /\ Q' = Q \o SubSeq(rest[p], 1, k)
  /\ rest' = [rest EXCEPT ![p] = left] /\ UNCHANGED got
ChannelStep ==
  \/ Q' = <<>> /\ UNCHANGED <<rest, got>>
  \/ \E k \in 0 .. Len(Q) :
       got' = SubSeq(Q, 1, k) /\ Q' = SubSeq(Q, k + 1, Len(Q)) /\ UNCHANGED rest
  \/ \E p \in Procs : /\ rest[p] = <<>> /\ rest'[p] \in Seq(Bytes)
                      /\ rest' = [rest EXCEPT ![p] = rest'[p]] /\ UNCHANGED <<Q, got>>
  \/ \E p \in Procs : \E k \in 0 .. Len(rest[p]) :
       Len(Q) + k <= PIPESIZE /\ Sends(p, k, SubSeq(rest[p], k + 1, Len(rest[p])))
  \/ \E p \in Procs : \E k \in 0 .. Len(rest[p]) :
       Len(Q) + k = PIPESIZE /\ Sends(p, k, <<>>)

\* pipewrite sends what fits, and may drop the rest when the pipe is full.
LEMMA WriteSends ==
  ASSUME PInv, PInv', NEW p \in Procs, pipewrite(p) \/ pipewrite_full(p) \/ pipewrite_fail(p)
  PROVE  ChannelStep
<1>1. /\ rest[p] \in Seq(Bytes) /\ Len(rest[p]) \in Nat /\ TypeOK /\ TypeOK'
      /\ Count \in Nat /\ PIPESIZE \in Nat /\ Count <= PIPESIZE /\ Len(Q) = Count
      /\ UNCHANGED got
  <2>1. TypeOK /\ TypeOK' /\ Count <= PIPESIZE
    BY DEF PInv, RingInv
  <2>2. Count \in Nat /\ PIPESIZE \in Nat /\ Len(Q) = Count
    BY <2>1, CountFacts, QueueIs
  <2>3. rest[p] \in Seq(Bytes) /\ Len(rest[p]) \in Nat
    BY <2>1 DEF TypeOK
  <2>4. UNCHANGED got
    BY DEF pipewrite, pipewrite_full, pipewrite_fail
  <2>. QED
    BY <2>1, <2>2, <2>3, <2>4
<1>2. CASE pipewrite(p)
  <2>. DEFINE k == Len(rest[p])
  <2>1. /\ k \in Nat /\ k \in 0 .. k /\ Count + k <= PIPESIZE /\ Put(p, k)
        /\ rest' = [rest EXCEPT ![p] = <<>>]
    BY <1>1, <1>2 DEF pipewrite
  <2>2. Q' = Q \o SubSeq(rest[p], 1, k)
    BY <1>1, <2>1, PutAppends
  <2>3. SubSeq(rest[p], k + 1, k) = <<>>
    BY <1>1, SubSeqEmpty
  <2>4. Sends(p, k, SubSeq(rest[p], k + 1, Len(rest[p])))
    BY <1>1, <2>1, <2>2, <2>3, Zenon DEF Sends
  <2>. QED
    BY <1>1, <2>1, <2>4, Zenon DEF ChannelStep
<1>. DEFINE k == PIPESIZE - Count
<1>3. k \in Nat /\ Count + k = PIPESIZE
  BY <1>1
<1>4. ASSUME pipewrite_full(p) \/ pipewrite_fail(p)
      PROVE  k \in 0 .. Len(rest[p]) /\ Q' = Q \o SubSeq(rest[p], 1, k)
  <2>1. k <= Len(rest[p]) /\ Put(p, k)
    BY <1>1, <1>3, <1>4 DEF pipewrite_full, pipewrite_fail
  <2>. QED
    BY <1>1, <1>3, <2>1, PutAppends
<1>5. CASE pipewrite_full(p)
  <2>1. Sends(p, k, SubSeq(rest[p], k + 1, Len(rest[p])))
    BY <1>1, <1>4, <1>5 DEF pipewrite_full, Sends
  <2>2. Len(Q) + k <= PIPESIZE /\ k \in 0 .. Len(rest[p])
    BY <1>1, <1>3, <1>4, <1>5
  <2>. QED
    BY Zenon, <2>1, <2>2 DEF ChannelStep
<1>6. CASE pipewrite_fail(p)
  <2>1. Sends(p, k, <<>>)
    BY <1>1, <1>4, <1>6 DEF pipewrite_fail, Sends
  <2>2. Len(Q) + k = PIPESIZE /\ k \in 0 .. Len(rest[p])
    BY <1>1, <1>3, <1>4, <1>6
  <2>. QED
    BY Zenon, <2>1, <2>2 DEF ChannelStep
<1>. QED
  BY <1>2, <1>5, <1>6

\* Every step of the pipe is a step of the channel, or invisible.
LEMMA PipeSteps ==
  ASSUME PInv, PInv', [Next]_vars
  PROVE  ChannelStep \/ UNCHANGED <<Q, rest, got>>
<1>1. ASSUME UNCHANGED <<ring, rest, got>> PROVE UNCHANGED <<Q, rest, got>>
  BY <1>1 DEF ring, Q, Count
<1>2. CASE UNCHANGED vars
  BY <1>1, <1>2 DEF vars, calls
<1>3. ASSUME NEW p \in Procs,
             \/ read(p) \/ piperead_empty(p) \/ piperead_sleep(p) \/ pipewrite_sleep(p)
             \/ pipeclose(p) \/ kill(p)
             \/ \E e \in {"r", "w"} : fileclose(p, e)
             \/ \E c \in Procs \ {p} : fork(p, c)
      PROVE  UNCHANGED <<ring, rest, got>>
  BY <1>3 DEF read, piperead_empty, piperead_sleep, pipewrite_sleep, pipeclose, kill,
     fileclose, fork, calls
<1>4. ASSUME NEW p \in Procs, piperead(p) PROVE ChannelStep
  <2>1. UNCHANGED rest
    BY <1>4 DEF piperead
  <2>. QED
    BY <1>4, <2>1, ReadTakes, Zenon DEF ChannelStep
<1>5. ASSUME NEW p \in Procs, write(p) PROVE ChannelStep
  <2>1. PICK s \in Addrs : rest' = [rest EXCEPT ![p] = s]
    BY <1>5, Zenon DEF write
  <2>2. rest \in [Procs -> Seq(Bytes)] /\ s \in Seq(Bytes) /\ rest[p] = <<>>
    BY <1>5, PipeAssumption, Zenon DEF PInv, TypeOK, WhereInv, write
  <2>3. rest'[p] = s
    BY <2>1, <2>2
  <2>4. UNCHANGED <<Q, got>>
    BY <1>5 DEF write, ring, Q, Count
  <2>. QED
    BY <2>1, <2>2, <2>3, <2>4, Zenon DEF ChannelStep
<1>6. ASSUME NEW p \in Procs, pipealloc(p) PROVE ChannelStep
  <2>1. Count' = 0
    BY <1>6, pipeallocKeeps
  <2>2. Q' = <<>>
    BY <2>1 DEF Q
  <2>. QED
    BY <1>6, <2>2 DEF ChannelStep, pipealloc, calls
<1>. QED
  BY <1>1, <1>2, <1>3, <1>4, <1>5, <1>6, WriteSends DEF Next, Kernel

\* Whatever the number of readers and writers, of closes and of kills, and
\* however often the counters wrap around, the bytes come out in the order in
\* which they went in, none lost, made up or read twice (pipe.c:79-121).
THEOREM PipeIsFifo == Spec => IsFifo
<1>1. Init => Fifo!Init
  <2>. SUFFICES ASSUME Init PROVE Fifo!Init
    OBVIOUS
  <2>1. Count = 0
    BY PipeInit, CountFacts DEF Init, PInv
  <2>. QED
    BY <2>1 DEF Init, Fifo!Init
<1>2. PInv /\ PInv' /\ [Next]_vars => [Fifo!Next]_(Fifo!chanVars)
  <2>. SUFFICES ASSUME PInv, PInv', [Next]_vars PROVE Fifo!Next \/ UNCHANGED <<Q, rest, got>>
    BY DEF Fifo!chanVars, Q
  <2>1. ASSUME ChannelStep PROVE Fifo!Next
    BY <2>1, Zenon DEF ChannelStep, Sends, Q, Fifo!Next, Fifo!Reset, Fifo!Receive, Fifo!Offer, Fifo!Send,
       Fifo!GiveUp
  <2>. QED
    BY <2>1, PipeSteps
<1>. QED
  BY <1>1, <1>2, PipeInvariance, PTL DEF Spec, IsFifo, Fifo!Spec
=============================================================================
