------------------------------- MODULE FileData -------------------------------
(***************************************************************************)
(* The contents of inodes (fs.c): the block allocator balloc and bfree,    *)
(* bmap with its direct and indirect blocks, writei, readi and itrunc, and *)
(* the loop of filewrite (file.c) that cuts a write into transactions that *)
(* fit the log.  An inode is locked during each of these calls, and        *)
(* transactions are one at a time, so calls do not overlap; a turn of the  *)
(* loop of writei is a step.  Bytes are small numbers; the bitmap is one   *)
(* block, as in a file system of 1024 blocks.                              *)
(***************************************************************************)
EXTENDS Integers, Sequences, FiniteSets, FiniteSetsExt

CONSTANTS
    Inums,          \* inodes
    NBLOCKS,        \* blocks from the first data block to the end of the disk
    NLOG,           \* the last of them are the log's
    BSIZE,          \* bytes of a block
    NDIRECT,        \* blocks listed in the inode
    NINDIRECT,      \* blocks listed in the indirect block
    LOGSIZE,        \* blocks of a transaction
    Bytes,          \* values that are written
    Lengths         \* lengths of writes

\* What the constants have to satisfy.
FileDataAssumption ==
    NLOG \in 0 .. NBLOCKS /\ BSIZE \in Nat \ {0} /\ NDIRECT \in Nat \ {0} /\ NINDIRECT \in Nat \ {0} /\ LOGSIZE > 5 /\ Bytes \cap {0, 1} = {}

\* The blocks balloc scans, and those where initlog puts the log: mkfs does not mark them.
DataBlocks == 1 .. NBLOCKS
LogSectors == NBLOCKS - NLOG + 1 .. NBLOCKS
None == 0

\* The other two blocks that are logged: the bitmap and the inode's block.
Bitmap == NBLOCKS + 1
InodeBlock == NBLOCKS + 2

MAXFILE == NDIRECT + NINDIRECT
min(a, b) == IF a < b THEN a ELSE b

VARIABLES
    bitmap,     \* the blocks marked in use
    blk,        \* the contents of a block: bytes, and block numbers if it is indirect
    inode,      \* size and addrs of the inodes
    log,        \* the blocks written in the open transaction
    w,          \* the filewrite that is going on
    want        \* the bytes each file should hold (history)

vars == <<bitmap, blk, inode, log, w, want>>

\* ip, v, i, n: filewrite's inode, byte, position and length; off: the file offset;
\* end, cur: of the writei that is going on.
NoWrite == [at |-> "idle", ip |-> None, v |-> 0, i |-> 0, n |-> 0, off |-> 0, end |-> 0, cur |-> 0]

\* What a freed block holds: bytes and block numbers that nobody should see again.
Stale == [bytes |-> [j \in 0 .. BSIZE - 1 |-> 1], a |-> [j \in 0 .. NINDIRECT - 1 |-> 1]]

\* bzero.
Zeroed == [bytes |-> [j \in 0 .. BSIZE - 1 |-> 0], a |-> [j \in 0 .. NINDIRECT - 1 |-> None]]

\* The blocks of an inode and their numbers, as bmap finds them.
Addr(ip, bn) ==
    IF bn < NDIRECT THEN inode[ip].addrs[bn]
    ELSE IF inode[ip].addrs[NDIRECT] = None THEN None ELSE blk[inode[ip].addrs[NDIRECT]].a[bn - NDIRECT]

\* Mutant of readi: every turn copies a whole block.
readi_block(ip, off, n) ==
    LET r[tot \in 0 .. n + BSIZE] ==
            IF tot >= n THEN <<>>
            ELSE [j \in 1 .. BSIZE |-> blk[Addr(ip, (off + tot) \div BSIZE)].bytes[j - 1]] \o r[tot + BSIZE]
    IN r[0]

\* readi of n bytes within the size: a turn of the loop reads up to a block boundary.
readi(ip, off, n) ==
    LET r[tot \in 0 .. n] ==
            IF tot = n THEN <<>>
            ELSE LET o == off + tot
                     m == min(n - tot, BSIZE - (o % BSIZE))
                 IN [j \in 1 .. m |-> blk[Addr(ip, o \div BSIZE)].bytes[(o % BSIZE) + j - 1]] \o r[tot + m]
    IN r[0]

\* The first k blocks that balloc finds free.
balloc(k) == CHOOSE s \in [1 .. k -> DataBlocks \ bitmap] :
                 /\ \A i, j \in 1 .. k : i < j => s[i] < s[j]
                 /\ \A b \in DataBlocks \ bitmap : (\E i \in 1 .. k : b < s[i]) => \E i \in 1 .. k : b = s[i]

\* The blocks bmap allocates for block bn of ip: an indirect block, a block.
Missing(ip, bn) ==
    (IF bn >= NDIRECT /\ inode[ip].addrs[NDIRECT] = None THEN 1 ELSE 0) + (IF Addr(ip, bn) = None THEN 1 ELSE 0)

-----------------------------------------------------------------------------
\* Mutant of max: as many blocks as the log holds.
max_all == LOGSIZE * BSIZE

\* filewrite: the bytes of one transaction.
max == ((LOGSIZE - 1 - 1 - 2) \div 2) * BSIZE

\* sys_write of n bytes v at the offset off of an open file of ip.
filewrite(ip, v, off, n) ==
    /\ w.at = "idle" /\ off <= inode[ip].size
    /\ w' = [NoWrite EXCEPT !.at = "loop", !.ip = ip, !.v = v, !.n = n, !.off = off]
    /\ UNCHANGED <<bitmap, blk, inode, log, want>>

Spliced(s, v, off, n) ==
    [j \in 1 .. (IF off + n > Len(s) THEN off + n ELSE Len(s)) |-> IF j > off /\ j <= off + n THEN v ELSE s[j]]

\* The next turn of filewrite's loop: begin_trans, and writei unless it refuses.
filewrite_turn ==
    /\ w.at = "loop" /\ w.i < w.n
    /\ LET n1 == min(w.n - w.i, max) IN
           IF w.off + n1 > MAXFILE * BSIZE THEN w' = NoWrite /\ want' = want
           ELSE /\ w' = [w EXCEPT !.at = "writei", !.cur = w.off, !.end = w.off + n1]
                /\ want' = [want EXCEPT ![w.ip] = Spliced(@, w.v, w.off, n1)]
    /\ UNCHANGED <<bitmap, blk, inode, log>>

\* All bytes are written: filewrite returns n.
filewrite_done ==
    /\ w.at = "loop" /\ w.i = w.n
    /\ w' = NoWrite
    /\ UNCHANGED <<bitmap, blk, inode, log, want>>

\* A turn of writei's loop: bmap, with balloc and bzero for what is missing, then
\* the bytes up to the block's end.  log_write takes the bitmap, the zeroed
\* blocks, the indirect block when it changes, and the data block.
writei ==
    LET ip == w.ip  bn == w.cur \div BSIZE  m == min(w.end - w.cur, BSIZE - (w.cur % BSIZE)) IN
    /\ w.at = "writei" /\ w.cur < w.end
    /\ Cardinality(DataBlocks \ bitmap) >= Missing(ip, bn)
    /\ LET new == balloc(Missing(ip, bn))
           ind == IF inode[ip].addrs[NDIRECT] # None THEN inode[ip].addrs[NDIRECT] ELSE new[1]
           b == IF Addr(ip, bn) # None THEN Addr(ip, bn) ELSE new[Missing(ip, bn)]
           clean == [c \in DataBlocks |-> IF \E i \in DOMAIN new : new[i] = c THEN Zeroed ELSE blk[c]]
           mapped == IF bn < NDIRECT THEN clean ELSE [clean EXCEPT ![ind].a[bn - NDIRECT] = b]
       IN /\ bitmap' = bitmap \cup {new[i] : i \in DOMAIN new}
          /\ inode' = [inode EXCEPT ![ip].addrs[min(bn, NDIRECT)] = IF bn < NDIRECT THEN b ELSE ind]
          /\ blk' = [mapped EXCEPT ![b].bytes = [j \in DOMAIN @ |->
                       IF (w.cur % BSIZE) <= j /\ j < (w.cur % BSIZE) + m THEN w.v ELSE @[j]]]
          /\ log' = log \cup {b} \cup (IF Missing(ip, bn) = 0 THEN {}
                                       ELSE {Bitmap} \cup {new[i] : i \in DOMAIN new}
                                            \cup (IF bn < NDIRECT THEN {} ELSE {ind}))
    /\ w' = [w EXCEPT !.cur = @ + m]
    /\ UNCHANGED want

\* balloc finds no block: panic, which spins.
writei_panic ==
    /\ w.at = "writei" /\ w.cur < w.end
    /\ Cardinality(DataBlocks \ bitmap) < Missing(w.ip, w.cur \div BSIZE)
    /\ w' = [w EXCEPT !.at = "panic"]
    /\ UNCHANGED <<bitmap, blk, inode, log, want>>
panic == w.at = "panic" /\ UNCHANGED vars

\* writei's end: the new size, iupdate; filewrite moves the offset.
writei_done ==
    LET ip == w.ip IN
    /\ w.at = "writei" /\ w.cur = w.end
    /\ inode' = [inode EXCEPT ![ip].size = IF w.end > @ THEN w.end ELSE @]
    /\ log' = IF w.end > inode[ip].size THEN log \cup {InodeBlock} ELSE log
    /\ w' = [w EXCEPT !.at = "commit", !.i = @ + (w.end - w.off), !.off = w.end]
    /\ UNCHANGED <<bitmap, blk, want>>

\* If a file was given a block of the log, the commit writes over it: what the disk
\* holds then is not followed.
commit_trans ==
    /\ w.at = "commit"
    /\ log' = {} /\ w' = [w EXCEPT !.at = IF bitmap \cap LogSectors = {} THEN "loop" ELSE "overrun"]
    /\ UNCHANGED <<bitmap, blk, inode, want>>
overrun == w.at = "overrun" /\ UNCHANGED vars

DirectOf(ip) == {inode[ip].addrs[i] : i \in 0 .. NDIRECT} \ {None}
IndirectOf(ip) ==
    IF inode[ip].addrs[NDIRECT] = None THEN {} ELSE {blk[inode[ip].addrs[NDIRECT]].a[j] : j \in 0 .. NINDIRECT - 1} \ {None}

\* Mutant of itrunc: the blocks of the indirect block are forgotten.
itrunc_direct(ip) ==
    /\ w.at = "idle" /\ inode[ip].size > 0
    /\ bitmap' = bitmap \ DirectOf(ip)
    /\ blk' = [b \in DataBlocks |-> IF b \in bitmap' THEN blk[b] ELSE Stale]
    /\ inode' = [inode EXCEPT ![ip] = [size |-> 0, addrs |-> [i \in 0 .. NDIRECT |-> None]]]
    /\ want' = [want EXCEPT ![ip] = <<>>]
    /\ UNCHANGED <<log, w>>

\* itrunc, when iput frees the inode; a transaction of its own, two blocks.
itrunc(ip) ==
    /\ w.at = "idle" /\ inode[ip].size > 0
    /\ bitmap' = bitmap \ (DirectOf(ip) \cup IndirectOf(ip))
    /\ blk' = [b \in DataBlocks |-> IF b \in bitmap' THEN blk[b] ELSE Stale]
    /\ inode' = [inode EXCEPT ![ip] = [size |-> 0, addrs |-> [i \in 0 .. NDIRECT |-> None]]]
    /\ want' = [want EXCEPT ![ip] = <<>>]
    /\ UNCHANGED <<log, w>>

Init ==
    /\ bitmap = {}
    /\ blk = [b \in DataBlocks |-> Stale]
    /\ inode = [ip \in Inums |-> [size |-> 0, addrs |-> [i \in 0 .. NDIRECT |-> None]]]
    /\ log = {} /\ w = NoWrite
    /\ want = [ip \in Inums |-> <<>>]

Next ==
    \/ \E ip \in Inums, v \in Bytes, n \in Lengths : \E off \in 0 .. inode[ip].size : filewrite(ip, v, off, n)
    \/ filewrite_turn \/ filewrite_done \/ writei \/ writei_done \/ commit_trans
    \/ writei_panic \/ panic \/ overrun
    \/ \E ip \in Inums : itrunc(ip)

Spec == Init /\ [][Next]_vars

-----------------------------------------------------------------------------
\* What is read is what was written: readi at any offset and of any length returns
\* those bytes of the file, also where a write or a read crosses from one block to
\* the next and from the direct blocks to the indirect one, and after the blocks
\* belonged to another file (writei, readi, bmap, bzero in balloc).  A panic of balloc
\* leaves its write to the recovery of the log; a file with a block of the log is lost.
ReadsBack ==
    w.at \notin {"writei", "panic", "overrun"} =>
        \A ip \in Inums :
            /\ inode[ip].size = Len(want[ip])
            /\ \A off \in 0 .. inode[ip].size : \A n \in 0 .. inode[ip].size - off :
                   readi(ip, off, n) = SubSeq(want[ip], off + 1, off + n)

\* The bitmap marks the blocks some inode refers to, each referred to once: no
\* block is lost, and none is in two files (balloc, bfree, bmap, itrunc).
BitmapExact ==
    /\ bitmap = UNION {DirectOf(ip) \cup IndirectOf(ip) : ip \in Inums}
    /\ Cardinality(bitmap) = MapThenSumSet(LAMBDA ip : Cardinality({i \in 0 .. NDIRECT : inode[ip].addrs[i] # None})
           + (IF inode[ip].addrs[NDIRECT] = None THEN 0
              ELSE Cardinality({j \in 0 .. NINDIRECT - 1 : blk[inode[ip].addrs[NDIRECT]].a[j] # None})), Inums)

\* A transaction of filewrite fits the log, so that log_write never panics with
\* "too big a transaction": max leaves room for the i-node, the indirect block, the
\* bitmap and an unaligned start.
TransactionFits == Cardinality(log) < LOGSIZE
=============================================================================
