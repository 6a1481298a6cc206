-------------------------------- MODULE Mkfs --------------------------------
(***************************************************************************)
(* The tool that builds the file system image (mkfs.c): inodes and blocks  *)
(* handed out in order while host files are appended, then the root's size *)
(* and the bitmap fixed up.  A block holds BSIZE cells; a cell is a        *)
(* directory entry (its inode number), a unit of data or a block address.  *)
(***************************************************************************)
EXTENDS Naturals, Sequences, FiniteSets

CONSTANTS
    size, nblocks, nlog,            \* sectors of the image, for data, for the log
    ninodes, IPB,                   \* inodes, inodes per block
    BSIZE, NDIRECT,                 \* cells per block (NINDIRECT too), direct addresses
    MaxFiles, MaxUnits              \* files of the command line and cells of each

BPB == 8 * BSIZE
MAXFILE == NDIRECT + BSIZE
ROOTINO == 1
Sectors == 0 .. size + 1                         \* the image, and what a turn of iappend may ask beyond it
bitblocks == size \div BPB + 1
metablocks == ninodes \div IPB + 3 + bitblocks   \* usedblocks before any file is added
LogSectors == size - nlog .. size - 1            \* where the kernel's initlog puts the log
i2b(inum) == inum \div IPB + 2
Zeroes == [c \in 0 .. BSIZE - 1 |-> 0]
NoInode == [type |-> "none", nlink |-> 0, size |-> 0, addrs |-> [i \in 0 .. NDIRECT |-> 0]]

\* What the constants have to satisfy; main asserts the sum.
MkfsAssumption ==
    /\ {size, nblocks, nlog, ninodes, MaxFiles, MaxUnits} \subseteq Nat
    /\ {IPB, BSIZE, NDIRECT} \subseteq Nat \ {0}
    /\ ninodes > MaxFiles + 1 /\ nblocks + metablocks + nlog = size

VARIABLES
    args,       \* cells of each host file
    disk,       \* data and indirect blocks
    inode,      \* the inode sectors, by inode number
    bitmap,     \* bits set in the bitmap sector
    freeblock, usedblocks, freeinode,
    w           \* where main is: file, cells read of it, iappend's inode and cells to go

vars == <<args, disk, inode, bitmap, freeblock, usedblocks, freeinode, w>>

min(a, b) == IF a < b THEN a ELSE b
Cell(i, n) == 100 * i + n                        \* the nth unit of host file i

\* ialloc and the start of an append.
ialloc(type) == [inode EXCEPT ![freeinode] = [NoInode EXCEPT !.type = type, !.nlink = 1]]

\* main up to the files: zeroed sectors, the superblock, the root with . and ..
main ==
    /\ w.at = "main"
    /\ freeinode' = freeinode + 1 /\ inode' = ialloc("T_DIR")
    /\ w' = [w EXCEPT !.at = "next", !.inum = ROOTINO, !.p = <<ROOTINO, ROOTINO>>]
    /\ UNCHANGED <<args, disk, bitmap, freeblock, usedblocks>>

\* One file of the command line: its inode, its entry in the root, then its data.
main_file ==
    /\ w.at = "next" /\ w.p = <<>> /\ w.arg < Len(args)
    /\ freeinode' = freeinode + 1 /\ inode' = ialloc("T_FILE")
    /\ w' = [w EXCEPT !.at = "copy", !.arg = @ + 1, !.read = 0, !.inum = ROOTINO, !.p = <<freeinode>>]
    /\ UNCHANGED <<args, disk, bitmap, freeblock, usedblocks>>
main_copy(cc) ==
    /\ w.at = "copy" /\ w.p = <<>> /\ cc <= args[w.arg] - w.read
    /\ w' = IF cc = 0 THEN [w EXCEPT !.at = "next"]
            ELSE [w EXCEPT !.read = @ + cc, !.inum = w.arg + 1, !.p = [c \in 1 .. cc |-> Cell(w.arg, w.read + c)]]
    /\ (cc = 0 => w.read = args[w.arg])
    /\ UNCHANGED <<args, disk, inode, bitmap, freeblock, usedblocks, freeinode>>

\* The blocks one turn of iappend hands out for file block fbn of din, and where
\* they go: a direct address, or the indirect block and an address in it.
Direct(din, fbn) ==
    [addrs |-> [din.addrs EXCEPT ![fbn] = IF @ = 0 THEN freeblock ELSE @], d |-> disk,
     x |-> IF din.addrs[fbn] = 0 THEN freeblock ELSE din.addrs[fbn],
     new |-> IF din.addrs[fbn] = 0 THEN 1 ELSE 0]

\* Mutant of Indirect: the indirect block is not written back.
Indirect_lost(din, fbn) ==
    LET n1 == IF din.addrs[NDIRECT] = 0 THEN 1 ELSE 0
        ib == IF n1 = 1 THEN freeblock ELSE din.addrs[NDIRECT]
    IN [addrs |-> [din.addrs EXCEPT ![NDIRECT] = ib], d |-> disk, x |-> freeblock + n1, new |-> n1 + 1]

Indirect(din, fbn) ==
    LET n1 == IF din.addrs[NDIRECT] = 0 THEN 1 ELSE 0
        ib == IF n1 = 1 THEN freeblock ELSE din.addrs[NDIRECT]
        old == disk[ib][fbn - NDIRECT]
        x == IF old = 0 THEN freeblock + n1 ELSE old
    IN [addrs |-> [din.addrs EXCEPT ![NDIRECT] = ib],
        d |-> [disk EXCEPT ![ib][fbn - NDIRECT] = x],
        x |-> x, new |-> n1 + IF old = 0 THEN 1 ELSE 0]

\* Mutant of Used: a turn counts one block, the indirect block is forgotten.
Used_one(new) == usedblocks + min(new, 1)

Used(new) == usedblocks + new

\* A turn of iappend's loop: the cells that fit into the block at the end.
iappend ==
    LET din == inode[w.inum]
        off == din.size
        fbn == off \div BSIZE
        at == off % BSIZE
        n1 == min(Len(w.p), (fbn + 1) * BSIZE - off)
        b == IF fbn < NDIRECT THEN Direct(din, fbn) ELSE Indirect(din, fbn)
    IN /\ w.p # <<>> /\ fbn < MAXFILE /\ freeblock + b.new <= size
       /\ freeblock' = freeblock + b.new /\ usedblocks' = Used(b.new)
       /\ disk' = [b.d EXCEPT ![b.x] = [c \in DOMAIN @ |->
                      IF c \in at .. at + n1 - 1 THEN w.p[c - at + 1] ELSE @[c]]]
       /\ inode' = [inode EXCEPT ![w.inum].addrs = b.addrs, ![w.inum].size = off + n1]
       /\ w' = [w EXCEPT !.p = SubSeq(@, n1 + 1, Len(@))]
       /\ UNCHANGED <<args, bitmap, freeinode>>

\* What ends mkfs half-way: a file too large, or rsect beyond the end of the image.
iappend_fails ==
    LET din == inode[w.inum]
        fbn == din.size \div BSIZE
        b == IF fbn < NDIRECT THEN Direct(din, fbn) ELSE Indirect(din, fbn)
    IN /\ w.p # <<>> /\ w.at # "abort"
       /\ fbn < MAXFILE => freeblock + b.new > size
       /\ w' = [w EXCEPT !.at = "abort"]
       /\ UNCHANGED <<args, disk, inode, bitmap, freeblock, usedblocks, freeinode>>

\* The end of main: the root's size is rounded up, and balloc writes the bitmap.
main_done ==
    /\ w.at = "next" /\ w.p = <<>> /\ w.arg = Len(args)
    /\ inode' = [inode EXCEPT ![ROOTINO].size = (@ \div BSIZE + 1) * BSIZE]
    /\ IF usedblocks < BPB
       THEN bitmap' = 0 .. usedblocks - 1 /\ w' = [w EXCEPT !.at = "done"]
       ELSE bitmap' = bitmap /\ w' = [w EXCEPT !.at = "abort"]
    /\ UNCHANGED <<args, disk, freeblock, usedblocks, freeinode>>

Init ==
    /\ args \in UNION {[1 .. n -> 0 .. MaxUnits] : n \in 0 .. MaxFiles}
    /\ disk = [b \in Sectors |-> Zeroes] /\ inode = [i \in 1 .. ninodes - 1 |-> NoInode] /\ bitmap = {}
    /\ freeblock = metablocks /\ usedblocks = metablocks /\ freeinode = 1
    /\ w = [at |-> "main", arg |-> 0, read |-> 0, inum |-> 0, p |-> <<>>]
Next == main \/ main_file \/ (\E cc \in 0 .. BSIZE : main_copy(cc)) \/ iappend \/ iappend_fails \/ main_done
Spec == Init /\ [][Next]_vars

-----------------------------------------------------------------------------
(* Properties *)

\* What the kernel finds: the address of block bn of an inode (bmap, fs.c).
Addr(ip, bn) ==
    IF bn < NDIRECT THEN inode[ip].addrs[bn]
    ELSE IF inode[ip].addrs[NDIRECT] = 0 THEN 0 ELSE disk[inode[ip].addrs[NDIRECT]][bn - NDIRECT]
CellAt(ip, off) == IF Addr(ip, off \div BSIZE) = 0 THEN 0 ELSE disk[Addr(ip, off \div BSIZE)][off % BSIZE]

\* The finished image holds the host files: read through the inodes as the kernel
\* does, each has its size and contents, and the root names them in order.
ImageReads ==
    w.at = "done" =>
        /\ \A f \in DOMAIN args :
               /\ inode[f + 1].size = args[f]
               /\ \A n \in 1 .. args[f] : CellAt(f + 1, n - 1) = Cell(f, n)
               /\ CellAt(ROOTINO, f + 1) = f + 1
        /\ \A n \in Len(args) + 2 .. inode[ROOTINO].size - 1 : CellAt(ROOTINO, n) = 0

BlocksOf(ip) == {Addr(ip, bn) : bn \in 0 .. MAXFILE - 1} \cup {inode[ip].addrs[NDIRECT]}

\* The bitmap, computed from the one counter usedblocks, marks exactly the sectors
\* in use: boot and inode sectors, the bitmap itself, and the blocks of the files,
\* none of which is used twice.  The log's sectors are not marked, and files that need
\* more than nblocks are given them; others stay clear of the log.
BitmapExact ==
    w.at = "done" =>
        /\ bitmap = (0 .. metablocks - 1) \cup UNION {BlocksOf(i) \ {0} : i \in DOMAIN inode}
        /\ \A i, j \in DOMAIN inode : i # j => BlocksOf(i) \cap BlocksOf(j) \subseteq {0}
        /\ \A i \in DOMAIN inode : i2b(i) < ninodes \div IPB + 3
        /\ usedblocks <= metablocks + nblocks => \A i \in DOMAIN inode : BlocksOf(i) \cap LogSectors = {}
=============================================================================
