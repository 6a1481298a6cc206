------------------------------ MODULE MCStorage ------------------------------
(***************************************************************************)
(* Instances for TLC of what keeps data on the disk: the log, the buffer   *)
(* cache with its driver, and the contents of files.  They share no state  *)
(* here, so a behaviour is one of one instance: component says which, the  *)
(* variables of the others keep one value, and the states TLC explores are *)
(* the disjoint union of the instances'.                                   *)
(***************************************************************************)
EXTENDS Log, FiniteSets, TLC

VARIABLES
    component,
    buf, lru, idequeue, drive, irq, platter, place, wanted, cur, held,
    bitmap, blk, inode, log, w, want

\* The cache over the IDE disk.
Cache == INSTANCE Bcache WITH Bufs <- {1, 2}, Sectors <- {1, 2, 3}, Data <- {0, 1}, MaxHeld <- 1, MaxPinned <- 0,
    SPURIOUS <- FALSE, ERRORS <- FALSE, MEMDISK <- FALSE, disk <- platter, want <- wanted

\* The same with interrupts that nobody asked for.
Spurious == INSTANCE Bcache WITH Bufs <- {1, 2}, Sectors <- {1, 2, 3}, Data <- {0, 1}, MaxHeld <- 1, MaxPinned <- 0,
    SPURIOUS <- TRUE, ERRORS <- FALSE, MEMDISK <- FALSE, disk <- platter, want <- wanted

\* The cache over the memory disk.
Memide == INSTANCE Bcache WITH Bufs <- {1, 2}, Sectors <- {1, 2, 3}, Data <- {0, 1}, MaxHeld <- 1, MaxPinned <- 0,
    SPURIOUS <- FALSE, ERRORS <- FALSE, MEMDISK <- TRUE, disk <- platter, want <- wanted

\* A buffer pinned by the log, and just enough buffers.
Pinned == INSTANCE Bcache WITH Bufs <- {1, 2, 3}, Sectors <- {1, 2, 3, 4}, Data <- {0}, MaxHeld <- 1, MaxPinned <- 1,
    SPURIOUS <- FALSE, ERRORS <- FALSE, MEMDISK <- FALSE, disk <- platter, want <- wanted

\* A buffer less than that, as NBUF may be: bget may find none.
Few == INSTANCE Bcache WITH Bufs <- {1, 2}, Sectors <- {1, 2, 3}, Data <- {0}, MaxHeld <- 1, MaxPinned <- 1,
    SPURIOUS <- FALSE, ERRORS <- FALSE, MEMDISK <- FALSE, disk <- platter, want <- wanted

\* A drive that fails to read.
Failing == INSTANCE Bcache WITH Bufs <- {1, 2}, Sectors <- {1, 2}, Data <- {0, 1}, MaxHeld <- 1, MaxPinned <- 0,
    SPURIOUS <- FALSE, ERRORS <- TRUE, MEMDISK <- FALSE, disk <- platter, want <- wanted

\* One file on a disk that it fills to the last block, one on a disk too small for it,
\* and two files on a disk that they can fill up to the log, and beyond.
OneFile == INSTANCE FileData WITH Inums <- {1}, NBLOCKS <- 4, NLOG <- 0, BSIZE <- 2, NDIRECT <- 1, NINDIRECT <- 2,
    LOGSIZE <- 6, Bytes <- {7, 8}, Lengths <- {1, 2, 3, 6}
TooSmall == INSTANCE FileData WITH Inums <- {1}, NBLOCKS <- 2, NLOG <- 0, BSIZE <- 2, NDIRECT <- 1, NINDIRECT <- 2,
    LOGSIZE <- 6, Bytes <- {7, 8}, Lengths <- {1, 3}
TwoFiles == INSTANCE FileData WITH Inums <- {1, 2}, NBLOCKS <- 8, NLOG <- 1, BSIZE <- 2, NDIRECT <- 1, NINDIRECT <- 2,
    LOGSIZE <- 6, Bytes <- {7}, Lengths <- {2, 5}

ASSUME
    /\ Cache!BcacheAssumption /\ Spurious!BcacheAssumption /\ Memide!BcacheAssumption /\ Pinned!BcacheAssumption
    /\ Failing!BcacheAssumption /\ Few!BcacheAssumption /\ ~Few!BuffersSuffice
    /\ Cache!BuffersSuffice /\ Pinned!BuffersSuffice /\ Failing!BuffersSuffice
    /\ OneFile!FileDataAssumption /\ TooSmall!FileDataAssumption /\ TwoFiles!FileDataAssumption

cacheVars == <<buf, lru, idequeue, drive, irq, platter, place, wanted, cur, held>>
fileVars == <<bitmap, blk, inode, log, w, want>>
StorageVars == <<component, vars, cacheVars, fileVars>>

CacheOff ==
    /\ buf = 0 /\ lru = 0 /\ idequeue = 0 /\ drive = 0 /\ irq = 0 /\ platter = 0 /\ place = 0 /\ wanted = 0
    /\ cur = 0 /\ held = 0
FilesOff == bitmap = 0 /\ blk = 0 /\ inode = 0 /\ log = 0 /\ w = 0 /\ want = 0

StorageInit ==
    \/ component = "log" /\ Init /\ CacheOff /\ FilesOff
    \/ /\ component \in {"cache", "spurious", "memide", "pinned", "few", "failing", "file", "small", "files"}
       /\ Init /\ Cardinality({disk[b] : b \in Blocks} \cup {dlog[i] : i \in 1 .. LOGSIZE}) = 1
       /\ \/ component = "cache" /\ Cache!Init /\ FilesOff
          \/ component = "spurious" /\ Spurious!Init /\ FilesOff
          \/ component = "memide" /\ Memide!Init /\ FilesOff
          \/ component = "pinned" /\ Pinned!Init /\ FilesOff
          \/ component = "few" /\ Few!Init /\ FilesOff
          \/ component = "failing" /\ Failing!Init /\ FilesOff
          \/ component = "file" /\ OneFile!Init /\ CacheOff
          \/ component = "small" /\ TooSmall!Init /\ CacheOff
          \/ component = "files" /\ TwoFiles!Init /\ CacheOff

StorageNext ==
    /\ UNCHANGED component
    /\ \/ component = "log" /\ Next /\ UNCHANGED <<cacheVars, fileVars>>
       \/ component = "cache" /\ Cache!Next /\ UNCHANGED <<vars, fileVars>>
       \/ component = "spurious" /\ Spurious!Next /\ UNCHANGED <<vars, fileVars>>
       \/ component = "memide" /\ Memide!Next /\ UNCHANGED <<vars, fileVars>>
       \/ component = "pinned" /\ Pinned!Next /\ UNCHANGED <<vars, fileVars>>
       \/ component = "few" /\ Few!Next /\ UNCHANGED <<vars, fileVars>>
       \/ component = "failing" /\ Failing!Next /\ UNCHANGED <<vars, fileVars>>
       \/ component = "file" /\ OneFile!Next /\ UNCHANGED <<vars, cacheVars>>
       \/ component = "small" /\ TooSmall!Next /\ UNCHANGED <<vars, cacheVars>>
       \/ component = "files" /\ TwoFiles!Next /\ UNCHANGED <<vars, cacheVars>>

StorageSpec == StorageInit /\ [][StorageNext]_StorageVars

StorageSymmetry == Permutations(Procs) \cup Permutations(Values)

-----------------------------------------------------------------------------
(* Properties.  Those of Log are unchanged; the others are the properties of  *)
(* Bcache and FileData in the instances where they apply.                     *)

\* filewrite cuts a write so that each transaction fits the log.
TransactionFits == component = "file" => OneFile!TransactionFits

\* bget gives a sector one buffer and a buffer one process, whatever the drive
\* answers; it makes a process wait only for a buffer that somebody has, and panics only
\* when every buffer is held or pinned, so never where there are enough (bget looks
\* again after it slept, brelse wakes all).
BuffersShared ==
    /\ component = "cache" => Cache!BuffersShared /\ Cache!NoPanic
    /\ component = "failing" => Failing!BuffersShared /\ Failing!NoPanic
    /\ component = "pinned" => Pinned!BuffersShared /\ Pinned!NoPanic
    /\ component = "few" => Few!BuffersShared

\* A file keeps its bytes and its blocks: readi returns what writei wrote, across
\* blocks, into the indirect block, on a disk filled to the last block before the log
\* and in blocks that belonged to another file, and the bitmap marks exactly the blocks of files, none in
\* two (writei, bmap, balloc, bfree, itrunc).
FilesKept ==
    /\ component = "file" => OneFile!ReadsBack
    /\ component = "small" => TooSmall!ReadsBack /\ TooSmall!BitmapExact
    /\ component = "files" => TwoFiles!ReadsBack /\ TwoFiles!BitmapExact

\* Over each of the two disk drivers, and with interrupts nobody asked for, the cache
\* is an array of blocks with one owner each that holds what was last written; and with
\* the IDE disk a block is on the platter when bwrite returns, not only on its way,
\* which the order of the log's writes depends on (bread, bwrite, brelse, ideintr).
IsBlockStore ==
    /\ component = "cache" => Cache!Abstract!Init
    /\ component = "spurious" => Spurious!Abstract!Init
    /\ component = "memide" => Memide!Abstract!Init
    /\ [][component = "cache" => [Cache!Abstract!Next]_(Cache!Abstract!vars) /\ Cache!WriteThrough]_StorageVars
    /\ [][component = "spurious" => [Spurious!Abstract!Next]_(Spurious!Abstract!vars)]_StorageVars
    /\ [][component = "memide" => [Memide!Abstract!Next]_(Memide!Abstract!vars)]_StorageVars
=============================================================================
