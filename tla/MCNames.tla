------------------------------- MODULE MCNames -------------------------------
(***************************************************************************)
(* Instances for TLC of what names and counts files: directories, the      *)
(* inode cache and the table of open files.  A behaviour is one of one     *)
(* instance, which component names; the variables that it does not have    *)
(* keep one value.                                                         *)
(***************************************************************************)
EXTENDS Inode, TLC

CONSTANTS p1, p2, p3

\* Inode itself is the instance of the cache.
VARIABLES
    component,
    node, lock, trans2, pr2,
    file, ofile, held

C(op, path) == [op |-> op, path |-> path, new |-> <<>>]

\* Calls with absolute paths: directories, files in them, links to them.
Absolute ==
    {C("mkdir", <<"/", "a">>), C("unlink", <<"/", "a">>), C("create", <<"/", "a", "b">>), C("unlink", <<"/", "a", "b">>),
     C("open", <<"/", "a", "b">>), C("close", <<>>), C("create", <<"/", "b">>),
     [op |-> "link", path |-> <<"/", "b">>, new |-> <<"/", "a", "b">>]}

\* Calls that move to a directory, remove it and its parent, and use it further.
Moving ==
    {C("mkdir", <<"/", "a">>), C("mkdir", <<"/", "a", "b">>), C("chdir", <<"/", "a", "b">>),
     C("unlink", <<"/", "a", "b">>), C("unlink", <<"/", "a">>), C("open", <<"..", "b">>), C("create", <<"b">>)}

Tree == INSTANCE Dirs WITH Procs <- {p1, p2}, NINUMS <- 4, Names <- {"a", "b"}, Calls <- Absolute,
    trans <- trans2, pr <- pr2
Cwd == INSTANCE Dirs WITH Procs <- {p1, p2}, NINUMS <- 4, Names <- {"a", "b"}, Calls <- Moving,
    trans <- trans2, pr <- pr2
Ftable == INSTANCE Files WITH Procs <- {1, 2}, initproc <- 1, NFILE <- 3, NOFILE <- 2, NOBJS <- 4, pr <- pr2

ASSUME Ftable!FilesAssumption

dirVars == <<node, lock, trans2>>
fileVars == <<file, ofile, held>>
NamesVars == <<component, vars, dirVars, pr2, fileVars>>

NoDirs == node = 0 /\ lock = 0 /\ trans2 = 0
NoFiles == file = 0 /\ ofile = 0 /\ held = 0

NamesInit ==
    /\ Init
    /\ \/ component = "tree" /\ Tree!Init /\ NoFiles
       \/ component = "cwd" /\ Cwd!Init /\ NoFiles
       \/ component = "ftable" /\ Ftable!Init /\ NoDirs
       \/ component = "icache" /\ NoDirs /\ NoFiles /\ pr2 = 0

NamesNext ==
    /\ UNCHANGED component
    /\ \/ component = "tree" /\ Tree!Next /\ UNCHANGED <<vars, fileVars>>
       \/ component = "cwd" /\ Cwd!Next /\ UNCHANGED <<vars, fileVars>>
       \/ component = "icache" /\ Next /\ UNCHANGED <<dirVars, pr2, fileVars>>
       \/ component = "ftable" /\ Ftable!Next /\ UNCHANGED <<vars, dirVars>>

NamesSpec == NamesInit /\ [][NamesNext]_NamesVars

NamesSymmetry == Permutations({p1, p2})

-----------------------------------------------------------------------------
(* Properties: InodesShared of Inode, and those of Dirs and Files where they apply. *)

\* Directories are a tree, also when current directories are removed (create,
\* sys_link, sys_unlink).
DirectoryTree ==
    /\ component = "tree" => Tree!DirectoryTree
    /\ component = "cwd" => Cwd!DirectoryTree

\* No two calls wait for each other, for inodes or for the log (sys_unlink, create,
\* sys_open, namex).
NoCircularWait ==
    /\ component = "tree" => Tree!NoCircularWait
    /\ component = "cwd" => Cwd!NoCircularWait

\* Outside transactions nlink is the number of links to an inode and no entry names a
\* free one, whatever calls of link, unlink, create and mkdir were interleaved and
\* failed on the way; with processes in removed directories nlink is never too small.
LinksExact ==
    /\ component = "tree" => Tree!LinksExact /\ Tree!NoDangling
    /\ component = "cwd" => Cwd!NamedNotFree

\* An inode or pipe end is released when the last descriptor for it goes, not before
\* and not later than the fileclose under way, through dup, fork, exit and calls of
\* open and pipe that fail (fileclose).
HeldWhileOpen == component = "ftable" => Ftable!RefsExact /\ Ftable!OpenIsHeld /\ Ftable!NothingLeft
=============================================================================
