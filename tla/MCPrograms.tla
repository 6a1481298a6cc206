----------------------------- MODULE MCPrograms -----------------------------
(***************************************************************************)
(* Instances for TLC of the user programs with an algorithm in them (sh,   *)
(* grep, mkfs, printf) and of the kernel's argument fetching and string    *)
(* functions, each against its reference over bounded inputs.  A behaviour *)
(* is one of one instance, which component names; the variables that it    *)
(* does not have keep one value.                                           *)
(***************************************************************************)
EXTENDS Naturals, Sequences

VARIABLES
    component, buf, out, at,
    fmt, num, i, state, ap,
    sz, nul, ofile, esp, c, taken,
    mem, old, f, dst, src, len, d, s, n, ret,
    line, cmd,
    lines, pr,
    re, input, m, p, pos, clean,
    args, disk, inode, bitmap, freeblock, usedblocks, freeinode, w

\* Words of five bits and every format of up to four characters.
Format == INSTANCE Printf WITH Word <- 32, FmtChars <- {"a", "%", "d", "x", "s", "c"}, MaxFmt <- 4

\* Sixteen addresses, half of them the kernel's, and a table with a hole in it.
Fetch == INSTANCE Sysargs WITH Word <- 16, KERNBASE <- 8, INT <- 2, NOFILE <- 2, MAXARG <- 2,
    SYSCALLS <- [x \in 0 .. 4 |-> <<"none", "fd", "buf", "str", "exec">>[x + 1]]

\* Six bytes: regions of up to three that overlap in every way.
Copy == INSTANCE Strings WITH SIZE <- 6, Chars <- {0, 1, 2}

\* Every line of up to five characters, and longer ones of fewer characters.
Parser == INSTANCE ShellParser WITH Chars <- {"x", " ", "<", ">", "|", "&", ";", "(", ")"}, MaxLine <- 5, MAXARGS <- 3
Nested == INSTANCE ShellParser WITH Chars <- {"x", ">", ";", "(", ")"}, MaxLine <- 7, MAXARGS <- 3

X == [type |-> "EXEC", argv |-> <<"x">>]
Nothing == [type |-> "EXEC", argv |-> <<>>]
Piped(a, b) == [type |-> "PIPE", left |-> a, right |-> b]
Listed(a, b) == [type |-> "LIST", left |-> a, right |-> b]
Back(a) == [type |-> "BACK", cmd |-> a]
Into(a, name) == [type |-> "REDIR", cmd |-> a, file |-> name, fd |-> 1]
From(a, name) == [type |-> "REDIR", cmd |-> a, file |-> name, fd |-> 0]

\* Pipelines, lists, blocks, background commands and redirections inside each other.
ShellCmds ==
    {Piped(X, Piped(X, X)), Listed(Back(Piped(X, X)), X), Piped(Listed(X, X), From(X, "f")),
     Into(Piped(Into(Into(X, "f"), "g"), X), "h"), Listed(Listed(X, Back(X)), Nothing)}
Sh == INSTANCE Shell WITH Cmds <- ShellCmds, MaxLines <- 2, NOFILE <- 6, FORKFAILS <- FALSE
ShFails == INSTANCE Shell WITH Cmds <- ShellCmds, MaxLines <- 2, NOFILE <- 6, FORKFAILS <- TRUE

\* Every pattern and text of up to four characters; a line fits the buffer.
Regexp == INSTANCE Grep WITH ReChars <- {"a", ".", "*", "^", "$"}, TextChars <- {"a", "b"},
    MaxRe <- 4, MaxInput <- 4, MaxLine <- 4, BUF <- 5, Pieces <- FALSE

\* Texts that take up to three reads.
Refill == INSTANCE Grep WITH ReChars <- {"a", "^"}, TextChars <- {"a", "b"},
    MaxRe <- 1, MaxInput <- 7, MaxLine <- 3, BUF <- 4, Pieces <- FALSE

\* Two files of up to a direct and the indirect blocks; inodes in three blocks.
Image == INSTANCE Mkfs WITH size <- 16, nblocks <- 8, nlog <- 2, ninodes <- 5, IPB <- 2, BSIZE <- 4, NDIRECT <- 1,
    MaxFiles <- 2, MaxUnits <- 21

ASSUME
    /\ Format!PrintfAssumption /\ Fetch!SysargsAssumption /\ Copy!StringsAssumption
    /\ Parser!ShellParserAssumption /\ Nested!ShellParserAssumption
    /\ Sh!ShellAssumption /\ ShFails!ShellAssumption /\ Image!MkfsAssumption

\* The variables of each program; buf is sh's or grep's, out printf's or grep's,
\* at grep's or the string functions'.
formatVars == <<fmt, num, i, state, ap>>
fetchVars == <<sz, nul, ofile, esp, c, taken>>
copyVars == <<mem, old, f, dst, src, len, d, s, n, ret>>
parserVars == <<line, cmd>>
shVars == <<lines, pr>>
grepVars == <<re, input, m, p, pos, clean>>
imageVars == <<args, disk, inode, bitmap, freeblock, usedblocks, freeinode, w>>
ProgramsVars == <<component, buf, out, at, formatVars, fetchVars, copyVars, parserVars, shVars, grepVars, imageVars>>

NoFormat == fmt = 0 /\ num = 0 /\ i = 0 /\ state = 0 /\ ap = 0
NoFetch == sz = 0 /\ nul = 0 /\ ofile = 0 /\ esp = 0 /\ c = 0 /\ taken = 0
NoCopy == mem = 0 /\ old = 0 /\ f = 0 /\ dst = 0 /\ src = 0 /\ len = 0 /\ d = 0 /\ s = 0 /\ n = 0 /\ ret = 0
NoParser == line = 0 /\ cmd = 0
NoSh == lines = <<>> /\ pr = <<>>
NoGrep == re = 0 /\ input = 0 /\ m = 0 /\ p = 0 /\ pos = 0 /\ clean = 0
NoImage ==
    /\ args = 0 /\ disk = 0 /\ inode = 0 /\ bitmap = 0
    /\ freeblock = 0 /\ usedblocks = 0 /\ freeinode = 0 /\ w = 0

ProgramsInit ==
    \/ /\ component = "format" /\ Format!Init /\ buf = 0 /\ at = 0
       /\ NoFetch /\ NoCopy /\ NoParser /\ NoSh /\ NoGrep /\ NoImage
    \/ /\ component = "fetch" /\ Fetch!Init /\ buf = 0 /\ out = 0 /\ at = 0
       /\ NoFormat /\ NoCopy /\ NoParser /\ NoSh /\ NoGrep /\ NoImage
    \/ /\ component = "copy" /\ Copy!Init /\ buf = 0 /\ out = 0
       /\ NoFormat /\ NoFetch /\ NoParser /\ NoSh /\ NoGrep /\ NoImage
    \/ /\ \/ component = "parser" /\ Parser!Init
          \/ component = "nested" /\ Nested!Init
       /\ out = 0 /\ at = 0
       /\ NoFormat /\ NoFetch /\ NoCopy /\ NoSh /\ NoGrep /\ NoImage
    \/ /\ \/ component = "sh" /\ Sh!Init
          \/ component = "shfails" /\ ShFails!Init
       /\ buf = 0 /\ out = 0 /\ at = 0
       /\ NoFormat /\ NoFetch /\ NoCopy /\ NoParser /\ NoGrep /\ NoImage
    \/ /\ \/ component = "grep" /\ Regexp!Init
          \/ component = "refill" /\ Refill!Init
       /\ NoFormat /\ NoFetch /\ NoCopy /\ NoParser /\ NoSh /\ NoImage
    \/ /\ component = "image" /\ Image!Init /\ buf = 0 /\ out = 0 /\ at = 0
       /\ NoFormat /\ NoFetch /\ NoCopy /\ NoParser /\ NoSh /\ NoGrep

ProgramsNext ==
    /\ UNCHANGED component
    /\ \/ /\ component = "format" /\ Format!Next
          /\ UNCHANGED <<buf, at, fetchVars, copyVars, parserVars, shVars, grepVars, imageVars>>
       \/ /\ component = "fetch" /\ Fetch!Next
          /\ UNCHANGED <<buf, out, at, formatVars, copyVars, parserVars, shVars, grepVars, imageVars>>
       \/ /\ component = "copy" /\ Copy!Next
          /\ UNCHANGED <<buf, out, formatVars, fetchVars, parserVars, shVars, grepVars, imageVars>>
       \/ /\ \/ component = "parser" /\ Parser!Next
             \/ component = "nested" /\ Nested!Next
          /\ UNCHANGED <<out, at, formatVars, fetchVars, copyVars, shVars, grepVars, imageVars>>
       \/ /\ \/ component = "sh" /\ Sh!Next
             \/ component = "shfails" /\ ShFails!Next
          /\ UNCHANGED <<buf, out, at, formatVars, fetchVars, copyVars, parserVars, grepVars, imageVars>>
       \/ /\ \/ component = "grep" /\ Regexp!Next
             \/ component = "refill" /\ Refill!Next
          /\ UNCHANGED <<formatVars, fetchVars, copyVars, parserVars, shVars, imageVars>>
       \/ /\ component = "image" /\ Image!Next
          /\ UNCHANGED <<buf, out, at, formatVars, fetchVars, copyVars, parserVars, shVars, grepVars>>

\* The processes of the shell run, and programs end once their input has ended.
ProgramsFairness == WF_shVars(component = "shfails" /\ ShFails!Run)

ProgramsSpec == ProgramsInit /\ [][ProgramsNext]_ProgramsVars /\ ProgramsFairness

-----------------------------------------------------------------------------
(* Properties: those of the modules where they apply. *)

\* The prompt comes back: no pipe keeps a reader waiting for an end that somebody
\* forgot to close, and no wait waits for ever.
PromptReturns == component = "shfails" => ShFails!PromptReturns

\* grep has written exactly the lines of what it has read that the pattern accepts, in
\* their order, the lines included that came in two reads, as long as no read left text
\* of an earlier one right behind its own (strchr looks for a NUL that nobody wrote).
PrintsMatches ==
    /\ component = "grep" => Regexp!PrintsMatches
    /\ component = "refill" => Refill!PrintsMatches

\* printf and cprintf print the same text for the directives both know, but for the case
\* of hexadecimal digits, and what either printint prints reads back as the number, the
\* smallest int included.
PrintsRight == component = "format" => Format!SameText /\ Format!ReadsBack

\* What the kernel accepts for a call lies in the process, a buffer with a negative count
\* excepted, of which argptr tests only the first byte; ofile and sys_exec's argv are
\* indexed inside their bounds (fetchint, fetchstr, argptr, argfd).
InBounds == component = "fetch" => Fetch!InProcess /\ Fetch!InArrays

\* The string functions keep what callers count on: memmove copies what src held,
\* however the regions overlap; strncpy and safestrcpy stay in the bytes they are given,
\* cut and terminate; strncmp returns 0 exactly for equal names.
StringsRight == component = "copy" => Copy!MoveCopies /\ Copy!CopiesBounded /\ Copy!SameName

\* parsecmd accepts the lines of the grammar and builds their tree, and no terminator
\* that nulterminate writes falls inside another word.
IsGrammar ==
    /\ component = "parser" => Parser!IsGrammar /\ Parser!StringsAreWords
    /\ component = "nested" => Nested!IsGrammar

\* A program starts in its turn, with the descriptors its place in the command asks for
\* and nothing else open, also when some fork of runcmd failed.
Plumbed ==
    /\ component = "shfails" => ShFails!Plumbed
    /\ component = "sh" => Sh!ListInOrder

\* The image mkfs writes holds the host files, read as the kernel reads it, and its
\* bitmap marks exactly the sectors in use, none of which is used twice.
ImageReads == component = "image" => Image!ImageReads /\ Image!BitmapExact
=============================================================================
