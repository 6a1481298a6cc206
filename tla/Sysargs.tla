------------------------------ MODULE Sysargs -------------------------------
(***************************************************************************)
(* The arguments of a system call (syscall.c, argfd and sys_exec of        *)
(* sysfile.c): the kernel takes integers, buffers, strings and file        *)
(* descriptors from the memory of the process after testing their bounds   *)
(* in unsigned arithmetic, which goes round.                               *)
(***************************************************************************)
EXTENDS Integers, FiniteSets

CONSTANTS
    Word, KERNBASE,     \* the number of addresses, and the first of the kernel's
    INT,                \* the size of an int
    NOFILE, MAXARG,
    SYSCALLS            \* the kind of call at each number of the table, "none" in a hole

\* What the constants have to satisfy.
SysargsAssumption ==
    /\ Word \in Nat /\ KERNBASE \in 1 .. Word \div 2 /\ INT \in 1 .. KERNBASE
    /\ NOFILE \in Nat \ {0} /\ MAXARG \in Nat \ {0}

VARIABLES
    sz, nul, ofile,     \* the process: its size, where its memory has a NUL, its open descriptors
    esp,                \* the stack pointer at the call
    c,                  \* where the call is: its place, the index i and uargv of sys_exec
    taken               \* what the call has accepted so far: kind, first and length

vars == <<sz, nul, ofile, esp, c, taken>>
process == <<sz, nul, ofile, esp>>

Uint == 0 .. Word - 1
Sint == -(Word \div 2) .. Word \div 2 - 1
Unsigned(i) == i % Word
Add(a, b) == (a + b) % Word

\* Mutant of fetchint: only the end of the int is compared.
fetchint_end(addr) == Add(addr, INT) <= sz

\* Is the int at addr accepted?
fetchint(addr) == addr < sz /\ Add(addr, INT) <= sz

\* The length of the string at addr, -1 if it is not accepted.
fetchstr(addr) ==
    LET ends == {e \in nul : addr <= e /\ e < sz}
    IN IF addr < sz /\ ends # {} THEN (CHOOSE e \in ends : \A d \in ends : e <= d) - addr ELSE -1

argint(n) == fetchint(Add(Add(esp, INT), INT * n))

\* Mutant of argptr: only the end of the block is compared.
argptr_end(i, size) == Add(Unsigned(i), Unsigned(size)) <= sz

\* argptr's bounds, for the value i of its argument.
argptr(i, size) == Unsigned(i) < sz /\ Add(Unsigned(i), Unsigned(size)) <= sz

argfd(fd) == fd >= 0 /\ fd < NOFILE /\ fd \in ofile

Got(kind, lo, len) == [kind |-> kind, lo |-> lo, len |-> len]
GotInt(n) == Got("int", Add(Add(esp, INT), INT * n), INT)
Refuse == c' = [c EXCEPT !.at = "refused"] /\ UNCHANGED <<process, taken>>
Accept(got) == c' = [c EXCEPT !.at = "done"] /\ taken' = taken \cup got /\ UNCHANGED process

\* syscall: the number in eax picks the handler.
InTable(num) == num >= 0 /\ num \in DOMAIN SYSCALLS /\ SYSCALLS[num] # "none"
syscall(num) ==
    /\ c.at = "trap"
    /\ c' = [c EXCEPT !.at = IF InTable(num) THEN SYSCALLS[num] ELSE "refused"]
    /\ UNCHANGED <<process, taken>>

\* The handlers. What the process keeps in its memory is any value.
\* sys_dup, sys_close: one descriptor.
sys_close ==
    /\ c.at = "fd"
    /\ \E fd \in Sint : IF argint(0) /\ argfd(fd) THEN Accept({GotInt(0), Got("fd", fd, 1)}) ELSE Refuse

\* sys_read, sys_write: descriptor, buffer, count, which may be any int.
sys_read ==
    /\ c.at = "buf"
    /\ \E fd, i, n \in Sint :
           IF argint(0) /\ argfd(fd) /\ argint(2) /\ argint(1) /\ argptr(i, n)
           THEN Accept({GotInt(0), GotInt(1), GotInt(2), Got("fd", fd, 1), Got("ptr", Unsigned(i), n)})
           ELSE Refuse

\* sys_unlink, sys_mkdir, sys_chdir: a path.
sys_unlink ==
    /\ c.at = "str"
    /\ \E i \in Sint :
           IF argint(0) /\ fetchstr(Unsigned(i)) >= 0
           THEN Accept({GotInt(0), Got("str", Unsigned(i), fetchstr(Unsigned(i)) + 1)}) ELSE Refuse

\* sys_exec: a path, and the vector of its arguments up to a 0.
sys_exec ==
    /\ c.at = "exec"
    /\ \E i \in Sint, u \in Uint :
           IF argint(0) /\ fetchstr(Unsigned(i)) >= 0 /\ argint(1)
           THEN /\ c' = [at |-> "argv", i |-> 0, uargv |-> u]
                /\ taken' = taken \cup {GotInt(0), GotInt(1), Got("str", Unsigned(i), fetchstr(Unsigned(i)) + 1)}
                /\ UNCHANGED process
           ELSE Refuse

\* Mutant of exec_arg: the room in argv is tested after the store.
exec_arg_late ==
    LET addr == Add(c.uargv, INT * c.i) IN
    /\ c.at = "argv"
    /\ IF c.i > MAXARG \/ ~fetchint(addr) THEN Refuse
       ELSE \E uarg \in Uint :
           IF uarg = 0 THEN Accept({Got("int", addr, INT), Got("argv", c.i, 1)})
           ELSE IF fetchstr(uarg) < 0 THEN Refuse
           ELSE /\ c' = [c EXCEPT !.i = @ + 1]
                /\ taken' = taken \cup {Got("int", addr, INT), Got("str", uarg, fetchstr(uarg) + 1), Got("argv", c.i, 1)}
                /\ UNCHANGED process

exec_arg ==
    LET addr == Add(c.uargv, INT * c.i) IN
    /\ c.at = "argv"
    /\ IF c.i >= MAXARG \/ ~fetchint(addr) THEN Refuse
       ELSE \E uarg \in Uint :
           IF uarg = 0 THEN Accept({Got("int", addr, INT), Got("argv", c.i, 1)})
           ELSE IF fetchstr(uarg) < 0 THEN Refuse
           ELSE /\ c' = [c EXCEPT !.i = @ + 1]
                /\ taken' = taken \cup {Got("int", addr, INT), Got("str", uarg, fetchstr(uarg) + 1), Got("argv", c.i, 1)}
                /\ UNCHANGED process

\* The process goes on and calls again, its stack being anywhere.
sysret ==
    /\ c.at \in {"done", "refused"} /\ c' = [at |-> "trap", i |-> 0, uargv |-> 0]
    /\ taken' = {} /\ esp' \in Uint /\ UNCHANGED <<sz, nul, ofile>>

Init ==
    /\ sz \in 0 .. KERNBASE /\ nul \in {{}} \cup {{a} : a \in 0 .. KERNBASE - 1} /\ ofile = {0}
    /\ esp \in Uint /\ c = [at |-> "trap", i |-> 0, uargv |-> 0] /\ taken = {}
Next ==
    \/ \E num \in -1 .. Cardinality(DOMAIN SYSCALLS) : syscall(num)
    \/ sys_close \/ sys_read \/ sys_unlink \/ sys_exec \/ exec_arg \/ sysret
Spec == Init /\ [][Next]_vars

-----------------------------------------------------------------------------
(* Properties *)

\* What the kernel accepts for a call begins in the process, and ends in it unless it
\* is a buffer with a negative count: no int, no string and no count from 0 on passes
\* because an address plus a length went round. A negative count does (argptr adds it
\* to the address as a uint), and is left to fileread and filewrite.
InProcess ==
    \A t \in taken : t.kind \in {"int", "ptr", "str"} =>
        t.lo \in 0 .. sz - 1 /\ (t.len < 0 \/ t.lo + t.len <= sz)

\* The kernel's own arrays are indexed inside their bounds: ofile by a descriptor
\* that is open, argv of sys_exec by one below MAXARG, the last being the 0.
InArrays ==
    \A t \in taken : /\ t.kind = "fd" => t.lo \in ofile
                     /\ t.kind = "argv" => t.lo \in 0 .. MAXARG - 1
=============================================================================
