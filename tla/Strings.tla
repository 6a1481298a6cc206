------------------------------ MODULE Strings -------------------------------
(***************************************************************************)
(* memmove, strncpy, safestrcpy and strncmp of string.c, one turn of a     *)
(* loop per step, on a memory whose two operands may overlap in memmove.   *)
(***************************************************************************)
EXTENDS Integers

CONSTANTS
    SIZE,       \* addresses 0 .. SIZE - 1
    Chars       \* the values of a byte, 0 the NUL

\* What the constants have to satisfy.
StringsAssumption == SIZE \in Nat \ {0} /\ 0 \in Chars

VARIABLES
    mem, old,       \* the memory, and as it was at the call
    f, dst, src, len,   \* the function called and its arguments
    d, s, n, at,    \* its pointers and counter, and where it is
    ret             \* what strncmp returns

args == <<old, f, dst, src, len>>
vars == <<mem, args, d, s, n, at, ret>>

Addrs == 0 .. SIZE - 1
Pointers == 0 .. SIZE
Set(D, S, N, place) == d' = D /\ s' = S /\ n' = N /\ at' = place
Store(a, v) == mem' = [mem EXCEPT ![a] = v]

\* Mutant of Overlap: the regions that touch in the other direction are copied backwards.
Overlap_all == src < dst \/ src + len > dst

\* Would a copy forwards overwrite the source before it is read?
Overlap == src < dst /\ src + len > dst
memmove ==
    /\ f = "memmove" /\ at = "call"
    /\ IF Overlap THEN Set(dst + len, src + len, len, "down") ELSE Set(dst, src, len, "up")
    /\ UNCHANGED <<mem, args, ret>>
memmove_down ==
    /\ at = "down"
    /\ IF n > 0 THEN Store(d - 1, mem[s - 1]) /\ Set(d - 1, s - 1, n - 1, "down")
       ELSE Set(d, s, n, "done") /\ UNCHANGED mem
    /\ UNCHANGED <<args, ret>>
memmove_up ==
    /\ at = "up"
    /\ IF n > 0 THEN Store(d, mem[s]) /\ Set(d + 1, s + 1, n - 1, "up")
       ELSE Set(d, s, n, "done") /\ UNCHANGED mem
    /\ UNCHANGED <<args, ret>>

\* strncpy: n-- is evaluated also when the loop ends.
strncpy ==
    /\ f = "strncpy" /\ at \in {"call", "copy"}
    /\ IF n > 0 THEN Store(d, mem[s]) /\ Set(d + 1, s + 1, n - 1, IF mem[s] = 0 THEN "pad" ELSE "copy")
       ELSE Set(d, s, n - 1, "pad") /\ UNCHANGED mem
    /\ UNCHANGED <<args, ret>>
strncpy_pad ==
    /\ at = "pad"
    /\ IF n > 0 THEN Store(d, 0) /\ Set(d + 1, s, n - 1, "pad")
       ELSE Set(d, s, n - 1, "done") /\ UNCHANGED mem
    /\ UNCHANGED <<args, ret>>

\* Mutant of safestrcpy: the counter is tested before it is decremented.
safestrcpy_post ==
    /\ f = "safestrcpy" /\ at \in {"call", "copy"}
    /\ IF at = "call" /\ n <= 0 THEN Set(d, s, n, "done") /\ UNCHANGED mem
       ELSE IF n > 0 THEN Store(d, mem[s]) /\ Set(d + 1, s + 1, n - 1, IF mem[s] = 0 THEN "end" ELSE "copy")
       ELSE Set(d, s, n - 1, "end") /\ UNCHANGED mem
    /\ UNCHANGED <<args, ret>>

safestrcpy ==
    /\ f = "safestrcpy" /\ at \in {"call", "copy"}
    /\ IF at = "call" /\ n <= 0 THEN Set(d, s, n, "done") /\ UNCHANGED mem
       ELSE IF n - 1 > 0 THEN Store(d, mem[s]) /\ Set(d + 1, s + 1, n - 1, IF mem[s] = 0 THEN "end" ELSE "copy")
       ELSE Set(d, s, n - 1, "end") /\ UNCHANGED mem
    /\ UNCHANGED <<args, ret>>
safestrcpy_end ==
    /\ at = "end" /\ Store(d, 0) /\ Set(d, s, n, "done") /\ UNCHANGED <<args, ret>>

\* Mutant of strncmp: the comparison goes on after the NUL.
strncmp_past ==
    /\ f = "strncmp" /\ at \in {"call", "copy"}
    /\ IF n > 0 /\ mem[d] = mem[s] THEN Set(d + 1, s + 1, n - 1, "copy") /\ UNCHANGED ret
       ELSE Set(d, s, n, "done") /\ ret' = IF n = 0 THEN 0 ELSE mem[d] - mem[s]
    /\ UNCHANGED <<mem, args>>

strncmp ==
    /\ f = "strncmp" /\ at \in {"call", "copy"}
    /\ IF n > 0 /\ mem[d] # 0 /\ mem[d] = mem[s] THEN Set(d + 1, s + 1, n - 1, "copy") /\ UNCHANGED ret
       ELSE Set(d, s, n, "done") /\ ret' = IF n = 0 THEN 0 ELSE mem[d] - mem[s]
    /\ UNCHANGED <<mem, args>>

\* A call, with operands that lie in the memory; those of the string functions do not overlap.
Fits(F, D, S, N) ==
    /\ D + N <= SIZE /\ S + N <= SIZE
    /\ F # "memmove" => D + N <= S \/ S + N <= D
Init ==
    /\ mem \in [Addrs -> Chars] /\ old = mem /\ ret = 0
    /\ f \in {"memmove", "strncpy", "safestrcpy", "strncmp"}
    /\ dst \in Pointers /\ src \in Pointers /\ len \in Pointers /\ Fits(f, dst, src, len)
    /\ d = dst /\ s = src /\ n = len /\ at = "call"
Next ==
    \/ memmove \/ memmove_down \/ memmove_up \/ strncpy \/ strncpy_pad
    \/ safestrcpy \/ safestrcpy_end \/ strncmp
Spec == Init /\ [][Next]_vars

-----------------------------------------------------------------------------
(* Properties *)

Done(g) == f = g /\ at = "done"
Outside == \A a \in Addrs \ (dst .. dst + len - 1) : mem[a] = old[a]
StrLen(a) == CHOOSE k \in 0 .. len : (k = len \/ old[a + k] = 0) /\ \A j \in 0 .. k - 1 : old[a + j] # 0

\* memmove leaves in dst what src held at the call, however the two overlap, and
\* touches nothing else.
MoveCopies == Done("memmove") => Outside /\ \A k \in 0 .. len - 1 : mem[dst + k] = old[src + k]

\* strncpy and safestrcpy write in the len bytes of dst only: the string, cut if it
\* is too long; strncpy fills the rest with NULs, safestrcpy always ends in a NUL
\* ("guaranteed to NUL-terminate").
CopiesBounded ==
    /\ f \in {"strncpy", "safestrcpy"} => Outside
    /\ Done("strncpy") =>
           \A k \in 0 .. len - 1 : mem[dst + k] = IF k < StrLen(src) THEN old[src + k] ELSE 0
    /\ Done("safestrcpy") /\ len > 0 =>
           LET k == IF StrLen(src) < len THEN StrLen(src) ELSE len - 1
           IN mem[dst + k] = 0 /\ \A j \in 0 .. k - 1 : mem[dst + j] = old[src + j]

\* strncmp returns 0 exactly for names that agree up to len or their NUL, which is
\* when namecmp lets a directory have one entry for both.
SameName ==
    Done("strncmp") =>
        (ret = 0) = (StrLen(dst) = StrLen(src) /\ \A k \in 0 .. StrLen(dst) - 1 : old[dst + k] = old[src + k])
=============================================================================
