------------------------------ MODULE Umalloc ------------------------------
(***************************************************************************)
(* The allocator of the user library (user/umalloc.c): a circular list of  *)
(* free blocks in address order, first fit from where the last search      *)
(* ended, joined with their neighbours when freed.  Addresses count units  *)
(* of sizeof(Header); the program asks for bytes, and sbrk is given bytes. *)
(***************************************************************************)
EXTENDS Integers, FiniteSets

CONSTANTS
    NALLOC,     \* least number of units morecore asks sbrk for (4096)
    HEAP,       \* units the process can grow to
    HEADER,     \* sizeof(Header)
    WORD,       \* values of a uint: sizes in bytes go round here
    Requests,   \* nbytes of the calls of malloc
    Gaps        \* units the program takes with sbrk for itself

\* malloc's nunits, header included.
nunits(nbytes) == ((nbytes + HEADER - 1) % WORD) \div HEADER + 1

\* What morecore asks for.
AtLeast(n) == IF n < NALLOC THEN NALLOC ELSE n

\* What the constants have to satisfy. Requests are assumed to be small enough that
\* neither sum nor product goes round and sbrk's int argument is not negative; malloc
\* tests none of this.
UmallocAssumption ==
    /\ NALLOC \in Nat \ {0} /\ HEAP \in Nat /\ HEADER \in Nat \ {0} /\ WORD \in Nat \ {0}
    /\ Gaps \subseteq Nat \ {0} /\ Requests \subseteq Nat
    /\ \A n \in Requests : n + HEADER - 1 < WORD /\ AtLeast(nunits(n)) * HEADER < WORD \div 2

Null == -1
base == 0                       \* &base lies below the heap
Addrs == base .. HEAP

VARIABLES
    ptr, size,  \* s.ptr and s.size of the header at each address
    freep,
    brk,        \* what sbrk(0) returns
    core,       \* history: the units morecore got
    used,       \* history: <<address, units>> of the blocks the program holds
    k           \* the call in progress: its step, nunits or bp, and p and prevp

vars == <<ptr, size, freep, brk, core, used, k>>

User == [at |-> "user", n |-> 0, bp |-> Null, p |-> Null, prevp |-> Null]
Last(a, n) == a + n - 1

\* malloc up to its loop; the first call makes base the whole list.
malloc(nbytes) ==
    LET n == nunits(nbytes) IN
    /\ k.at = "user"
    /\ IF freep = Null
       THEN /\ ptr' = [ptr EXCEPT ![base] = base] /\ size' = [size EXCEPT ![base] = 0] /\ freep' = base
            /\ k' = [k EXCEPT !.at = "malloc", !.n = n, !.prevp = base, !.p = base]
       ELSE /\ k' = [k EXCEPT !.at = "malloc", !.n = n, !.prevp = freep, !.p = ptr[freep]]
            /\ UNCHANGED <<ptr, size, freep>>
    /\ UNCHANGED <<brk, core, used>>

\* Mutant of malloc_fit: the tail is given out with the header of the whole block.
malloc_fit_whole ==
    /\ k.at = "malloc" /\ size[k.p] >= k.n
    /\ IF size[k.p] = k.n
       THEN ptr' = [ptr EXCEPT ![k.prevp] = ptr[k.p], ![k.p] = Null] /\ used' = used \cup {<<k.p, k.n>>} /\ UNCHANGED size
       ELSE LET a == k.p + size[k.p] - k.n IN
            size' = [size EXCEPT ![a] = k.n] /\ used' = used \cup {<<a, k.n>>} /\ UNCHANGED ptr
    /\ freep' = k.prevp /\ k' = User
    /\ UNCHANGED <<brk, core>>

\* A block that fits: unlinked, or its tail cut off.
malloc_fit ==
    /\ k.at = "malloc" /\ size[k.p] >= k.n
    /\ IF size[k.p] = k.n
       THEN ptr' = [ptr EXCEPT ![k.prevp] = ptr[k.p], ![k.p] = Null] /\ used' = used \cup {<<k.p, k.n>>} /\ UNCHANGED size
       ELSE LET a == k.p + size[k.p] - k.n IN
            /\ size' = [size EXCEPT ![k.p] = @ - k.n, ![a] = k.n]
            /\ used' = used \cup {<<a, k.n>>} /\ UNCHANGED ptr
    /\ freep' = k.prevp /\ k' = User
    /\ UNCHANGED <<brk, core>>

\* Mutant of Wrapped: the search ends one block early.
Wrapped_early == k.p = freep \/ ptr[k.p] = freep

Wrapped == k.p = freep

malloc_next ==
    /\ k.at = "malloc" /\ size[k.p] < k.n /\ ~Wrapped
    /\ k' = [k EXCEPT !.prevp = k.p, !.p = ptr[k.p]]
    /\ UNCHANGED <<ptr, size, freep, brk, core, used>>

\* morecore, when the search has come round; it links the new core with free.
morecore ==
    LET nu == AtLeast(k.n)
        got == ((nu * HEADER) % WORD) \div HEADER
    IN
    /\ k.at = "malloc" /\ size[k.p] < k.n /\ Wrapped
    /\ \/ /\ brk + got - 1 <= HEAP
          /\ size' = [size EXCEPT ![brk] = nu] /\ brk' = brk + got
          /\ core' = core \cup (brk .. Last(brk, got))
          /\ k' = [k EXCEPT !.at = "morecore", !.bp = brk, !.p = freep]
       \/ /\ brk + got - 1 > HEAP
          /\ k' = User /\ UNCHANGED <<size, brk, core>>
    /\ UNCHANGED <<ptr, freep, used>>

\* free(ap) up to its loop.
free(b) ==
    /\ k.at = "user"
    /\ used' = used \ {b} /\ k' = [k EXCEPT !.at = "free", !.bp = b[1], !.p = freep]
    /\ UNCHANGED <<ptr, size, freep, brk, core>>

\* Mutant of Between: the ends of the list are not treated apart.
Between_only(p, bp) == (bp > p /\ bp < ptr[p]) \/ p = ptr[p]

\* Where free's loop stops: bp lies between p and its successor, or beyond the ends.
Between(p, bp) == (bp > p /\ bp < ptr[p]) \/ (p >= ptr[p] /\ (bp > p \/ bp < ptr[p]))
free_next ==
    /\ k.at \in {"free", "morecore"} /\ ~Between(k.p, k.bp)
    /\ k' = [k EXCEPT !.p = ptr[k.p]]
    /\ UNCHANGED <<ptr, size, freep, brk, core, used>>

\* Memory with the free block b given its new header, and the stale headers of the
\* blocks it swallowed blanked: the code leaves them, unread, inside the block.
Linked(at, sz, next, stale) ==
    [size |-> [a \in Addrs |-> IF a = at THEN sz ELSE IF a \in stale THEN 0 ELSE size[a]],
     ptr |-> [a \in Addrs |-> IF a = at THEN next ELSE IF a \in stale THEN Null ELSE ptr[a]]]

\* Mutant of Joined: only the upper neighbour is joined.
Joined_upper(p, bp) ==
    LET nx == ptr[p]
        up == bp + size[bp] = nx
        m == Linked(bp, IF up THEN size[bp] + size[nx] ELSE size[bp], IF up THEN ptr[nx] ELSE nx, IF up THEN {nx} ELSE {})
    IN [m EXCEPT !.ptr[p] = bp]

\* bp is joined to the upper neighbour, then to the lower one, or linked.
Joined(p, bp) ==
    LET nx == ptr[p]
        up == bp + size[bp] = nx
        swallowed == IF up THEN {nx} ELSE {}
        bsize == IF up THEN size[bp] + size[nx] ELSE size[bp]
        bptr == IF up THEN ptr[nx] ELSE nx
    IN IF p + size[p] = bp
       THEN Linked(p, size[p] + bsize, bptr, swallowed \cup {bp})
       ELSE [Linked(bp, bsize, bptr, swallowed) EXCEPT !.ptr[p] = bp]

\* The end of free; morecore returns freep to malloc's loop, which moves on from it.
free_link ==
    LET j == Joined(k.p, k.bp) IN
    /\ k.at \in {"free", "morecore"} /\ Between(k.p, k.bp)
    /\ ptr' = j.ptr /\ size' = j.size /\ freep' = k.p
    /\ k' = IF k.at = "free" THEN User
            ELSE [k EXCEPT !.at = "malloc", !.bp = Null, !.prevp = k.p, !.p = j.ptr[k.p]]
    /\ UNCHANGED <<brk, core, used>>

\* The program moves the break itself, so that core need not be in one piece.
sbrk(n) ==
    /\ k.at = "user" /\ brk + n - 1 <= HEAP
    /\ brk' = brk + n
    /\ UNCHANGED <<ptr, size, freep, core, used, k>>

Init ==
    /\ ptr = [a \in Addrs |-> Null] /\ size = [a \in Addrs |-> 0]
    /\ freep = Null /\ brk = 1 /\ core = {} /\ used = {} /\ k = User
Call == malloc_fit \/ malloc_next \/ morecore \/ free_next \/ free_link
Next ==
    \/ Call
    \/ \E nbytes \in Requests : malloc(nbytes)
    \/ \E b \in used : free(b)
    \/ \E n \in Gaps : sbrk(n)
Spec == Init /\ [][Next]_vars

----------------------------------------------------------------------------
(* Properties *)

Reached == IF freep = Null THEN {} ELSE
    LET step[i \in 0 .. HEAP + 1] == IF i = 0 THEN {freep} ELSE step[i - 1] \cup {ptr[a] : a \in step[i - 1]}
    IN step[HEAP + 1]
FreeBlocks == {<<a, size[a]>> : a \in Reached \ {base}}

\* Between calls the blocks of the program and the free ones tile the core: no two
\* overlap and no unit is lost, however the core is cut up and joined again
\* (malloc's split, free's two joins).
HeapTiled ==
    k.at = "user" =>
        \A a \in core : Cardinality({b \in used \cup FreeBlocks : a \in b[1] .. Last(b[1], b[2])}) = 1

\* Between calls no two free blocks are neighbours: free joins a block on both
\* sides, so a large request is not refused for room that is only cut in pieces.
NoneAdjacent == k.at = "user" => \A b, c \in FreeBlocks : b[1] + b[2] # c[1]

\* malloc returns 0 only after it has looked at every free block (its search starts
\* where the last one ended and must come round the whole list).
RefusedOnlyWhenFull == morecore /\ k'.at = "user" => \A b \in FreeBlocks : b[2] < k.n

\* malloc and free return: neither runs round the list for ever, also when the
\* freed block lies beyond the list's ends.
CallsReturn == k.at # "user" ~> k.at = "user"
============================================================================
