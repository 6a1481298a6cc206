------------------------------- MODULE Memory -------------------------------
(***************************************************************************)
(* Physical pages and the address spaces built from them: kalloc and kfree *)
(* (kalloc.c), page tables (vm.c), and the calls that build, grow and free *)
(* them: fork, exec, sbrk, exit and wait.  Every kalloc and every kfree is *)
(* a step of its own, so calls of several processes compete for pages, and *)
(* every kalloc may fail.  The order of the free list and the contents of  *)
(* pages are abstracted; addresses are 32-bit words scaled down to ADDRS.  *)
(***************************************************************************)
EXTENDS Naturals, FiniteSets

CONSTANTS
    Procs,          \* slots of the process table
    initproc,       \* the process that exists at the start
    NFRAMES,        \* pages the allocator starts with, those of initproc included
    PGSIZE,         \* bytes of a page
    NPTENTRIES,     \* pages mapped by one page-table page
    KERNBASE,       \* first address that is not user memory
    ADDRS,          \* number of addresses: arithmetic wraps here
    KTABLES,        \* page-table pages of the kernel's half (kmap)
    Grow,           \* arguments of sbrk, as words: n and ADDRS - n
    Segments        \* program headers (ph.vaddr, ph.memsz, ph.filesz); empty: no exec

\* struct proghdr (elf.h), as far as exec uses it; nothing is assumed of its values.
Headers == [vaddr : Nat, memsz : Nat, filesz : Nat]

\* What the constants have to satisfy (mmu.h and memlayout.h).
MemoryConstants ==
    /\ initproc \in Procs /\ NFRAMES \in Nat /\ PGSIZE \in Nat \ {0} /\ NPTENTRIES \in Nat \ {0}
    /\ KERNBASE \in Nat \ {0} /\ KERNBASE % (PGSIZE * NPTENTRIES) = 0
    /\ ADDRS \in Nat /\ KERNBASE < ADDRS
    /\ Grow \subseteq 0 .. ADDRS - 1 /\ Segments \subseteq Headers /\ KTABLES \in Nat \ {0}

ASSUME MemoryAssumption == MemoryConstants

VARIABLES
    free,       \* the pages on kmem.freelist
    state,      \* p->state: "UNUSED", "EMBRYO", "USED" (runnable, running, asleep) or "ZOMBIE"
    kstack,     \* p->kstack
    sz,         \* p->sz
    pgdir,      \* p->pgdir, as the page directory it points to
    k           \* k[p]: the system call p is in and its local variables

vars == <<free, state, kstack, sz, pgdir, k>>

Frames == 1 .. NFRAMES
None == 0
Pages == 0 .. KERNBASE \div PGSIZE - 1
Tables == 0 .. KERNBASE \div (PGSIZE * NPTENTRIES) - 1

PGROUNDUP(a) == ((a + PGSIZE - 1) \div PGSIZE) * PGSIZE
PN(a) == a \div PGSIZE
PDX(a) == a \div (PGSIZE * NPTENTRIES)

\* A page directory: its own page, the kernel's page tables, the user part's page
\* tables, the user pages, and which of them have PTE_U off.
NoDir == [dir |-> None, kern |-> {}, tab |-> [t \in Tables |-> None], pte |-> [n \in Pages |-> None]]

\* at: the function p is in; then: the call that waits for it; own: does it work on
\* p's page directory, or on pd?  a, end: the loop of the vm.c function; old: the
\* size so far; new: the size asked for; mem: a page not yet mapped; child: of fork
\* and wait; ph: of exec.
InUser == [at |-> "user", then |-> "none", own |-> FALSE, pd |-> NoDir, a |-> 0, end |-> 0, old |-> 0, new |-> 0,
           mem |-> None, child |-> initproc, ph |-> [vaddr |-> 0, memsz |-> 0, filesz |-> 0]]

\* kalloc: a page of the free list, or 0.
kalloc == IF free = {} THEN None ELSE CHOOSE f \in free : TRUE

Pd(p) == IF k[p].own THEN pgdir[p] ELSE k[p].pd

\* p goes on with local variables l and page directory d.
Work(p, l, d) ==
    /\ pgdir' = IF k[p].own THEN [pgdir EXCEPT ![p] = d] ELSE pgdir
    /\ k' = [k EXCEPT ![p] = IF k[p].own THEN l ELSE [l EXCEPT !.pd = d]]

Go(p, l) == k' = [k EXCEPT ![p] = l]
Return(p) == Go(p, InUser)

\* p executes user code: the page of its instructions is mapped.  Otherwise it
\* faults, and trap makes it exit.
Runs(p) == state[p] = "USED" /\ k[p].at = "user" /\ pgdir[p].pte[0] # None

\* deallocuvm over the whole user part, the first half of freevm.
Freevm(l) == [l EXCEPT !.at = "deallocuvm", !.own = FALSE, !.a = 0, !.end = KERNBASE, !.mem = None,
                       !.then = IF l.then \in {"segment", "stack"} THEN "exec" ELSE l.then]

\* Mutant of Allocuvm: the old size is rounded down.
Allocuvm_down(l, old, new) == [l EXCEPT !.at = "allocuvm", !.a = PN(old) * PGSIZE, !.old = old, !.new = new]

\* The start of allocuvm once its tests on the sizes are passed.
Allocuvm(l, old, new) == [l EXCEPT !.at = "allocuvm", !.a = PGROUNDUP(old), !.old = old, !.new = new]

-----------------------------------------------------------------------------
\* sbrk(n) with n > 0: allocuvm, unless the new size is too large (-1) or wraps
\* around (the size stays).
growproc_more(p, n) ==
    /\ Runs(p) /\ n < ADDRS \div 2
    /\ LET new == (sz[p] + n) % ADDRS IN
           /\ new < KERNBASE /\ new > sz[p]
           /\ Go(p, [Allocuvm(InUser, sz[p], new) EXCEPT !.own = TRUE, !.then = "grow"])
    /\ UNCHANGED <<free, state, kstack, sz, pgdir>>

\* sbrk(n) with n < 0: deallocuvm(sz, sz + n), unless sz + n wraps around.
growproc_less(p, n) ==
    /\ Runs(p) /\ n >= ADDRS \div 2
    /\ LET new == (sz[p] + n) % ADDRS IN
           /\ new < sz[p]
           /\ Go(p, [InUser EXCEPT !.at = "deallocuvm", !.own = TRUE, !.then = "shrink", !.a = PGROUNDUP(new),
                                   !.end = sz[p], !.new = new])
    /\ UNCHANGED <<free, state, kstack, sz, pgdir>>

\* Mutant of allocuvm: when memory runs out the pages it got are left mapped.
allocuvm_keeps(p) ==
    LET l == k[p]  d == Pd(p)  f == kalloc IN
    /\ l.at = "allocuvm" /\ l.a < l.new /\ d.pte[PN(l.a)] = None
    /\ free' = free \ {f}
    /\ IF f = None
       THEN Work(p, [l EXCEPT !.at = "deallocuvm", !.a = l.new, !.end = l.new], d)
       ELSE IF d.tab[PDX(l.a)] = None
       THEN Work(p, [l EXCEPT !.at = "mappages", !.mem = f], d)
       ELSE Work(p, [l EXCEPT !.a = @ + PGSIZE], [d EXCEPT !.pte[PN(l.a)] = f])
    /\ UNCHANGED <<state, kstack, sz>>

\* One turn of the loop of allocuvm.  When memory runs out it frees what it got.
\* mappages needs memory itself when the page table is missing.
allocuvm(p) ==
    LET l == k[p]  d == Pd(p)  f == kalloc IN
    /\ l.at = "allocuvm" /\ l.a < l.new /\ d.pte[PN(l.a)] = None
    /\ free' = free \ {f}
    /\ IF f = None
       THEN Work(p, [l EXCEPT !.at = "deallocuvm", !.a = PGROUNDUP(l.old), !.end = l.new], d)
       ELSE IF d.tab[PDX(l.a)] = None
       THEN Work(p, [l EXCEPT !.at = "mappages", !.mem = f], d)
       ELSE Work(p, [l EXCEPT !.a = @ + PGSIZE], [d EXCEPT !.pte[PN(l.a)] = f])
    /\ UNCHANGED <<state, kstack, sz>>

\* walkpgdir gets the page-table page, then the page is mapped.
mappages(p) ==
    LET l == k[p]  t == kalloc IN
    /\ l.at = "mappages" /\ t # None
    /\ free' = free \ {t}
    /\ Work(p, [l EXCEPT !.at = IF l.then = "fork" THEN "copyuvm" ELSE "allocuvm", !.mem = None, !.a = @ + PGSIZE],
               [Pd(p) EXCEPT !.tab[PDX(l.a)] = t, !.pte[PN(l.a)] = l.mem])
    /\ UNCHANGED <<state, kstack, sz>>

\* walkpgdir gets no page.  copyuvm frees its page directory; allocuvm does not
\* look at the result and goes on with the next page.  The page to map is lost.
mappages_fails(p) ==
    LET l == k[p] IN
    /\ l.at = "mappages" /\ kalloc = None
    /\ IF l.then = "fork" THEN Go(p, Freevm(l))
       ELSE Go(p, [l EXCEPT !.at = "allocuvm", !.mem = None, !.a = @ + PGSIZE])
    /\ UNCHANGED <<free, state, kstack, sz, pgdir>>

\* allocuvm returns newsz to growproc.
growproc_done(p) ==
    LET l == k[p] IN
    /\ l.at = "allocuvm" /\ l.then = "grow" /\ l.a >= l.new
    /\ sz' = [sz EXCEPT ![p] = l.new] /\ Return(p)
    /\ UNCHANGED <<free, state, kstack, pgdir>>

\* Mutant of deallocuvm: the entry of a freed page is not cleared.
deallocuvm_stays(p) ==
    LET l == k[p]  d == Pd(p)  n == PN(l.a) IN
    /\ l.at = "deallocuvm" /\ l.a < l.end
    /\ IF d.tab[PDX(l.a)] = None THEN free' = free /\ Work(p, [l EXCEPT !.a = @ + NPTENTRIES * PGSIZE], d)
       ELSE /\ free' = free \cup ({d.pte[n]} \ {None})
            /\ Work(p, [l EXCEPT !.a = @ + PGSIZE], d)
    /\ UNCHANGED <<state, kstack, sz>>

\* One turn of the loop of deallocuvm; a missing page table skips NPTENTRIES pages.
deallocuvm(p) ==
    LET l == k[p]  d == Pd(p)  n == PN(l.a) IN
    /\ l.at = "deallocuvm" /\ l.a < l.end
    /\ IF d.tab[PDX(l.a)] = None THEN free' = free /\ Work(p, [l EXCEPT !.a = @ + NPTENTRIES * PGSIZE], d)
       ELSE /\ free' = free \cup ({d.pte[n]} \ {None})
            /\ Work(p, [l EXCEPT !.a = @ + PGSIZE], [d EXCEPT !.pte[n] = None])
    /\ UNCHANGED <<state, kstack, sz>>

\* deallocuvm returns: to growproc, which takes a new size of 0 for an error; to
\* allocuvm, which fails, in growproc or in exec (bad: freevm); or to freevm.
deallocuvm_done(p) ==
    LET l == k[p] IN
    /\ l.at = "deallocuvm" /\ l.a >= l.end
    /\ sz' = IF l.then = "shrink" /\ l.new # 0 THEN [sz EXCEPT ![p] = l.new] ELSE sz
    /\ \/ l.then \in {"grow", "shrink"} /\ Return(p)
       \/ l.then \in {"segment", "stack"} /\ Go(p, Freevm(l))
       \/ l.then \in {"fork", "exec", "wait"} /\ Go(p, [l EXCEPT !.at = "freevm"])
    /\ UNCHANGED <<free, state, kstack, pgdir>>

TablesOf(d) == d.kern \cup ({d.tab[t] : t \in Tables} \ {None})

\* Mutant of freevm: only the user part's page tables are freed.
freevm_user(p) ==
    LET d == k[p].pd IN
    /\ k[p].at = "freevm"
    /\ free' = free \cup ((TablesOf(d) \ d.kern) \cup {d.dir})
    /\ IF k[p].then = "fork" THEN state' = state /\ Go(p, [k[p] EXCEPT !.at = "bad", !.pd = NoDir])
       ELSE /\ state' = IF k[p].then = "wait" THEN [state EXCEPT ![k[p].child] = "UNUSED"] ELSE state
            /\ Return(p)
    /\ UNCHANGED <<kstack, sz, pgdir>>

\* Second half of freevm: the page tables and the directory.  wait then frees the
\* slot of the child.
freevm(p) ==
    LET d == k[p].pd IN
    /\ k[p].at = "freevm"
    /\ free' = free \cup (TablesOf(d) \cup {d.dir})
    /\ IF k[p].then = "fork" THEN state' = state /\ Go(p, [k[p] EXCEPT !.at = "bad", !.pd = NoDir])
       ELSE /\ state' = IF k[p].then = "wait" THEN [state EXCEPT ![k[p].child] = "UNUSED"] ELSE state
            /\ Return(p)
    /\ UNCHANGED <<kstack, sz, pgdir>>

-----------------------------------------------------------------------------
\* allocproc takes a slot and a kernel stack (fork fails when there is none).
fork(p, c) ==
    /\ Runs(p) /\ state[c] = "UNUSED" /\ kalloc # None
    /\ free' = free \ {kalloc}
    /\ state' = [state EXCEPT ![c] = "EMBRYO"] /\ kstack' = [kstack EXCEPT ![c] = kalloc]
    /\ Go(p, [InUser EXCEPT !.at = "setupkvm", !.then = "fork", !.child = c])
    /\ UNCHANGED <<sz, pgdir>>

\* setupkvm, one kalloc: the directory, then the page tables of the kernel's half.
setupkvm(p) ==
    LET l == k[p]
        d == IF l.pd.dir = None THEN [l.pd EXCEPT !.dir = kalloc] ELSE [l.pd EXCEPT !.kern = @ \cup {kalloc}]
    IN
    /\ l.at = "setupkvm" /\ kalloc # None
    /\ free' = free \ {kalloc}
    /\ Go(p, [l EXCEPT !.pd = d, !.at = IF Cardinality(d.kern) < KTABLES THEN @
                                        ELSE IF l.then = "fork" THEN "copyuvm" ELSE "exec"])
    /\ UNCHANGED <<state, kstack, sz, pgdir>>

\* setupkvm gets no page and returns 0.  The pages it got stay with nobody.
setupkvm_fails(p) ==
    /\ k[p].at = "setupkvm" /\ kalloc = None
    /\ IF k[p].then = "fork" THEN Go(p, [k[p] EXCEPT !.at = "bad", !.pd = NoDir]) ELSE Return(p)
    /\ UNCHANGED <<free, state, kstack, sz, pgdir>>

\* copyuvm, one turn of the loop: a page for a copy of the parent's page.
copyuvm(p) ==
    LET l == k[p]  d == l.pd  f == kalloc IN
    /\ l.at = "copyuvm" /\ l.a < sz[p] /\ pgdir[p].pte[PN(l.a)] # None
    /\ free' = free \ {f}
    /\ Go(p, IF f = None THEN Freevm(l)
             ELSE IF d.tab[PDX(l.a)] = None THEN [l EXCEPT !.at = "mappages", !.mem = f]
             ELSE [l EXCEPT !.a = @ + PGSIZE, !.pd.pte[PN(l.a)] = f])
    /\ UNCHANGED <<state, kstack, sz, pgdir>>

\* The child gets the copy and becomes runnable.
fork_done(p) ==
    LET l == k[p] IN
    /\ l.at = "copyuvm" /\ l.a >= sz[p]
    /\ pgdir' = [pgdir EXCEPT ![l.child] = l.pd] /\ sz' = [sz EXCEPT ![l.child] = sz[p]]
    /\ state' = [state EXCEPT ![l.child] = "USED"]
    /\ Return(p)
    /\ UNCHANGED <<free, kstack>>

\* fork after a copyuvm that returned 0: kfree(np->kstack), and the slot.
fork_bad(p) ==
    LET c == k[p].child IN
    /\ k[p].at = "bad"
    /\ free' = free \cup {kstack[c]} /\ kstack' = [kstack EXCEPT ![c] = None]
    /\ state' = [state EXCEPT ![c] = "UNUSED"]
    /\ Return(p)
    /\ UNCHANGED <<sz, pgdir>>

\* exec with a valid header.
exec(p) ==
    /\ Runs(p) /\ Segments # {}
    /\ Go(p, [InUser EXCEPT !.at = "setupkvm", !.then = "exec"])
    /\ UNCHANGED <<free, state, kstack, sz, pgdir>>

\* bad: an error found in exec once it has a page directory: a short read, a segment
\* that allocuvm refuses (too large, or size 0), arguments that do not fit.
exec_bad(p) ==
    /\ \/ k[p].at = "exec"
       \/ k[p].at = "allocuvm" /\ k[p].then \in {"segment", "stack"} /\ k[p].a >= k[p].new
    /\ Go(p, Freevm(k[p]))
    /\ UNCHANGED <<free, state, kstack, sz, pgdir>>

\* A loadable segment: allocuvm up to vaddr + memsz, a sum that wraps around.  Only its
\* result is tested: a segment below the size so far leaves the size as it is.
exec_segment(p, s) ==
    LET l == k[p]  end == (s.vaddr + s.memsz) % ADDRS IN
    /\ l.at = "exec" /\ s.memsz >= s.filesz /\ end < KERNBASE /\ (end # 0 \/ l.old # 0)
    /\ Go(p, [Allocuvm(l, l.old, end) EXCEPT !.then = "segment", !.ph = s])
    /\ UNCHANGED <<free, state, kstack, sz, pgdir>>

\* The addresses loaduvm looks up: from vaddr, wherever that is, a page at a time.
Loaded(s) == {(s.vaddr + i) % ADDRS : i \in {j \in 0 .. s.filesz - 1 : j % PGSIZE = 0}}

\* Mutant of exec_loaded: allocuvm returns newsz also when that is the smaller.
exec_loaded_less(p) ==
    LET l == k[p] IN
    /\ l.at = "allocuvm" /\ l.then = "segment" /\ l.a >= l.new
    /\ l.ph.vaddr % PGSIZE = 0
    /\ \A a \in Loaded(l.ph) : a < KERNBASE /\ l.pd.tab[PDX(a)] # None
    /\ Go(p, [l EXCEPT !.at = "exec", !.then = "exec", !.old = l.new])
    /\ UNCHANGED <<free, state, kstack, sz, pgdir>>

\* allocuvm returned the larger of the sizes; loaduvm reads the segment into the pages
\* at vaddr.  It panics when vaddr is not aligned or a page table is missing; a load
\* into the kernel's half is not followed.
exec_loaded(p) ==
    LET l == k[p] IN
    /\ l.at = "allocuvm" /\ l.then = "segment" /\ l.a >= l.new
    /\ l.ph.vaddr % PGSIZE = 0
    /\ \A a \in Loaded(l.ph) : a < KERNBASE /\ l.pd.tab[PDX(a)] # None
    /\ Go(p, [l EXCEPT !.at = "exec", !.then = "exec", !.old = IF l.new < l.old THEN l.old ELSE l.new])
    /\ UNCHANGED <<free, state, kstack, sz, pgdir>>

\* The two pages of the guard and the stack.
exec_stack(p) ==
    LET l == k[p]  base == PGROUNDUP(l.old) IN
    /\ l.at = "exec" /\ base + 2 * PGSIZE < KERNBASE
    /\ Go(p, [Allocuvm(l, base, base + 2 * PGSIZE) EXCEPT !.then = "stack"])
    /\ UNCHANGED <<free, state, kstack, sz, pgdir>>

\* clearpteu, copyout to the stack page, then the image is committed: the new
\* directory is the process's, and freevm of the old one.
exec_commit(p) ==
    LET l == k[p]  guard == PN(l.new) - 2 IN
    /\ l.at = "allocuvm" /\ l.then = "stack" /\ l.a >= l.new
    /\ l.pd.tab[PDX(guard * PGSIZE)] # None /\ l.pd.pte[guard + 1] # None
    /\ pgdir' = [pgdir EXCEPT ![p] = l.pd]
    /\ sz' = [sz EXCEPT ![p] = l.new]
    /\ Go(p, [Freevm(l) EXCEPT !.pd = pgdir[p]])
    /\ UNCHANGED <<free, state, kstack>>

\* exit, by a call, or by trap after a fault or a kill.
exit(p) ==
    /\ state[p] = "USED" /\ k[p].at = "user" /\ p # initproc
    /\ state' = [state EXCEPT ![p] = "ZOMBIE"]
    /\ UNCHANGED <<free, kstack, sz, pgdir, k>>

\* wait finds zombie c: kfree(kstack), then freevm(pgdir).
wait(p, c) ==
    /\ Runs(p) /\ state[c] = "ZOMBIE" /\ kstack[c] # None
    /\ free' = free \cup {kstack[c]} /\ kstack' = [kstack EXCEPT ![c] = None]
    /\ Go(p, Freevm([InUser EXCEPT !.then = "wait", !.child = c, !.pd = pgdir[c]]))
    /\ pgdir' = [pgdir EXCEPT ![c] = NoDir]
    /\ UNCHANGED <<state, sz>>

-----------------------------------------------------------------------------
\* userinit: initproc has a stack, setupkvm's pages and the page of initcode.
Init ==
    /\ kstack = [p \in Procs |-> IF p = initproc THEN 1 ELSE None]
    /\ pgdir = [p \in Procs |-> IF p # initproc THEN NoDir
                   ELSE [NoDir EXCEPT !.dir = 2, !.tab[0] = 3, !.pte[0] = 4, !.kern = 5 .. 4 + KTABLES]]
    /\ free = 5 + KTABLES .. NFRAMES
    /\ state = [p \in Procs |-> IF p = initproc THEN "USED" ELSE "UNUSED"]
    /\ sz = [p \in Procs |-> IF p = initproc THEN PGSIZE ELSE 0]
    /\ k = [p \in Procs |-> InUser]

Next ==
    \E p \in Procs :
        \/ \E n \in Grow : growproc_more(p, n) \/ growproc_less(p, n)
        \/ allocuvm(p) \/ mappages(p) \/ mappages_fails(p) \/ growproc_done(p)
        \/ deallocuvm(p) \/ deallocuvm_done(p) \/ freevm(p)
        \/ \E c \in Procs : fork(p, c) \/ wait(p, c)
        \/ setupkvm(p) \/ setupkvm_fails(p) \/ copyuvm(p) \/ fork_done(p) \/ fork_bad(p)
        \/ exec(p) \/ exec_bad(p) \/ \E s \in Segments : exec_segment(p, s)
        \/ exec_loaded(p) \/ exec_stack(p) \/ exec_commit(p)
        \/ exit(p)

Spec == Init /\ [][Next]_vars

-----------------------------------------------------------------------------
\* The references to pages: the holder, the role and the page.
RefsIn(h, d) ==
    {<<h, "dir", 0, d.dir>>} \cup {<<h, "kern", f, f>> : f \in d.kern}
    \cup {<<h, "tab", t, d.tab[t]>> : t \in Tables} \cup {<<h, "pte", n, d.pte[n]>> : n \in Pages}

Refs ==
    {r \in UNION {RefsIn(<<p, "proc">>, pgdir[p]) \cup RefsIn(<<p, "local">>, k[p].pd)
                  \cup {<<<<p, "proc">>, "kstack", 0, kstack[p]>>, <<<<p, "local">>, "mem", 0, k[p].mem>>}
                  : p \in Procs} : r[4] # None}

\* A page is never in two places: not mapped twice, not a page table and a user
\* page, and not on the free list while anything still refers to it, whatever
\* calls of other processes come between and wherever memory runs out (kalloc.c,
\* vm.c, the error paths of fork and exec).
NoAlias ==
    \A r \in Refs : r[4] \notin free /\ \A s \in Refs : r[4] = s[4] => r = s

\* Between two system calls the pages mapped are those below p->sz and no others,
\* also after an sbrk that failed halfway (growproc, allocuvm, deallocuvm).
SizeMapped ==
    \A p \in Procs : Runs(p) => \A n \in Pages : (n * PGSIZE < sz[p]) <=> (pgdir[p].pte[n] # None)

\* No page is lost: with no call in progress, every page is on the free list or
\* referred to (usertests.c, sbrktest: "does it clean up the last failed
\* allocation?").
FramesAccounted ==
    (\A p \in Procs : k[p].at = "user") => free \cup {r[4] : r \in Refs} = Frames

\* A segment that loaduvm may be called for ("addr must be page-aligned and the pages
\* from addr to addr+sz must already be mapped"): exec tests neither.
Loadable(s) == s.vaddr % PGSIZE = 0 /\ s.vaddr + s.memsz < ADDRS

\* The panics of vm.c: remap in mappages, the two of copyuvm, the one of clearpteu, and
\* for a loadable segment a page that loaduvm does not find.
Panics(p) ==
    LET l == k[p] IN
    \/ l.at = "allocuvm" /\ l.a < l.new /\ Pd(p).pte[PN(l.a)] # None
    \/ l.at = "copyuvm" /\ l.a < sz[p] /\ pgdir[p].pte[PN(l.a)] = None
    \/ /\ l.at = "allocuvm" /\ l.then = "segment" /\ l.a >= l.new /\ Loadable(l.ph)
       /\ \E a \in Loaded(l.ph) : a >= KERNBASE \/ l.pd.pte[PN(a)] = None
    \/ l.at = "allocuvm" /\ l.then = "stack" /\ l.a >= l.new /\ l.pd.tab[PDX(l.new - 2 * PGSIZE)] = None

\* No call meets one of the panics of vm.c, which say what their callers promise:
\* "copyuvm: page not present", "remap", and, unless the program has a segment that is
\* not aligned or goes round the end of the addresses, "loaduvm: address should exist".
NoPanic == \A p \in Procs : ~Panics(p)
=============================================================================
