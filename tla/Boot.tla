-------------------------------- MODULE Boot --------------------------------
(***************************************************************************)
(* Starting up (main.c, kalloc.c, entryother.S, lapicstartap in lapic.c):  *)
(* the boot CPU fills the free list in two phases around the start of the  *)
(* other CPUs, which read their stack from a mailbox they share; the       *)
(* allocator takes its lock only after the second phase.                   *)
(***************************************************************************)
EXTENDS Naturals, FiniteSets

CONSTANTS
    Cpus, boot,     \* the CPUs mpinit found, as numbers, and the one that boots
    LowPages,       \* pages below 4MB, which entrypgdir maps
    HighPages       \* the rest, mapped once kpgdir is in use

Null == 0
Pages == LowPages \cup HighPages

\* What the constants have to satisfy.
BootAssumption ==
    /\ Cpus \subseteq Nat \ {Null} /\ boot \in Cpus /\ Pages \subseteq Nat \ {Null} /\ IsFiniteSet(Pages)
    /\ (\A g \in LowPages, h \in HighPages : g < h) /\ Cardinality(LowPages) > Cardinality(Cpus)

VARIABLES
    freelist, next,     \* kmem.freelist and the links of the pages on it
    use_lock, lock,     \* kmem.use_lock, and the CPU that holds kmem.lock
    mailbox,            \* the stack at code-4
    started,            \* started of each struct cpu
    user,               \* is there a process to run?
    c,                  \* each CPU: where it is, where it returns to, its page r, its stack
    owned               \* history: how many times each page is in use

kmem == <<freelist, next, use_lock, lock>>
vars == <<kmem, mailbox, started, user, c, owned>>

At(p, place) == c[p].at = place
Go(p, place) == c' = [c EXCEPT ![p].at = place]
Call(p, f, r, then) == c' = [c EXCEPT ![p].at = f, ![p].r = r, ![p].then = then]

\* kalloc and kfree, with use_lock read before and after.
Acquire(p, place) ==
    /\ IF use_lock THEN lock = Null /\ lock' = p ELSE UNCHANGED lock
    /\ Go(p, place) /\ UNCHANGED <<freelist, next, use_lock, mailbox, started, user, owned>>
kalloc(p) == At(p, "kalloc") /\ Acquire(p, "kalloc_read")
kalloc_read(p) ==
    /\ At(p, "kalloc_read")
    /\ c' = [c EXCEPT ![p].at = "kalloc_write", ![p].r = freelist]
    /\ UNCHANGED <<kmem, mailbox, started, user, owned>>
kalloc_write(p) ==
    /\ At(p, "kalloc_write")
    /\ freelist' = IF c[p].r = Null THEN freelist ELSE next[c[p].r]
    /\ owned' = IF c[p].r = Null THEN owned ELSE [owned EXCEPT ![c[p].r] = @ + 1]
    /\ Go(p, "release") /\ UNCHANGED <<next, use_lock, lock, mailbox, started, user>>
kfree(p) == At(p, "kfree") /\ Acquire(p, "kfree_link")
kfree_link(p) ==
    /\ At(p, "kfree_link")
    /\ next' = [next EXCEPT ![c[p].r] = freelist] /\ Go(p, "kfree_head")
    /\ UNCHANGED <<freelist, use_lock, lock, mailbox, started, user, owned>>
kfree_head(p) ==
    /\ At(p, "kfree_head")
    /\ freelist' = c[p].r /\ Go(p, "release")
    /\ UNCHANGED <<next, use_lock, lock, mailbox, started, user, owned>>
Release(p) ==
    /\ At(p, "release") /\ (use_lock => lock = p)
    /\ lock' = (IF use_lock THEN Null ELSE lock) /\ Go(p, c[p].then)
    /\ UNCHANGED <<freelist, next, use_lock, mailbox, started, user, owned>>

\* The pages freerange has still to free: never freed before and in the phase's range.
Fresh(range) == {g \in range : c[boot].seen < g}
Lowest(s) == CHOOSE g \in s : \A h \in s : g <= h
freerange(range, here) ==
    c' = [c EXCEPT ![boot].at = "kfree", ![boot].then = here, ![boot].r = Lowest(Fresh(range)),
                   ![boot].seen = Lowest(Fresh(range))]

\* main, in its order: kinit1, kvmalloc, startothers, kinit2, userinit, mpmain.
kinit1 ==
    /\ At(boot, "kinit1")
    /\ IF Fresh(LowPages) = {} THEN Go(boot, "kvmalloc")
       ELSE freerange(LowPages, "kinit1")
    /\ UNCHANGED <<kmem, mailbox, started, user, owned>>
kvmalloc ==
    /\ At(boot, "kvmalloc") /\ Call(boot, "kalloc", Null, "startothers")
    /\ UNCHANGED <<kmem, mailbox, started, user, owned>>
Others == {p \in Cpus \ {boot} : ~started[p] /\ At(p, "off")}
startothers ==
    /\ At(boot, "startothers")
    /\ IF Others = {} THEN Go(boot, "kinit2") ELSE Call(boot, "kalloc", Null, "lapicstartap")
    /\ UNCHANGED <<kmem, mailbox, started, user, owned>>
lapicstartap ==
    LET p == Lowest(Others) IN
    /\ At(boot, "lapicstartap")
    /\ mailbox' = c[boot].r
    /\ c' = [c EXCEPT ![boot].at = "started", ![boot].r = p, ![p].at = "entryother"]
    /\ UNCHANGED <<kmem, started, user, owned>>

\* Mutant of wait_started: the next CPU is started without waiting.
wait_started_not ==
    /\ At(boot, "started") /\ Go(boot, "startothers")
    /\ UNCHANGED <<kmem, mailbox, started, user, owned>>

\* The boot CPU spins until the CPU it started says it is up.
wait_started ==
    /\ At(boot, "started") /\ IF started[c[boot].r] THEN Go(boot, "startothers") ELSE UNCHANGED c
    /\ UNCHANGED <<kmem, mailbox, started, user, owned>>

\* Mutant of kinit2: the lock is never put to use.
kinit2_unlocked ==
    /\ At(boot, "kinit2")
    /\ IF Fresh(HighPages) = {} THEN Go(boot, "userinit")
       ELSE freerange(HighPages, "kinit2")
    /\ UNCHANGED <<kmem, mailbox, started, user, owned>>

kinit2 ==
    /\ At(boot, "kinit2")
    /\ IF Fresh(HighPages) = {} THEN Go(boot, "userinit") /\ use_lock' = TRUE
       ELSE freerange(HighPages, "kinit2") /\ UNCHANGED use_lock
    /\ UNCHANGED <<freelist, next, lock, mailbox, started, user, owned>>
userinit ==
    /\ At(boot, "userinit") /\ Call(boot, "kalloc", Null, "runnable")
    /\ UNCHANGED <<kmem, mailbox, started, user, owned>>
userinit_done ==
    /\ At(boot, "runnable") /\ user' = TRUE /\ Go(boot, "mpmain")
    /\ UNCHANGED <<kmem, mailbox, started, owned>>

\* A started CPU: entryother.S takes its stack from the mailbox and calls mpenter.
entryother(p) ==
    /\ At(p, "entryother")
    /\ c' = [c EXCEPT ![p].at = "mpmain", ![p].stack = mailbox]
    /\ UNCHANGED <<kmem, mailbox, started, user, owned>>

mpmain(p) ==
    /\ At(p, "mpmain") /\ Go(p, "scheduler")
    /\ started' = [started EXCEPT ![p] = TRUE]
    /\ UNCHANGED <<kmem, mailbox, user, owned>>

\* scheduler: once there is a process, the kernel on any CPU allocates and frees.
scheduler(p) ==
    /\ At(p, "scheduler") /\ user
    /\ \/ Call(p, "kalloc", Null, "process") /\ UNCHANGED owned
       \/ \E g \in Pages \ {c[q].stack : q \in Cpus} :
              owned[g] = 1 /\ Call(p, "kfree", g, "scheduler") /\ owned' = [owned EXCEPT ![g] = 0]
    /\ UNCHANGED <<kmem, mailbox, started, user>>
process(p) == At(p, "process") /\ Go(p, "scheduler") /\ UNCHANGED <<kmem, mailbox, started, user, owned>>

Init ==
    /\ freelist = Null /\ next = [g \in Pages |-> Null] /\ use_lock = FALSE /\ lock = Null
    /\ mailbox = Null /\ started = [p \in Cpus |-> FALSE] /\ user = FALSE /\ owned = [g \in Pages |-> 0]
    /\ c = [p \in Cpus |-> [at |-> IF p = boot THEN "kinit1" ELSE "off", then |-> "none", r |-> Null,
                            seen |-> Null, stack |-> Null]]
Main == kinit1 \/ kvmalloc \/ startothers \/ lapicstartap \/ wait_started \/ kinit2 \/ userinit \/ userinit_done
Kmem(p) == kalloc(p) \/ kalloc_read(p) \/ kalloc_write(p) \/ kfree(p) \/ kfree_link(p) \/ kfree_head(p) \/ Release(p)
Start(p) == entryother(p) \/ mpmain(p)
Next == Main \/ \E p \in Cpus : Kmem(p) \/ Start(p) \/ scheduler(p) \/ process(p)
Spec == Init /\ [][Next]_vars

-----------------------------------------------------------------------------
(* Properties *)

Chain ==
    LET reach[i \in 0 .. Cardinality(Pages)] ==
            IF i = 0 THEN {freelist} ELSE reach[i - 1] \cup {next[g] : g \in reach[i - 1] \ {Null}}
    IN reach[Cardinality(Pages)] \ {Null}
Quiet == \A p \in Cpus : c[p].at \notin {"kalloc_write", "kfree_link", "kfree_head"}

\* No page is given out twice or while it is free, although main lets the
\* allocator run without its lock: only the boot CPU allocates until kinit2 is
\* over, and nobody is between the two tests of use_lock when it changes.
GivenOnce ==
    /\ \A g \in Pages : owned[g] <= 1
    /\ Quiet => \A g \in Chain : owned[g] = 0

\* A CPU that runs has a stack of its own, in the memory that entrypgdir maps: the
\* mailbox is not written for the next CPU before this one has read it, and
\* kinit2's pages are not handed out yet ("must come after startothers()", main).
OwnStack ==
    \A p \in Cpus \ {boot} : c[p].stack # Null =>
        /\ c[p].stack \in LowPages
        /\ \A q \in Cpus \ {p} : c[q].stack # c[p].stack

=============================================================================
