---------------------------- MODULE MemoryProofs ----------------------------
(***************************************************************************)
(* Proofs about Memory, for every number of processes, every amount of     *)
(* memory and every size of pages and page tables.                         *)
(***************************************************************************)
EXTENDS Memory, Integers, TLAPS

\* The invariants are long formulas: the provers get more time for them.
USE SMTT(30), ZenonT(30)

\* Page directories, and the local variables of system calls.
Dirs == [dir : Nat, kern : SUBSET Nat, tab : [Tables -> Nat], pte : [Pages -> Nat]]
Locals == [at : {"user", "setupkvm", "copyuvm", "exec", "allocuvm", "mappages", "deallocuvm", "freevm", "bad"},
           then : {"none", "grow", "shrink", "fork", "wait", "exec", "segment", "stack"},
           own : BOOLEAN, pd : Dirs, a : Nat, end : 0 .. KERNBASE, old : Nat, new : 0 .. KERNBASE,
           mem : Nat, child : Procs, ph : Headers]

TypeInv ==
  /\ free \subseteq Nat \ {None}
  /\ state \in [Procs -> {"UNUSED", "EMBRYO", "USED", "ZOMBIE"}]
  /\ kstack \in [Procs -> Nat]
  /\ sz \in [Procs -> 0 .. KERNBASE]
  /\ pgdir \in [Procs -> Dirs]
  /\ k \in [Procs -> Locals]

\* What the local variables say of each other: sbrk works on the page directory of its
\* process, the others on one of their own, which setupkvm made.
LocalOk(l) ==
  /\ l.at = "user" => l = InUser
  /\ l.own <=> l.then \in {"grow", "shrink"}
  /\ l.own => l.at \in {"allocuvm", "mappages", "deallocuvm"}
  /\ l.at \notin {"user", "setupkvm", "bad"} /\ ~l.own => l.pd.dir # None
  /\ l.at \in {"copyuvm", "bad"} => l.then = "fork"

\* A process in a call is alive, and one that is alive, or dead and not yet waited
\* for, has a stack and a page directory.
UsedInv ==
  \A p \in Procs :
    /\ LocalOk(k[p])
    /\ k[p].at # "user" => state[p] = "USED"
    /\ state[p] = "USED" => kstack[p] # None /\ pgdir[p].dir # None
    /\ state[p] = "ZOMBIE" /\ kstack[p] # None => pgdir[p].dir # None

\* The child of fork is an EMBRYO with a stack, that of wait a ZOMBIE whose stack is
\* freed, and nobody else's.
ChildInv ==
  \A p \in Procs :
    /\ k[p].then = "fork" => state[k[p].child] = "EMBRYO" /\ kstack[k[p].child] # None
    /\ k[p].then = "wait" => state[k[p].child] = "ZOMBIE" /\ kstack[k[p].child] = None
    /\ \A q \in Procs : p # q /\ k[p].then = k[q].then /\ k[p].then \in {"fork", "wait"} => k[p].child # k[q].child

\* The pages of a page directory, each in one place of it.
PagesIn(d) == ({d.dir} \cup d.kern \cup {d.tab[t] : t \in Tables} \cup {d.pte[n] : n \in Pages}) \ {None}
Tidy(d) ==
  /\ None \notin d.kern /\ d.dir \notin d.kern
  /\ \A t \in Tables : d.tab[t] # None =>
       d.tab[t] # d.dir /\ d.tab[t] \notin d.kern /\ \A u \in Tables : d.tab[t] = d.tab[u] => t = u
  /\ \A n \in Pages : d.pte[n] # None =>
       /\ d.pte[n] # d.dir /\ d.pte[n] \notin d.kern
       /\ \A t \in Tables : d.pte[n] # d.tab[t]
       /\ \A m \in Pages : d.pte[n] = d.pte[m] => n = m

TidyInv == \A p \in Procs : Tidy(pgdir[p]) /\ Tidy(k[p].pd)

\* The pages a process holds: in its page directory, in the one a call works on, as its
\* stack, and as the page a call is about to map.
Roles == {"dir", "local", "stack", "mem"}
Held == [p \in Procs |-> [r \in Roles |->
           IF r = "dir" THEN PagesIn(pgdir[p]) ELSE IF r = "local" THEN PagesIn(k[p].pd)
           ELSE IF r = "stack" THEN {kstack[p]} \ {None} ELSE {k[p].mem} \ {None}]]

\* No page of H is free, and none is held twice.
Apart(F, H) ==
  \A p \in Procs, r \in Roles :
    /\ H[p][r] \cap F = {}
    /\ \A q \in Procs, s \in Roles : p # q \/ r # s => H[p][r] \cap H[q][s] = {}

Core == TypeInv /\ UsedInv /\ ChildInv /\ TidyInv
IInv == Core /\ Apart(free, Held)

-----------------------------------------------------------------------------
(* Pages apart *)

\* Nothing is taken, and everybody keeps at most what they had.
LEMMA ApartQuiet ==
  ASSUME NEW F, NEW H, Apart(F, H), NEW G, NEW K, G \subseteq F,
         \A p \in Procs, r \in Roles : K[p][r] \subseteq H[p][r]
  PROVE  Apart(G, K)
BY DEF Apart

\* kalloc: one page leaves the free list and has one holder.
LEMMA ApartTake ==
  ASSUME NEW F, NEW H, Apart(F, H), NEW G, NEW K, NEW f \in F, G = F \ {f},
         NEW p \in Procs, NEW r \in Roles, K[p][r] \subseteq H[p][r] \cup {f},
         \A q \in Procs, s \in Roles : p # q \/ r # s => K[q][s] \subseteq H[q][s]
  PROVE  Apart(G, K)
BY DEF Apart

\* mappages: besides a page taken, the holder gets what it held in another role.
LEMMA ApartMerge ==
  ASSUME NEW F, NEW H, Apart(F, H), NEW G, NEW K, NEW f \in F, G = F \ {f},
         NEW p \in Procs, NEW r \in Roles, NEW t \in Roles, t # r,
         K[p][r] \subseteq H[p][r] \cup {f} \cup H[p][t], K[p][t] = {},
         \A q \in Procs, s \in Roles : p # q \/ s \notin {r, t} => K[q][s] \subseteq H[q][s]
  PROVE  Apart(G, K)
BY DEF Apart

-----------------------------------------------------------------------------
(* Page directories *)

\* A new page directory has no pages.
LEMMA NoDirType ==
  NoDir \in Dirs /\ Tidy(NoDir) /\ PagesIn(NoDir) = {} /\ NoDir.dir = None
BY Zenon DEF NoDir, Dirs, Tidy, PagesIn, None

\* mappages sets the entry of a page.
LEMMA PtePut ==
  ASSUME NEW d \in Dirs, Tidy(d), NEW n, NEW f \in Nat, f \notin PagesIn(d)
  PROVE  LET e == [d EXCEPT !.pte[n] = f] IN
         e \in Dirs /\ Tidy(e) /\ e.dir = d.dir /\ PagesIn(e) \subseteq PagesIn(d) \cup ({f} \ {None})
<1>. DEFINE e == [d EXCEPT !.pte[n] = f]
<1>1. /\ e \in Dirs /\ e.dir = d.dir /\ e.kern = d.kern /\ e.tab = d.tab
      /\ \A m \in Pages : e.pte[m] = IF m = n THEN f ELSE d.pte[m]
  BY Zenon DEF Dirs
<1>. HIDE DEF e
<1>2. PagesIn(e) \subseteq PagesIn(d) \cup ({f} \ {None})
  BY <1>1, Zenon DEF PagesIn
<1>3. f # d.dir \/ f = None
  BY Zenon DEF PagesIn
<1>4. f # None => f \notin d.kern /\ (\A t \in Tables : f # d.tab[t]) /\ \A m \in Pages : f # d.pte[m]
  BY Zenon DEF PagesIn
<1>5. Tidy(e)
  BY <1>1, <1>3, <1>4 DEF Tidy
<1>. QED
  BY <1>1, <1>2, <1>5, Zenon DEF e

\* walkpgdir sets the entry of a page table.
LEMMA TabPut ==
  ASSUME NEW d \in Dirs, Tidy(d), NEW n, NEW f \in Nat, f \notin PagesIn(d)
  PROVE  LET e == [d EXCEPT !.tab[n] = f] IN
         e \in Dirs /\ Tidy(e) /\ e.dir = d.dir /\ PagesIn(e) \subseteq PagesIn(d) \cup ({f} \ {None})
<1>. DEFINE e == [d EXCEPT !.tab[n] = f]
<1>1. /\ e \in Dirs /\ e.dir = d.dir /\ e.kern = d.kern /\ e.pte = d.pte
      /\ \A t \in Tables : e.tab[t] = IF t = n THEN f ELSE d.tab[t]
  BY Zenon DEF Dirs
<1>. HIDE DEF e
<1>2. PagesIn(e) \subseteq PagesIn(d) \cup ({f} \ {None})
  BY <1>1, Zenon DEF PagesIn
<1>3. f # d.dir \/ f = None
  BY Zenon DEF PagesIn
<1>4. f # None => f \notin d.kern /\ (\A t \in Tables : f # d.tab[t]) /\ \A m \in Pages : f # d.pte[m]
  BY Zenon DEF PagesIn
<1>5. Tidy(e)
  BY <1>1, <1>3, <1>4 DEF Tidy
<1>. QED
  BY <1>1, <1>2, <1>5, Zenon DEF e

\* deallocuvm clears the entry of a page.
LEMMA PteClear ==
  ASSUME NEW d \in Dirs, Tidy(d), NEW n \in Pages
  PROVE  LET e == [d EXCEPT !.pte[n] = None] IN
         e \in Dirs /\ Tidy(e) /\ e.dir = d.dir /\ PagesIn(e) \subseteq PagesIn(d) \ {d.pte[n]}
<1>. DEFINE e == [d EXCEPT !.pte[n] = None]
<1>1. /\ e \in Dirs /\ e.dir = d.dir /\ e.kern = d.kern /\ e.tab = d.tab
      /\ \A m \in Pages : e.pte[m] = IF m = n THEN None ELSE d.pte[m]
  BY Zenon DEF Dirs, None
<1>. HIDE DEF e
<1>2. PagesIn(e) \subseteq PagesIn(d) \ {d.pte[n]}
  BY <1>1 DEF PagesIn, Tidy
<1>3. Tidy(e)
  BY <1>1 DEF Tidy
<1>. QED
  BY <1>1, <1>2, <1>3, Zenon DEF e

\* setupkvm gets the page of the directory, or of a page table of the kernel's half.
LEMMA KvmPut ==
  ASSUME NEW d \in Dirs, Tidy(d), NEW f \in Nat \ {None}, f \notin PagesIn(d)
  PROVE  LET e == IF d.dir = None THEN [d EXCEPT !.dir = f] ELSE [d EXCEPT !.kern = @ \cup {f}] IN
         e \in Dirs /\ Tidy(e) /\ e.dir # None /\ PagesIn(e) \subseteq PagesIn(d) \cup {f}
<1>. DEFINE e == IF d.dir = None THEN [d EXCEPT !.dir = f] ELSE [d EXCEPT !.kern = @ \cup {f}]
<1>1. /\ e \in Dirs /\ e.tab = d.tab /\ e.pte = d.pte
      /\ e.dir = IF d.dir = None THEN f ELSE d.dir
      /\ e.kern = IF d.dir = None THEN d.kern ELSE d.kern \cup {f}
  BY Zenon DEF Dirs
<1>. HIDE DEF e
<1>2. PagesIn(e) \subseteq PagesIn(d) \cup {f}
  BY <1>1, Zenon DEF PagesIn
<1>3. f # d.dir /\ f \notin d.kern /\ (\A t \in Tables : f # d.tab[t]) /\ \A m \in Pages : f # d.pte[m]
  BY Zenon DEF PagesIn
<1>4. Tidy(e) /\ e.dir # None
  BY <1>1, <1>3 DEF Tidy
<1>. QED
  BY <1>1, <1>2, <1>4, Zenon DEF e

-----------------------------------------------------------------------------
(* Addresses *)

\* An address below a multiple of m is on one of the pages of m bytes below it.
LEMMA PageBelow ==
  ASSUME NEW x \in Nat, NEW y \in Nat, NEW m \in Nat \ {0}, x < y, y % m = 0
  PROVE  x \div m \in 0 .. y \div m - 1
<1>1. x = m * (x \div m) + (x % m) /\ x % m \in 0 .. m - 1 /\ x \div m \in Nat
  OBVIOUS
<1>2. y = m * (y \div m) /\ y \div m \in Nat
  OBVIOUS
<1>. DEFINE u == x \div m
            v == y \div m
<1>3. u \in Nat /\ v \in Nat /\ m * u < m * v
  BY <1>1, <1>2
<1>. HIDE DEF u, v
<1>4. u < v
  BY <1>3
<1>. QED
  BY <1>3, <1>4 DEF u, v

\* A multiple of a product is a multiple of its factors.
LEMMA FactorDivides ==
  ASSUME NEW y \in Nat, NEW m \in Nat \ {0}, NEW j \in Nat \ {0}, y % (m * j) = 0
  PROVE  y % m = 0
<1>. DEFINE c == y \div (m * j)
<1>1. m * j \in Nat \ {0}
  OBVIOUS
<1>2. y = (m * j) * c /\ c \in Nat
  BY <1>1
<1>. HIDE DEF c
<1>3. y = m * (j * c) /\ j * c \in Nat
  BY <1>2
<1>. DEFINE e == j * c
<1>4. y = m * e /\ e \in Nat
  BY <1>3, Zenon
<1>. HIDE DEF e
<1>. QED
  BY <1>4

\* The pages of user addresses (PTX and PDX).
LEMMA UserPage ==
  ASSUME NEW x \in Nat, x < KERNBASE
  PROVE  PN(x) \in Pages
<1>1. /\ PGSIZE \in Nat \ {0} /\ NPTENTRIES \in Nat \ {0} /\ KERNBASE \in Nat
      /\ KERNBASE % (PGSIZE * NPTENTRIES) = 0
  BY MemoryAssumption, Zenon DEF MemoryConstants
<1>2. KERNBASE % PGSIZE = 0
  BY <1>1, FactorDivides, Zenon
<1>. QED
  BY <1>1, <1>2, PageBelow, Zenon DEF PN, Pages

\* Rounding up is arithmetic on natural numbers.
LEMMA RoundType ==
  ASSUME NEW x \in Nat
  PROVE  PGROUNDUP(x) \in Nat
<1>1. PGSIZE \in Nat \ {0}
  BY MemoryAssumption, Zenon DEF MemoryConstants
<1>. DEFINE y == (x + PGSIZE - 1) \div PGSIZE
<1>2. y \in Nat
  BY <1>1
<1>. HIDE DEF y
<1>3. y * PGSIZE \in Nat
  BY <1>1, <1>2
<1>. QED
  BY <1>3, Zenon DEF y, PGROUNDUP

\* kalloc returns a page of the free list, or 0 when there is none.
LEMMA kallocTakes ==
  ASSUME TypeInv
  PROVE  IF free = {} THEN kalloc = None ELSE kalloc \in free /\ kalloc \in Nat \ {None}
<1>1. free # {} => kalloc \in free
  BY Zenon DEF kalloc
<1>2. free = {} => kalloc = None
  BY Zenon DEF kalloc
<1>3. free \subseteq Nat \ {None}
  BY Zenon DEF TypeInv
<1>. QED
  BY <1>1, <1>2, <1>3, Zenon

-----------------------------------------------------------------------------
(* Steps *)

\* The pages of a process whose page directories, stack and page at hand stay.
LEMMA HeldSame ==
  ASSUME NEW p \in Procs, pgdir'[p] = pgdir[p], k'[p].pd = k[p].pd, k'[p].mem = k[p].mem,
         kstack'[p] = kstack[p]
  PROVE  \A r \in Roles : Held'[p][r] = Held[p][r]
BY Zenon DEF Held

\* The pages of a process by role.
LEMMA HeldBy ==
  ASSUME NEW p \in Procs
  PROVE  /\ Held[p]["dir"] = PagesIn(pgdir[p]) /\ Held[p]["local"] = PagesIn(k[p].pd)
         /\ Held[p]["stack"] = {kstack[p]} \ {None} /\ Held[p]["mem"] = {k[p].mem} \ {None}
         /\ Held'[p]["dir"] = PagesIn(pgdir'[p]) /\ Held'[p]["local"] = PagesIn(k'[p].pd)
         /\ Held'[p]["stack"] = {kstack'[p]} \ {None} /\ Held'[p]["mem"] = {k'[p].mem} \ {None}
BY Zenon DEF Held, Roles

\* A step of a call changes the process's own local variables, and its own page
\* directory; the children of fork and wait stay the same.
OwnStep(p, l, d) ==
  /\ k' = [k EXCEPT ![p] = l] /\ pgdir' = [pgdir EXCEPT ![p] = d] /\ UNCHANGED <<state, kstack>>
  /\ l \in Locals /\ LocalOk(l) /\ Tidy(l.pd)
  /\ d \in Dirs /\ Tidy(d) /\ d.dir # None
  /\ l.then \in {"fork", "wait"} => l.then = k[p].then /\ l.child = k[p].child

\* Such a step keeps the invariant, but for the pages it takes or gives.
LEMMA OwnStepKeeps ==
  ASSUME Core, NEW p \in Procs, state[p] = "USED", NEW l, NEW d, OwnStep(p, l, d),
         free' \subseteq Nat \ {None}, sz' \in [Procs -> 0 .. KERNBASE]
  PROVE  Core'
<1>1. TypeInv'
  <2>1. k' \in [Procs -> Locals] /\ pgdir' \in [Procs -> Dirs]
    BY Zenon DEF Core, TypeInv, OwnStep
  <2>2. state' = state /\ kstack' = kstack
    BY Zenon DEF OwnStep
  <2>. QED
    BY <2>1, <2>2, Zenon DEF Core, TypeInv
<1>2. /\ k'[p] = l /\ pgdir'[p] = d
      /\ \A q \in Procs : q # p => k'[q] = k[q] /\ pgdir'[q] = pgdir[q]
      /\ state' = state /\ kstack' = kstack
  BY Zenon DEF Core, TypeInv, OwnStep
<1>3. UsedInv'
  BY <1>2, Zenon DEF Core, UsedInv, OwnStep
<1>4. ChildInv'
  BY <1>2 DEF Core, ChildInv, OwnStep
<1>5. TidyInv'
  BY <1>2, Zenon DEF Core, TidyInv, OwnStep
<1>. QED
  BY <1>1, <1>3, <1>4, <1>5, Zenon DEF Core

\* The holders after such a step.
LEMMA OwnStepHeld ==
  ASSUME Core, NEW p \in Procs, NEW l, NEW d, OwnStep(p, l, d)
  PROVE  /\ \A q \in Procs, r \in Roles : q # p => Held'[q][r] = Held[q][r]
         /\ Held'[p]["dir"] = PagesIn(d) /\ Held'[p]["local"] = PagesIn(l.pd)
         /\ Held'[p]["stack"] = Held[p]["stack"] /\ Held'[p]["mem"] = {l.mem} \ {None}
<1>1. /\ k'[p] = l /\ pgdir'[p] = d
      /\ \A q \in Procs : q # p => k'[q] = k[q] /\ pgdir'[q] = pgdir[q]
      /\ state' = state /\ kstack' = kstack
  BY Zenon DEF Core, TypeInv, OwnStep
<1>2. \A q \in Procs, r \in Roles : q # p => Held'[q][r] = Held[q][r]
  BY <1>1, HeldSame, Zenon
<1>. QED
  BY <1>1, <1>2, HeldBy, Zenon

\* The local variables of a process in user code.
LEMMA InUserLocal ==
  /\ InUser \in Locals /\ LocalOk(InUser) /\ InUser.pd = NoDir /\ InUser.mem = None
  /\ InUser.then = "none" /\ InUser.child = initproc
<1>1. [vaddr |-> 0, memsz |-> 0, filesz |-> 0] \in Headers
  BY DEF Headers
<1>. QED
  BY <1>1, NoDirType, MemoryAssumption DEF InUser, Locals, LocalOk, MemoryConstants, None

\* Those of a call that enters freevm.
LEMMA FreevmLocal ==
  ASSUME NEW l \in Locals, l.then \notin {"grow", "shrink"}, l.pd.dir # None
  PROVE  /\ Freevm(l) \in Locals /\ LocalOk(Freevm(l)) /\ Freevm(l).pd = l.pd /\ Freevm(l).mem = None
         /\ Freevm(l).then \in {"fork", "wait"} => Freevm(l).then = l.then
         /\ Freevm(l).child = l.child
<1>1. KERNBASE \in 0 .. KERNBASE /\ 0 \in Nat
  BY MemoryAssumption DEF MemoryConstants
<1>2. /\ Freevm(l) \in Locals /\ Freevm(l).pd = l.pd /\ Freevm(l).mem = None /\ Freevm(l).child = l.child
      /\ Freevm(l).at = "deallocuvm" /\ Freevm(l).own = FALSE
      /\ Freevm(l).then = IF l.then \in {"segment", "stack"} THEN "exec" ELSE l.then
  <2>1. (IF l.then \in {"segment", "stack"} THEN "exec" ELSE l.then)
          \in {"none", "grow", "shrink", "fork", "wait", "exec", "segment", "stack"} /\ None \in Nat
    BY Zenon DEF Locals, None
  <2>2. Freevm(l) \in Locals
    BY <1>1, <2>1, Zenon DEF Freevm, Locals
  <2>3. /\ Freevm(l).pd = l.pd /\ Freevm(l).mem = None /\ Freevm(l).child = l.child
        /\ Freevm(l).at = "deallocuvm" /\ Freevm(l).own = FALSE
        /\ Freevm(l).then = IF l.then \in {"segment", "stack"} THEN "exec" ELSE l.then
    BY Zenon DEF Freevm, Locals
  <2>. QED
    BY <2>2, <2>3, Zenon
<1>. QED
  BY <1>2, Zenon DEF LocalOk

\* Those of a call that enters allocuvm.
LEMMA AllocuvmLocal ==
  ASSUME NEW l \in Locals, NEW old \in Nat, NEW new \in 0 .. KERNBASE
  PROVE  /\ Allocuvm(l, old, new) \in Locals /\ Allocuvm(l, old, new).pd = l.pd
         /\ Allocuvm(l, old, new).mem = l.mem /\ Allocuvm(l, old, new).child = l.child
         /\ Allocuvm(l, old, new).at = "allocuvm" /\ Allocuvm(l, old, new).own = l.own
<1>1. PGROUNDUP(old) \in Nat
  BY RoundType, Zenon
<1>2. Allocuvm(l, old, new) \in Locals
  BY <1>1, Zenon DEF Allocuvm, Locals
<1>3. /\ Allocuvm(l, old, new).pd = l.pd
      /\ Allocuvm(l, old, new).mem = l.mem /\ Allocuvm(l, old, new).child = l.child
      /\ Allocuvm(l, old, new).at = "allocuvm" /\ Allocuvm(l, old, new).own = l.own
  BY Zenon DEF Allocuvm, Locals
<1>. QED
  BY <1>2, <1>3, Zenon

\* A step that only moves a process on in its call, and perhaps drops its pages.
LEMMA LocalStepKeeps ==
  ASSUME IInv, NEW p \in Procs, state[p] = "USED", NEW l \in Locals, LocalOk(l),
         l.pd \in {k[p].pd, NoDir}, l.mem \in {k[p].mem, None},
         l.then \in {"fork", "wait"} => l.then = k[p].then /\ l.child = k[p].child,
         k' = [k EXCEPT ![p] = l], UNCHANGED <<free, state, kstack, pgdir>>,
         sz' \in [Procs -> 0 .. KERNBASE]
  PROVE  IInv'
<1>. DEFINE d == pgdir[p]
<1>1. /\ pgdir \in [Procs -> Dirs] /\ Tidy(pgdir[p]) /\ Tidy(k[p].pd) /\ free \subseteq Nat \ {None}
      /\ d.dir # None /\ Core
  BY Zenon DEF IInv, Core, TypeInv, TidyInv, UsedInv
<1>2. OwnStep(p, l, d)
  <2>1. pgdir' = [pgdir EXCEPT ![p] = d] /\ d \in Dirs
    BY <1>1, Zenon
  <2>2. Tidy(l.pd)
    BY <1>1, NoDirType, Zenon
  <2>. QED
    BY <1>1, <2>1, <2>2, Zenon DEF OwnStep
<1>3. Core'
  BY <1>1, <1>2, OwnStepKeeps, Zenon
<1>4. /\ \A q \in Procs, r \in Roles : q # p => Held'[q][r] = Held[q][r]
      /\ Held'[p]["dir"] = PagesIn(d) /\ Held'[p]["local"] = PagesIn(l.pd)
      /\ Held'[p]["stack"] = Held[p]["stack"] /\ Held'[p]["mem"] = {l.mem} \ {None}
  BY <1>1, <1>2, OwnStepHeld, Zenon
<1>5. /\ Held[p]["dir"] = PagesIn(pgdir[p]) /\ Held[p]["local"] = PagesIn(k[p].pd)
      /\ Held[p]["mem"] = {k[p].mem} \ {None}
  BY HeldBy, Zenon
<1>6. \A r \in Roles : Held'[p][r] \subseteq Held[p][r]
  BY <1>4, <1>5, NoDirType DEF Roles
<1>7. \A q \in Procs, r \in Roles : Held'[q][r] \subseteq Held[q][r]
  BY <1>4, <1>6, Zenon
<1>8. Apart(free, Held) /\ free' \subseteq free
  BY Zenon DEF IInv
<1>9. Apart(free', Held')
  BY <1>7, <1>8, ApartQuiet
<1>. QED
  BY <1>3, <1>9, Zenon DEF IInv

\* The page directory a call works on, as one of its roles.
WorkRole(p) == IF k[p].own THEN "dir" ELSE "local"

\* A step of allocuvm, mappages or deallocuvm changes that directory.
LEMMA WorkKeeps ==
  ASSUME IInv, NEW p \in Procs, state[p] = "USED", NEW l \in Locals, NEW d \in Dirs, Work(p, l, d),
         LocalOk([l EXCEPT !.pd = IF l.own THEN l.pd ELSE d]),
         l.own = k[p].own, l.then = k[p].then, l.child = k[p].child, l.pd = k[p].pd,
         Tidy(d), d.dir = Pd(p).dir, free' \subseteq Nat \ {None}, UNCHANGED <<state, kstack, sz>>
  PROVE  /\ Core'
         /\ \A q \in Procs, r \in Roles : q # p => Held'[q][r] = Held[q][r]
         /\ \A r \in Roles \ {WorkRole(p), "mem"} : Held'[p][r] = Held[p][r]
         /\ Held[p][WorkRole(p)] = PagesIn(Pd(p)) /\ Held'[p][WorkRole(p)] = PagesIn(d)
         /\ Held'[p]["mem"] = {l.mem} \ {None} /\ Held[p]["mem"] = {k[p].mem} \ {None}
<1>1. /\ Core /\ sz' \in [Procs -> 0 .. KERNBASE] /\ pgdir \in [Procs -> Dirs]
      /\ Tidy(pgdir[p]) /\ Tidy(k[p].pd) /\ pgdir[p].dir # None
  BY Zenon DEF IInv, Core, TypeInv, TidyInv, UsedInv
<1>2. /\ Held[p]["dir"] = PagesIn(pgdir[p]) /\ Held[p]["local"] = PagesIn(k[p].pd)
      /\ Held[p]["mem"] = {k[p].mem} \ {None}
  BY HeldBy, Zenon
<1>3. CASE k[p].own
  <2>1. Pd(p) = pgdir[p] /\ WorkRole(p) = "dir" /\ pgdir' = [pgdir EXCEPT ![p] = d] /\ k' = [k EXCEPT ![p] = l]
    BY <1>3, Zenon DEF Pd, WorkRole, Work
  <2>2. [l EXCEPT !.pd = IF l.own THEN l.pd ELSE d] = l
    BY <1>3, Zenon DEF Locals
  <2>3. OwnStep(p, l, d)
    BY <1>1, <2>1, <2>2, Zenon DEF OwnStep
  <2>4. Core'
    BY <1>1, <2>3, OwnStepKeeps, Zenon
  <2>5. /\ \A q \in Procs, r \in Roles : q # p => Held'[q][r] = Held[q][r]
        /\ Held'[p]["dir"] = PagesIn(d) /\ Held'[p]["local"] = PagesIn(l.pd)
        /\ Held'[p]["stack"] = Held[p]["stack"] /\ Held'[p]["mem"] = {l.mem} \ {None}
    BY <1>1, <2>3, OwnStepHeld, Zenon
  <2>6. \A r \in Roles \ {WorkRole(p), "mem"} : Held'[p][r] = Held[p][r]
    BY <1>2, <2>1, <2>5, Zenon DEF Roles
  <2>. QED
    BY <1>2, <2>1, <2>4, <2>5, <2>6, Zenon
<1>4. CASE ~k[p].own
  <2>. DEFINE m == [l EXCEPT !.pd = d]
  <2>1. Pd(p) = k[p].pd /\ WorkRole(p) = "local" /\ pgdir' = pgdir /\ k' = [k EXCEPT ![p] = m]
    BY <1>4, Zenon DEF Pd, WorkRole, Work
  <2>2. /\ [l EXCEPT !.pd = IF l.own THEN l.pd ELSE d] = m /\ m \in Locals /\ m.pd = d /\ m.mem = l.mem
        /\ m.then = l.then /\ m.child = l.child
    BY <1>4, Zenon DEF Locals
  <2>. HIDE DEF m
  <2>3. pgdir' = [pgdir EXCEPT ![p] = pgdir[p]] /\ pgdir[p] \in Dirs
    BY <1>1, <2>1, Zenon
  <2>4. OwnStep(p, m, pgdir[p])
    BY <1>1, <2>1, <2>2, <2>3, Zenon DEF OwnStep
  <2>5. Core'
    BY <1>1, <2>4, OwnStepKeeps, Zenon
  <2>6. /\ \A q \in Procs, r \in Roles : q # p => Held'[q][r] = Held[q][r]
        /\ Held'[p]["dir"] = PagesIn(pgdir[p]) /\ Held'[p]["local"] = PagesIn(m.pd)
        /\ Held'[p]["stack"] = Held[p]["stack"] /\ Held'[p]["mem"] = {m.mem} \ {None}
    BY <1>1, <2>4, OwnStepHeld, Zenon
  <2>7. \A r \in Roles \ {WorkRole(p), "mem"} : Held'[p][r] = Held[p][r]
    BY <1>2, <2>1, <2>6, Zenon DEF Roles
  <2>. QED
    BY <1>2, <2>1, <2>2, <2>5, <2>6, <2>7, Zenon
<1>. QED
  BY <1>3, <1>4, Zenon

-----------------------------------------------------------------------------
(* The steps that take and give no page *)

\* A process in user code.
LEMMA RunsUser ==
  ASSUME IInv, NEW p \in Procs, Runs(p)
  PROVE  state[p] = "USED" /\ k[p] = InUser
BY Zenon DEF IInv, Core, UsedInv, LocalOk, Runs

\* A process in a call.
LEMMA InCall ==
  ASSUME IInv, NEW p \in Procs, k[p].at # "user"
  PROVE  state[p] = "USED" /\ k[p] \in Locals /\ LocalOk(k[p]) /\ sz \in [Procs -> 0 .. KERNBASE]
BY Zenon DEF IInv, Core, TypeInv, UsedInv

\* growproc, upwards.
LEMMA growproc_moreKeeps ==
  ASSUME IInv, NEW p \in Procs, NEW n \in Grow, growproc_more(p, n)
  PROVE  IInv'
<1>. DEFINE new == (sz[p] + n) % ADDRS
            b == Allocuvm(InUser, sz[p], new)
            l == [b EXCEPT !.own = TRUE, !.then = "grow"]
<1>1. state[p] = "USED" /\ k[p] = InUser
  BY RunsUser, Zenon DEF growproc_more
<1>2. sz \in [Procs -> 0 .. KERNBASE] /\ sz[p] \in Nat /\ new \in 0 .. KERNBASE
  <2>1. sz \in [Procs -> 0 .. KERNBASE] /\ new < KERNBASE
    BY Zenon DEF IInv, Core, TypeInv, growproc_more
  <2>2. n \in 0 .. ADDRS - 1 /\ ADDRS \in Nat \ {0} /\ KERNBASE \in Nat
    BY MemoryAssumption DEF MemoryConstants
  <2>3. sz[p] \in Nat
    BY <2>1, <2>2
  <2>. QED
    BY <2>1, <2>2, <2>3
<1>3. k' = [k EXCEPT ![p] = l] /\ UNCHANGED <<free, state, kstack, sz, pgdir>>
  BY Zenon DEF growproc_more, Go
<1>. HIDE DEF new
<1>4. b \in Locals /\ b.pd = NoDir /\ b.mem = None /\ b.at = "allocuvm"
  BY <1>2, AllocuvmLocal, InUserLocal, Zenon
<1>. HIDE DEF b
<1>5. l \in Locals
  BY <1>4, Zenon DEF Locals
<1>6. l.pd = NoDir /\ l.mem = None /\ l.at = "allocuvm" /\ l.then = "grow" /\ l.own = TRUE
  BY <1>4, Zenon DEF Locals
<1>. HIDE DEF l
<1>7. LocalOk(l)
  BY <1>6, Zenon DEF LocalOk
<1>. QED
  BY <1>1, <1>2, <1>3, <1>5, <1>6, <1>7, LocalStepKeeps, Zenon

\* growproc, downwards.
LEMMA growproc_lessKeeps ==
  ASSUME IInv, NEW p \in Procs, NEW n \in Grow, growproc_less(p, n)
  PROVE  IInv'
<1>. DEFINE new == (sz[p] + n) % ADDRS
            l == [InUser EXCEPT !.at = "deallocuvm", !.own = TRUE, !.then = "shrink", !.a = PGROUNDUP(new),
                                !.end = sz[p], !.new = new]
<1>1. state[p] = "USED" /\ k[p] = InUser
  BY RunsUser, Zenon DEF growproc_less
<1>2. /\ sz \in [Procs -> 0 .. KERNBASE] /\ sz[p] \in 0 .. KERNBASE /\ new \in 0 .. KERNBASE
      /\ PGROUNDUP(new) \in Nat
  <2>1. sz \in [Procs -> 0 .. KERNBASE] /\ new < sz[p]
    BY Zenon DEF IInv, Core, TypeInv, growproc_less
  <2>2. n \in 0 .. ADDRS - 1 /\ ADDRS \in Nat \ {0} /\ KERNBASE \in Nat
    BY MemoryAssumption DEF MemoryConstants
  <2>3. sz[p] \in Nat /\ sz[p] \in 0 .. KERNBASE
    BY <2>1, <2>2
  <2>4. new \in Nat
    BY <2>2, <2>3
  <2>. QED
    BY <2>1, <2>2, <2>3, <2>4, RoundType
<1>3. k' = [k EXCEPT ![p] = l] /\ UNCHANGED <<free, state, kstack, sz, pgdir>>
  BY Zenon DEF growproc_less, Go
<1>. HIDE DEF new
<1>5. l \in Locals
  BY <1>2, InUserLocal, Zenon DEF Locals
<1>6. l.pd = NoDir /\ l.mem = None /\ l.at = "deallocuvm" /\ l.then = "shrink" /\ l.own = TRUE
  BY InUserLocal, Zenon DEF Locals
<1>. HIDE DEF l
<1>7. LocalOk(l)
  BY <1>6, Zenon DEF LocalOk
<1>. QED
  BY <1>1, <1>2, <1>3, <1>5, <1>6, <1>7, LocalStepKeeps, Zenon

\* A call returns, when it changes nothing but perhaps the size.
LEMMA ReturnKeeps ==
  ASSUME IInv, NEW p \in Procs, k[p].at # "user", Return(p), UNCHANGED <<free, state, kstack, pgdir>>,
         sz' \in [Procs -> 0 .. KERNBASE]
  PROVE  IInv'
<1>1. state[p] = "USED"
  BY InCall, Zenon
<1>2. k' = [k EXCEPT ![p] = InUser]
  BY Zenon DEF Return, Go
<1>. HIDE DEF InUser
<1>. QED
  BY <1>1, <1>2, InUserLocal, LocalStepKeeps, Zenon

\* growproc has grown the process.
LEMMA growproc_doneKeeps ==
  ASSUME IInv, NEW p \in Procs, growproc_done(p)
  PROVE  IInv'
<1>1. /\ k[p].at # "user" /\ sz' = [sz EXCEPT ![p] = k[p].new] /\ Return(p)
      /\ UNCHANGED <<free, state, kstack, pgdir>>
  BY Zenon DEF growproc_done
<1>2. k[p].new \in 0 .. KERNBASE /\ sz \in [Procs -> 0 .. KERNBASE]
  BY <1>1, InCall, Zenon DEF Locals
<1>. QED
  BY <1>1, <1>2, ReturnKeeps, Zenon

\* A call enters freevm with the page directory it works on.
LEMMA FreevmKeeps ==
  ASSUME IInv, NEW p \in Procs, k[p].at \notin {"user", "setupkvm", "bad"}, ~k[p].own, Go(p, Freevm(k[p])),
         UNCHANGED <<free, state, kstack, pgdir>>, sz' \in [Procs -> 0 .. KERNBASE]
  PROVE  IInv'
<1>1. state[p] = "USED" /\ k[p] \in Locals /\ LocalOk(k[p])
  BY InCall, Zenon
<1>2. k[p].then \notin {"grow", "shrink"} /\ k[p].pd.dir # None
  BY <1>1, Zenon DEF LocalOk
<1>. DEFINE l == Freevm(k[p])
<1>3. /\ l \in Locals /\ LocalOk(l) /\ l.pd = k[p].pd /\ l.mem = None
      /\ l.then \in {"fork", "wait"} => l.then = k[p].then /\ l.child = k[p].child
  BY <1>1, <1>2, FreevmLocal, Zenon
<1>4. k' = [k EXCEPT ![p] = l]
  BY Zenon DEF Go
<1>. HIDE DEF l
<1>. QED
  BY <1>1, <1>3, <1>4, LocalStepKeeps, Zenon

\* walkpgdir got no page for mappages.
LEMMA mappages_failsKeeps ==
  ASSUME IInv, NEW p \in Procs, mappages_fails(p)
  PROVE  IInv'
<1>1. k[p].at = "mappages" /\ UNCHANGED <<free, state, kstack, sz, pgdir>>
  BY Zenon DEF mappages_fails
<1>2. state[p] = "USED" /\ k[p] \in Locals /\ LocalOk(k[p]) /\ sz \in [Procs -> 0 .. KERNBASE]
  BY <1>1, InCall, Zenon
<1>3. CASE k[p].then = "fork"
  <2>1. Go(p, Freevm(k[p]))
    BY <1>3, Zenon DEF mappages_fails
  <2>2. ~k[p].own
    BY <1>2, <1>3, Zenon DEF LocalOk
  <2>. QED
    BY <1>1, <1>2, <2>1, <2>2, FreevmKeeps, Zenon
<1>4. CASE k[p].then # "fork"
  <2>. DEFINE l == [k[p] EXCEPT !.at = "allocuvm", !.mem = None, !.a = @ + PGSIZE]
  <2>1. k' = [k EXCEPT ![p] = l]
    BY <1>4, Zenon DEF mappages_fails, Go
  <2>2. k[p].a + PGSIZE \in Nat /\ None \in Nat
    BY <1>2, MemoryAssumption DEF MemoryConstants, Locals, None
  <2>3. l \in Locals
    BY <1>2, <2>2, Zenon DEF Locals
  <2>4. /\ l.pd = k[p].pd /\ l.mem = None /\ l.at = "allocuvm" /\ l.then = k[p].then /\ l.own = k[p].own
        /\ l.child = k[p].child
    BY <1>2, Zenon DEF Locals
  <2>. HIDE DEF l
  <2>5. LocalOk(l)
    BY <1>1, <1>2, <2>4, Zenon DEF LocalOk
  <2>. QED
    BY <1>1, <1>2, <2>1, <2>3, <2>4, <2>5, LocalStepKeeps, Zenon
<1>. QED
  BY <1>3, <1>4, Zenon

\* deallocuvm is through.
LEMMA deallocuvm_doneKeeps ==
  ASSUME IInv, NEW p \in Procs, deallocuvm_done(p)
  PROVE  IInv'
<1>1. /\ k[p].at = "deallocuvm" /\ UNCHANGED <<free, state, kstack, pgdir>>
      /\ sz' = IF k[p].then = "shrink" /\ k[p].new # 0 THEN [sz EXCEPT ![p] = k[p].new] ELSE sz
  BY Zenon DEF deallocuvm_done
<1>2. state[p] = "USED" /\ k[p] \in Locals /\ LocalOk(k[p]) /\ sz \in [Procs -> 0 .. KERNBASE]
  BY <1>1, InCall, Zenon
<1>3. sz' \in [Procs -> 0 .. KERNBASE]
  BY <1>1, <1>2, Zenon DEF Locals
<1>4. CASE Return(p)
  BY <1>1, <1>3, <1>4, ReturnKeeps, Zenon
<1>5. CASE k[p].then \in {"segment", "stack"} /\ Go(p, Freevm(k[p]))
  <2>1. ~k[p].own
    BY <1>2, <1>5, Zenon DEF LocalOk
  <2>. QED
    BY <1>1, <1>3, <1>5, <2>1, FreevmKeeps, Zenon
<1>6. CASE k[p].then \in {"fork", "exec", "wait"} /\ Go(p, [k[p] EXCEPT !.at = "freevm"])
  <2>. DEFINE l == [k[p] EXCEPT !.at = "freevm"]
  <2>1. k' = [k EXCEPT ![p] = l]
    BY <1>6, Zenon DEF Go
  <2>2. l \in Locals
    BY <1>2, Zenon DEF Locals
  <2>3. /\ l.pd = k[p].pd /\ l.mem = k[p].mem /\ l.at = "freevm" /\ l.then = k[p].then /\ l.own = k[p].own
        /\ l.child = k[p].child
    BY <1>2, Zenon DEF Locals
  <2>. HIDE DEF l
  <2>4. LocalOk(l)
    BY <1>1, <1>2, <1>6, <2>3, Zenon DEF LocalOk
  <2>. QED
    BY <1>1, <1>2, <1>3, <2>1, <2>2, <2>3, <2>4, LocalStepKeeps, Zenon
<1>. QED
  BY <1>4, <1>5, <1>6, Zenon DEF deallocuvm_done

\* setupkvm got no page.
LEMMA setupkvm_failsKeeps ==
  ASSUME IInv, NEW p \in Procs, setupkvm_fails(p)
  PROVE  IInv'
<1>1. k[p].at = "setupkvm" /\ UNCHANGED <<free, state, kstack, sz, pgdir>>
  BY Zenon DEF setupkvm_fails
<1>2. state[p] = "USED" /\ k[p] \in Locals /\ LocalOk(k[p]) /\ sz \in [Procs -> 0 .. KERNBASE]
  BY <1>1, InCall, Zenon
<1>3. CASE k[p].then = "fork"
  <2>. DEFINE l == [k[p] EXCEPT !.at = "bad", !.pd = NoDir]
  <2>1. k' = [k EXCEPT ![p] = l]
    BY <1>3, Zenon DEF setupkvm_fails, Go
  <2>2. l \in Locals
    BY <1>2, NoDirType, Zenon DEF Locals
  <2>3. /\ l.pd = NoDir /\ l.mem = k[p].mem /\ l.at = "bad" /\ l.then = "fork" /\ l.own = k[p].own
        /\ l.child = k[p].child
    BY <1>2, <1>3, Zenon DEF Locals
  <2>. HIDE DEF l
  <2>4. LocalOk(l)
    BY <1>1, <1>2, <2>3, Zenon DEF LocalOk
  <2>. QED
    BY <1>1, <1>2, <1>3, <2>1, <2>2, <2>3, <2>4, LocalStepKeeps, Zenon
<1>4. CASE k[p].then # "fork"
  <2>1. Return(p)
    BY <1>4, Zenon DEF setupkvm_fails
  <2>. QED
    BY <1>1, <1>2, <2>1, ReturnKeeps, Zenon
<1>. QED
  BY <1>3, <1>4, Zenon

\* exec begins.
LEMMA execKeeps ==
  ASSUME IInv, NEW p \in Procs, exec(p)
  PROVE  IInv'
<1>. DEFINE l == [InUser EXCEPT !.at = "setupkvm", !.then = "exec"]
<1>1. state[p] = "USED" /\ k[p] = InUser /\ sz \in [Procs -> 0 .. KERNBASE]
  BY RunsUser, Zenon DEF exec, IInv, Core, TypeInv
<1>2. k' = [k EXCEPT ![p] = l] /\ UNCHANGED <<free, state, kstack, sz, pgdir>>
  BY Zenon DEF exec, Go
<1>3. l \in Locals
  BY InUserLocal, Zenon DEF Locals
<1>4. l.pd = NoDir /\ l.mem = None /\ l.at = "setupkvm" /\ l.then = "exec" /\ l.own = FALSE
  BY Zenon DEF InUser
<1>. HIDE DEF l
<1>5. LocalOk(l)
  BY <1>4, Zenon DEF LocalOk
<1>. QED
  BY <1>1, <1>2, <1>3, <1>4, <1>5, LocalStepKeeps, Zenon

\* exec gives up.
LEMMA exec_badKeeps ==
  ASSUME IInv, NEW p \in Procs, exec_bad(p)
  PROVE  IInv'
<1>1. /\ k[p].at \in {"exec", "allocuvm"} /\ (k[p].at = "allocuvm" => k[p].then \in {"segment", "stack"})
      /\ Go(p, Freevm(k[p])) /\ UNCHANGED <<free, state, kstack, sz, pgdir>>
  BY Zenon DEF exec_bad
<1>2. state[p] = "USED" /\ k[p] \in Locals /\ LocalOk(k[p]) /\ sz \in [Procs -> 0 .. KERNBASE]
  BY <1>1, InCall, Zenon
<1>3. ~k[p].own
  BY <1>1, <1>2, Zenon DEF LocalOk
<1>. QED
  BY <1>1, <1>2, <1>3, FreevmKeeps, Zenon

\* exec loads a segment.
LEMMA exec_segmentKeeps ==
  ASSUME IInv, NEW p \in Procs, NEW s \in Segments, exec_segment(p, s)
  PROVE  IInv'
<1>. DEFINE e == (s.vaddr + s.memsz) % ADDRS
            b == Allocuvm(k[p], k[p].old, e)
            l == [b EXCEPT !.then = "segment", !.ph = s]
<1>1. /\ k[p].at = "exec" /\ UNCHANGED <<free, state, kstack, sz, pgdir>> /\ k' = [k EXCEPT ![p] = l]
      /\ e < KERNBASE
  BY Zenon DEF exec_segment, Go
<1>2. state[p] = "USED" /\ k[p] \in Locals /\ LocalOk(k[p]) /\ sz \in [Procs -> 0 .. KERNBASE]
  BY <1>1, InCall, Zenon
<1>3. k[p].old \in Nat /\ e \in 0 .. KERNBASE /\ s \in Headers
  <2>1. k[p].old \in Nat
    BY <1>2, Zenon DEF Locals
  <2>2. s \in Headers
    BY MemoryAssumption, Zenon DEF MemoryConstants
  <2>3. s.vaddr \in Nat /\ s.memsz \in Nat
    BY <2>2, Zenon DEF Headers
  <2>4. e \in Nat
    BY <2>3, MemoryAssumption DEF MemoryConstants
  <2>5. e \in 0 .. KERNBASE
    BY <1>1, <2>4, MemoryAssumption DEF MemoryConstants
  <2>. QED
    BY <2>1, <2>2, <2>5, Zenon
<1>4. b \in Locals /\ b.pd = k[p].pd /\ b.mem = k[p].mem /\ b.at = "allocuvm" /\ b.own = k[p].own
  BY <1>2, <1>3, AllocuvmLocal, Zenon
<1>. HIDE DEF b, e
<1>5. l \in Locals
  BY <1>3, <1>4, Zenon DEF Locals
<1>6. l.pd = k[p].pd /\ l.mem = k[p].mem /\ l.at = "allocuvm" /\ l.then = "segment" /\ l.own = k[p].own
  BY <1>4, Zenon DEF Locals
<1>. HIDE DEF l
<1>7. LocalOk(l)
  BY <1>1, <1>2, <1>6, Zenon DEF LocalOk
<1>. QED
  BY <1>1, <1>2, <1>5, <1>6, <1>7, LocalStepKeeps, Zenon

\* exec has loaded one.
LEMMA exec_loadedKeeps ==
  ASSUME IInv, NEW p \in Procs, exec_loaded(p)
  PROVE  IInv'
<1>. DEFINE n == IF k[p].new < k[p].old THEN k[p].old ELSE k[p].new
            l == [k[p] EXCEPT !.at = "exec", !.then = "exec", !.old = n]
<1>1. /\ k[p].at = "allocuvm" /\ k[p].then = "segment" /\ UNCHANGED <<free, state, kstack, sz, pgdir>>
      /\ k' = [k EXCEPT ![p] = l]
  BY Zenon DEF exec_loaded, Go
<1>2. state[p] = "USED" /\ k[p] \in Locals /\ LocalOk(k[p]) /\ sz \in [Procs -> 0 .. KERNBASE]
  BY <1>1, InCall, Zenon
<1>3. n \in Nat
  <2>1. k[p].new \in 0 .. KERNBASE /\ k[p].old \in Nat
    BY <1>2, Zenon DEF Locals
  <2>. QED
    BY <2>1, MemoryAssumption DEF MemoryConstants
<1>. HIDE DEF n
<1>4. l \in Locals
  BY <1>2, <1>3, Zenon DEF Locals
<1>5. l.pd = k[p].pd /\ l.mem = k[p].mem /\ l.at = "exec" /\ l.then = "exec" /\ l.own = k[p].own
  BY <1>2, Zenon DEF Locals
<1>. HIDE DEF l
<1>6. LocalOk(l)
  BY <1>1, <1>2, <1>5, Zenon DEF LocalOk
<1>. QED
  BY <1>1, <1>2, <1>4, <1>5, <1>6, LocalStepKeeps, Zenon

\* exec makes the stack.
LEMMA exec_stackKeeps ==
  ASSUME IInv, NEW p \in Procs, exec_stack(p)
  PROVE  IInv'
<1>. DEFINE base == PGROUNDUP(k[p].old)
            b == Allocuvm(k[p], base, base + 2 * PGSIZE)
            l == [b EXCEPT !.then = "stack"]
<1>1. /\ k[p].at = "exec" /\ UNCHANGED <<free, state, kstack, sz, pgdir>> /\ k' = [k EXCEPT ![p] = l]
      /\ base + 2 * PGSIZE < KERNBASE
  BY Zenon DEF exec_stack, Go
<1>2. state[p] = "USED" /\ k[p] \in Locals /\ LocalOk(k[p]) /\ sz \in [Procs -> 0 .. KERNBASE]
  BY <1>1, InCall, Zenon
<1>3. base \in Nat
  BY <1>2, RoundType, Zenon DEF Locals
<1>. HIDE DEF base
<1>4. base + 2 * PGSIZE \in 0 .. KERNBASE
  BY <1>1, <1>3, MemoryAssumption DEF MemoryConstants
<1>5. b \in Locals /\ b.pd = k[p].pd /\ b.mem = k[p].mem /\ b.at = "allocuvm" /\ b.own = k[p].own
  BY <1>2, <1>3, <1>4, AllocuvmLocal, Zenon
<1>. HIDE DEF b
<1>6. l \in Locals
  BY <1>5, Zenon DEF Locals
<1>7. l.pd = k[p].pd /\ l.mem = k[p].mem /\ l.at = "allocuvm" /\ l.then = "stack" /\ l.own = k[p].own
  BY <1>5, Zenon DEF Locals
<1>. HIDE DEF l
<1>8. LocalOk(l)
  BY <1>1, <1>2, <1>7, Zenon DEF LocalOk
<1>. QED
  BY <1>1, <1>2, <1>6, <1>7, <1>8, LocalStepKeeps, Zenon

-----------------------------------------------------------------------------
(* The loops of allocuvm, mappages and deallocuvm *)

\* The page directory such a loop works on: a free page is not one of its pages.
LEMMA PdTidy ==
  ASSUME IInv, NEW p \in Procs
  PROVE  Pd(p) \in Dirs /\ Tidy(Pd(p)) /\ free \cap PagesIn(Pd(p)) = {}
<1>1. /\ pgdir \in [Procs -> Dirs] /\ k \in [Procs -> Locals] /\ Tidy(pgdir[p]) /\ Tidy(k[p].pd)
  BY Zenon DEF IInv, Core, TypeInv, TidyInv
<1>2. pgdir[p] \in Dirs /\ k[p].pd \in Dirs
  BY <1>1, Zenon DEF Locals
<1>3. free \cap PagesIn(pgdir[p]) = {} /\ free \cap PagesIn(k[p].pd) = {}
  <2>1. Held[p]["dir"] = PagesIn(pgdir[p]) /\ Held[p]["local"] = PagesIn(k[p].pd)
    BY HeldBy, Zenon
  <2>2. Held[p]["dir"] \cap free = {} /\ Held[p]["local"] \cap free = {}
    BY Zenon DEF IInv, Apart, Roles
  <2>. QED
    BY <2>1, <2>2, Zenon
<1>. QED
  BY <1>1, <1>2, <1>3, Zenon DEF Pd

\* Their local variables keep to what LocalOk says.
LEMMA WorkLocal ==
  ASSUME IInv, NEW p \in Procs, k[p].at \in {"allocuvm", "mappages", "deallocuvm"}, NEW l \in Locals,
         NEW d \in Dirs, d.dir = Pd(p).dir, l.own = k[p].own, l.then = k[p].then, l.pd = k[p].pd,
         \/ l.at \in {"allocuvm", "mappages", "deallocuvm"}
         \/ l.at = "copyuvm" /\ k[p].then = "fork"
  PROVE  LocalOk([l EXCEPT !.pd = IF l.own THEN l.pd ELSE d])
<1>. DEFINE m == [l EXCEPT !.pd = IF l.own THEN l.pd ELSE d]
<1>1. LocalOk(k[p])
  BY InCall, Zenon
<1>2. m.at = l.at /\ m.own = l.own /\ m.then = l.then /\ m.pd = IF l.own THEN l.pd ELSE d
  BY Zenon DEF Locals
<1>3. ~l.own => d.dir = k[p].pd.dir
  BY Zenon DEF Pd
<1>. HIDE DEF m
<1>4. LocalOk(m)
  BY <1>1, <1>2, <1>3, Zenon DEF LocalOk
<1>. QED
  BY <1>4, Zenon DEF m

\* One turn of the loop of allocuvm.
LEMMA allocuvmKeeps ==
  ASSUME IInv, NEW p \in Procs, allocuvm(p)
  PROVE  IInv'
<1>. DEFINE f == kalloc
            d == Pd(p)
            r == WorkRole(p)
<1>1. k[p].at = "allocuvm" /\ free' = free \ {f} /\ UNCHANGED <<state, kstack, sz>>
  BY Zenon DEF allocuvm
<1>2. /\ state[p] = "USED" /\ k[p] \in Locals /\ d \in Dirs /\ Tidy(d) /\ free \cap PagesIn(d) = {}
      /\ r \in Roles /\ r # "mem"
  BY <1>1, InCall, PdTidy, Zenon DEF WorkRole, Roles
<1>3. /\ Apart(free, Held) /\ free \subseteq Nat \ {None} /\ free' \subseteq Nat \ {None}
      /\ (IF free = {} THEN f = None ELSE f \in free /\ f \in Nat \ {None})
  BY <1>1, kallocTakes, Zenon DEF IInv, Core, TypeInv
<1>4. CASE f = None
  <2>. DEFINE l == [k[p] EXCEPT !.at = "deallocuvm", !.a = PGROUNDUP(k[p].old), !.end = k[p].new]
  <2>1. Work(p, l, d)
    BY <1>4, Zenon DEF allocuvm
  <2>2. PGROUNDUP(k[p].old) \in Nat /\ k[p].new \in 0 .. KERNBASE
    BY <1>2, RoundType, Zenon DEF Locals
  <2>3. l \in Locals
    BY <1>2, <2>2, Zenon DEF Locals
  <2>4. /\ l.pd = k[p].pd /\ l.mem = k[p].mem /\ l.at = "deallocuvm" /\ l.then = k[p].then /\ l.own = k[p].own
        /\ l.child = k[p].child
    BY <1>2, Zenon DEF Locals
  <2>. HIDE DEF l
  <2>5. LocalOk([l EXCEPT !.pd = IF l.own THEN l.pd ELSE d])
    BY <1>1, <1>2, <2>3, <2>4, WorkLocal, Zenon
  <2>. HIDE DEF d, r
  <2>6. /\ Core'
        /\ \A q \in Procs, s \in Roles : q # p => Held'[q][s] = Held[q][s]
        /\ \A s \in Roles \ {r, "mem"} : Held'[p][s] = Held[p][s]
        /\ Held[p][r] = PagesIn(d) /\ Held'[p][r] = PagesIn(d)
        /\ Held'[p]["mem"] = {l.mem} \ {None} /\ Held[p]["mem"] = {k[p].mem} \ {None}
    BY <1>1, <1>2, <1>3, <2>1, <2>3, <2>4, <2>5, WorkKeeps, Zenon DEF d, r
  <2>7. \A q \in Procs, s \in Roles : Held'[q][s] = Held[q][s]
    BY <2>4, <2>6, Zenon
  <2>8. Apart(free', Held')
    BY <1>1, <1>3, <2>7, ApartQuiet
  <2>. QED
    BY <2>6, <2>8, Zenon DEF IInv
<1>5. CASE f # None /\ d.tab[PDX(k[p].a)] = None
  <2>. DEFINE l == [k[p] EXCEPT !.at = "mappages", !.mem = f]
  <2>1. Work(p, l, d) /\ f \in free /\ f \in Nat
    BY <1>3, <1>5, Zenon DEF allocuvm
  <2>3. l \in Locals
    BY <1>2, <2>1, Zenon DEF Locals
  <2>4. /\ l.pd = k[p].pd /\ l.mem = f /\ l.at = "mappages" /\ l.then = k[p].then /\ l.own = k[p].own
        /\ l.child = k[p].child
    BY <1>2, Zenon DEF Locals
  <2>. HIDE DEF l
  <2>5. LocalOk([l EXCEPT !.pd = IF l.own THEN l.pd ELSE d])
    BY <1>1, <1>2, <2>3, <2>4, WorkLocal, Zenon
  <2>. HIDE DEF d, r
  <2>6. /\ Core'
        /\ \A q \in Procs, s \in Roles : q # p => Held'[q][s] = Held[q][s]
        /\ \A s \in Roles \ {r, "mem"} : Held'[p][s] = Held[p][s]
        /\ Held[p][r] = PagesIn(d) /\ Held'[p][r] = PagesIn(d)
        /\ Held'[p]["mem"] = {l.mem} \ {None}
    BY <1>1, <1>2, <1>3, <2>1, <2>3, <2>4, <2>5, WorkKeeps, Zenon DEF d, r
  <2>. HIDE DEF f
  <2>7. /\ "mem" \in Roles /\ Held'[p]["mem"] \subseteq Held[p]["mem"] \cup {f}
        /\ \A q \in Procs, s \in Roles : p # q \/ "mem" # s => Held'[q][s] \subseteq Held[q][s]
    BY <2>4, <2>6 DEF Roles
  <2>8. Apart(free', Held')
    BY <1>1, <1>3, <2>1, <2>7, ApartTake
  <2>. QED
    BY <2>6, <2>8, Zenon DEF IInv
<1>6. CASE f # None /\ d.tab[PDX(k[p].a)] # None
  <2>. DEFINE l == [k[p] EXCEPT !.a = @ + PGSIZE]
              e == [d EXCEPT !.pte[PN(k[p].a)] = f]
  <2>1. Work(p, l, e) /\ f \in free /\ f \in Nat /\ f \notin PagesIn(d)
    BY <1>2, <1>3, <1>6, Zenon DEF allocuvm
  <2>2. k[p].a + PGSIZE \in Nat
    BY <1>2, MemoryAssumption DEF MemoryConstants, Locals
  <2>3. l \in Locals
    BY <1>2, <2>2, Zenon DEF Locals
  <2>4. /\ l.pd = k[p].pd /\ l.mem = k[p].mem /\ l.at = "allocuvm" /\ l.then = k[p].then /\ l.own = k[p].own
        /\ l.child = k[p].child
    BY <1>1, <1>2, Zenon DEF Locals
  <2>9. e \in Dirs /\ Tidy(e) /\ e.dir = d.dir /\ PagesIn(e) \subseteq PagesIn(d) \cup ({f} \ {None})
    BY <1>2, <2>1, PtePut, Zenon
  <2>. HIDE DEF l, e
  <2>5. LocalOk([l EXCEPT !.pd = IF l.own THEN l.pd ELSE e])
    BY <1>1, <1>2, <2>3, <2>4, <2>9, WorkLocal, Zenon
  <2>. HIDE DEF d, r
  <2>6. /\ Core'
        /\ \A q \in Procs, s \in Roles : q # p => Held'[q][s] = Held[q][s]
        /\ \A s \in Roles \ {r, "mem"} : Held'[p][s] = Held[p][s]
        /\ Held[p][r] = PagesIn(d) /\ Held'[p][r] = PagesIn(e)
        /\ Held'[p]["mem"] = {l.mem} \ {None} /\ Held[p]["mem"] = {k[p].mem} \ {None}
    BY <1>1, <1>2, <1>3, <2>1, <2>3, <2>4, <2>5, <2>9, WorkKeeps, Zenon DEF d, r
  <2>. HIDE DEF f
  <2>7. /\ Held'[p][r] \subseteq Held[p][r] \cup {f}
        /\ \A q \in Procs, s \in Roles : p # q \/ r # s => Held'[q][s] \subseteq Held[q][s]
    BY <2>4, <2>6, <2>9, Zenon DEF Roles
  <2>8. Apart(free', Held')
    BY <1>1, <1>2, <1>3, <2>1, <2>7, ApartTake
  <2>. QED
    BY <2>6, <2>8, Zenon DEF IInv
<1>. QED
  BY <1>4, <1>5, <1>6, Zenon

\* walkpgdir gets the page-table page and mappages maps the page at hand.
LEMMA mappagesKeeps ==
  ASSUME IInv, NEW p \in Procs, mappages(p)
  PROVE  IInv'
<1>. DEFINE t == kalloc
            d == Pd(p)
            r == WorkRole(p)
            at == IF k[p].then = "fork" THEN "copyuvm" ELSE "allocuvm"
            l == [k[p] EXCEPT !.at = at, !.mem = None, !.a = @ + PGSIZE]
            b == [d EXCEPT !.tab[PDX(k[p].a)] = t]
            e == [b EXCEPT !.pte[PN(k[p].a)] = k[p].mem]
<1>1. k[p].at = "mappages" /\ t # None /\ free' = free \ {t} /\ UNCHANGED <<state, kstack, sz>>
  BY Zenon DEF mappages
<1>2. /\ state[p] = "USED" /\ k[p] \in Locals /\ d \in Dirs /\ Tidy(d) /\ free \cap PagesIn(d) = {}
      /\ r \in Roles /\ r # "mem" /\ "mem" \in Roles
  BY <1>1, InCall, PdTidy, Zenon DEF WorkRole, Roles
<1>3. /\ Apart(free, Held) /\ free \subseteq Nat \ {None} /\ free' \subseteq Nat \ {None}
      /\ t \in free /\ t \in Nat \ {None} /\ t \notin PagesIn(d)
  BY <1>1, <1>2, kallocTakes, Zenon DEF IInv, Core, TypeInv
<1>4. /\ at \in {"user", "setupkvm", "copyuvm", "exec", "allocuvm", "mappages", "deallocuvm", "freevm", "bad"}
      /\ k[p].a + PGSIZE \in Nat /\ None \in Nat /\ k[p].mem \in Nat
  BY <1>2, MemoryAssumption DEF MemoryConstants, Locals, None
<1>5. l \in Locals
  BY <1>2, <1>4, Zenon DEF Locals
<1>6. /\ l.pd = k[p].pd /\ l.mem = None /\ l.at = at /\ l.then = k[p].then /\ l.own = k[p].own
      /\ l.child = k[p].child
  BY <1>2, Zenon DEF Locals
<1>7. Work(p, l, e)
  <2>1. e = [d EXCEPT !.tab[PDX(k[p].a)] = t, !.pte[PN(k[p].a)] = k[p].mem]
    BY <1>2, Zenon DEF Dirs
  <2>2. Work(p, l, [d EXCEPT !.tab[PDX(k[p].a)] = t, !.pte[PN(k[p].a)] = k[p].mem])
    BY Zenon DEF mappages
  <2>. HIDE DEF l, d, t, e
  <2>. QED
    BY <2>1, <2>2, Zenon
<1>8. Held[p][r] = PagesIn(d) /\ Held[p]["mem"] = {k[p].mem} \ {None}
  BY HeldBy, Zenon DEF WorkRole, Pd
<1>. HIDE DEF l, t
<1>9. b \in Dirs /\ Tidy(b) /\ b.dir = d.dir /\ PagesIn(b) \subseteq PagesIn(d) \cup ({t} \ {None})
  BY <1>2, <1>3, TabPut, Zenon
<1>. HIDE DEF b
<1>10. k[p].mem \notin PagesIn(b)
  <2>. HIDE DEF d, r
  <2>1. Held[p]["mem"] \cap Held[p][r] = {} /\ Held[p]["mem"] \cap free = {}
    BY <1>2, <1>3, Zenon DEF Apart
  <2>2. None \notin PagesIn(b)
    BY Zenon DEF PagesIn
  <2>. QED
    BY <1>3, <1>8, <1>9, <2>1, <2>2
<1>11. e \in Dirs /\ Tidy(e) /\ e.dir = b.dir /\ PagesIn(e) \subseteq PagesIn(b) \cup ({k[p].mem} \ {None})
  BY <1>4, <1>9, <1>10, PtePut, Zenon
<1>. HIDE DEF e
<1>12. LocalOk([l EXCEPT !.pd = IF l.own THEN l.pd ELSE e])
  <2>1. l.at \in {"allocuvm", "mappages", "deallocuvm"} \/ (l.at = "copyuvm" /\ k[p].then = "fork")
    BY <1>6, Zenon
  <2>. QED
    BY <1>1, <1>2, <1>5, <1>6, <1>9, <1>11, <2>1, WorkLocal, Zenon
<1>. HIDE DEF d, r
<1>13. /\ Core'
       /\ \A q \in Procs, s \in Roles : q # p => Held'[q][s] = Held[q][s]
       /\ \A s \in Roles \ {r, "mem"} : Held'[p][s] = Held[p][s]
       /\ Held'[p][r] = PagesIn(e) /\ Held'[p]["mem"] = {l.mem} \ {None}
  BY <1>1, <1>2, <1>3, <1>5, <1>6, <1>7, <1>9, <1>11, <1>12, WorkKeeps DEF d, r
<1>14. /\ Held'[p][r] \subseteq Held[p][r] \cup {t} \cup Held[p]["mem"] /\ Held'[p]["mem"] = {}
       /\ \A q \in Procs, s \in Roles : p # q \/ s \notin {r, "mem"} => Held'[q][s] \subseteq Held[q][s]
  BY <1>6, <1>8, <1>9, <1>11, <1>13
<1>15. Apart(free', Held')
  BY <1>1, <1>2, <1>3, <1>14, ApartMerge
<1>. QED
  BY <1>13, <1>15, Zenon DEF IInv

\* One turn of the loop of deallocuvm.
LEMMA deallocuvmKeeps ==
  ASSUME IInv, NEW p \in Procs, deallocuvm(p)
  PROVE  IInv'
<1>. DEFINE d == Pd(p)
            r == WorkRole(p)
            n == PN(k[p].a)
            step == IF d.tab[PDX(k[p].a)] = None THEN NPTENTRIES * PGSIZE ELSE PGSIZE
            e == IF d.tab[PDX(k[p].a)] = None THEN d ELSE [d EXCEPT !.pte[n] = None]
            X == IF d.tab[PDX(k[p].a)] = None THEN {} ELSE {d.pte[n]} \ {None}
            l == [k[p] EXCEPT !.a = @ + step]
<1>1. k[p].at = "deallocuvm" /\ k[p].a < k[p].end /\ UNCHANGED <<state, kstack, sz>>
  BY Zenon DEF deallocuvm
<1>2. /\ state[p] = "USED" /\ k[p] \in Locals /\ d \in Dirs /\ Tidy(d)
      /\ r \in Roles /\ r # "mem" /\ "mem" \in Roles
  BY <1>1, InCall, PdTidy, Zenon DEF WorkRole, Roles
<1>3. n \in Pages
  <2>1. k[p].a \in Nat /\ k[p].end \in 0 .. KERNBASE /\ KERNBASE \in Nat
    BY <1>2, MemoryAssumption, Zenon DEF MemoryConstants, Locals
  <2>2. k[p].a < KERNBASE
    BY <1>1, <2>1
  <2>. QED
    BY <2>1, <2>2, UserPage, Zenon
<1>4. Work(p, l, e) /\ free' = free \cup X
  BY Zenon DEF deallocuvm
<1>5. step \in Nat /\ k[p].a + step \in Nat
  <2>1. PGSIZE \in Nat /\ NPTENTRIES \in Nat /\ k[p].a \in Nat
    BY <1>2, MemoryAssumption, Zenon DEF MemoryConstants, Locals
  <2>. QED
    BY <2>1
<1>. HIDE DEF step
<1>6. l \in Locals
  BY <1>2, <1>5, Zenon DEF Locals
<1>7. /\ l.pd = k[p].pd /\ l.mem = k[p].mem /\ l.at = "deallocuvm" /\ l.then = k[p].then /\ l.own = k[p].own
      /\ l.child = k[p].child
  BY <1>1, <1>2, Zenon DEF Locals
<1>. HIDE DEF l, n
<1>8. /\ e \in Dirs /\ Tidy(e) /\ e.dir = d.dir /\ PagesIn(e) \subseteq PagesIn(d) \ X
      /\ X \subseteq PagesIn(d)
  <2>1. CASE d.tab[PDX(k[p].a)] = None
    BY <1>2, <2>1, Zenon
  <2>2. CASE d.tab[PDX(k[p].a)] # None
    <3>1. e = [d EXCEPT !.pte[n] = None] /\ X = {d.pte[n]} \ {None}
      BY <2>2, Zenon
    <3>2. e \in Dirs /\ Tidy(e) /\ e.dir = d.dir /\ PagesIn(e) \subseteq PagesIn(d) \ {d.pte[n]}
      BY <1>2, <1>3, <3>1, PteClear, Zenon
    <3>3. X \subseteq PagesIn(d)
      BY <1>3, <3>1, Zenon DEF PagesIn
    <3>. QED
      BY <3>1, <3>2, <3>3, Zenon
  <2>. QED
    BY <2>1, <2>2, Zenon
<1>. HIDE DEF e, X
<1>9. free' \subseteq Nat \ {None} /\ Apart(free, Held)
  <2>1. PagesIn(d) \subseteq Nat \ {None}
    BY <1>2, Zenon DEF PagesIn, Dirs
  <2>. QED
    BY <1>4, <1>8, <2>1, Zenon DEF IInv, Core, TypeInv
<1>10. LocalOk([l EXCEPT !.pd = IF l.own THEN l.pd ELSE e])
  BY <1>1, <1>2, <1>6, <1>7, <1>8, WorkLocal, Zenon
<1>. HIDE DEF d, r
<1>11. /\ Core'
       /\ \A q \in Procs, s \in Roles : q # p => Held'[q][s] = Held[q][s]
       /\ \A s \in Roles \ {r, "mem"} : Held'[p][s] = Held[p][s]
       /\ Held[p][r] = PagesIn(d) /\ Held'[p][r] = PagesIn(e)
       /\ Held'[p]["mem"] = {l.mem} \ {None} /\ Held[p]["mem"] = {k[p].mem} \ {None}
  BY <1>1, <1>2, <1>4, <1>6, <1>7, <1>8, <1>9, <1>10, WorkKeeps, Zenon DEF d, r
<1>12. /\ r \in Roles /\ Apart(free, Held)
       /\ free' \subseteq free \cup X /\ X \subseteq Held[p][r] /\ Held'[p][r] \subseteq Held[p][r] \ X
       /\ \A q \in Procs, s \in Roles : p # q \/ r # s => Held'[q][s] \subseteq Held[q][s]
  BY <1>2, <1>4, <1>7, <1>8, <1>9, <1>11, Zenon
<1>13. Apart(free', Held')
  BY <1>12 DEF Apart
<1>. QED
  BY <1>11, <1>13, Zenon DEF IInv

-----------------------------------------------------------------------------
(* setupkvm, copyuvm and exec *)

\* A step that changes the page directory a call makes.
LEMMA LocalPdKeeps ==
  ASSUME IInv, NEW p \in Procs, state[p] = "USED", NEW l \in Locals, LocalOk(l), Tidy(l.pd),
         l.then \in {"fork", "wait"} => l.then = k[p].then /\ l.child = k[p].child,
         k' = [k EXCEPT ![p] = l], free' \subseteq Nat \ {None}, UNCHANGED <<state, kstack, sz, pgdir>>
  PROVE  /\ Core'
         /\ \A q \in Procs, r \in Roles : q # p => Held'[q][r] = Held[q][r]
         /\ \A r \in Roles \ {"local", "mem"} : Held'[p][r] = Held[p][r]
         /\ Held[p]["local"] = PagesIn(k[p].pd) /\ Held'[p]["local"] = PagesIn(l.pd)
         /\ Held[p]["mem"] = {k[p].mem} \ {None} /\ Held'[p]["mem"] = {l.mem} \ {None}
<1>. DEFINE d == pgdir[p]
<1>1. /\ pgdir \in [Procs -> Dirs] /\ Tidy(d) /\ d.dir # None /\ Core /\ sz' \in [Procs -> 0 .. KERNBASE]
  BY Zenon DEF IInv, Core, TypeInv, TidyInv, UsedInv
<1>2. pgdir' = [pgdir EXCEPT ![p] = d] /\ d \in Dirs
  BY <1>1, Zenon
<1>3. OwnStep(p, l, d)
  BY <1>1, <1>2, Zenon DEF OwnStep
<1>4. Core'
  BY <1>1, <1>3, OwnStepKeeps, Zenon
<1>5. /\ \A q \in Procs, r \in Roles : q # p => Held'[q][r] = Held[q][r]
      /\ Held'[p]["dir"] = PagesIn(d) /\ Held'[p]["local"] = PagesIn(l.pd)
      /\ Held'[p]["stack"] = Held[p]["stack"] /\ Held'[p]["mem"] = {l.mem} \ {None}
  BY <1>1, <1>3, OwnStepHeld, Zenon
<1>6. /\ Held[p]["dir"] = PagesIn(d) /\ Held[p]["local"] = PagesIn(k[p].pd)
      /\ Held[p]["mem"] = {k[p].mem} \ {None}
  BY HeldBy, Zenon
<1>7. \A r \in Roles \ {"local", "mem"} : Held'[p][r] = Held[p][r]
  BY <1>5, <1>6, Zenon DEF Roles
<1>. QED
  BY <1>4, <1>5, <1>6, <1>7, Zenon

\* The page directory a call makes: a free page is not one of its pages.
LEMMA LocalTidy ==
  ASSUME IInv, NEW p \in Procs
  PROVE  k[p].pd \in Dirs /\ Tidy(k[p].pd) /\ free \cap PagesIn(k[p].pd) = {}
<1>1. k \in [Procs -> Locals] /\ Tidy(k[p].pd)
  BY Zenon DEF IInv, Core, TypeInv, TidyInv
<1>2. k[p].pd \in Dirs
  BY <1>1, Zenon DEF Locals
<1>3. Held[p]["local"] = PagesIn(k[p].pd)
  BY HeldBy, Zenon
<1>4. Held[p]["local"] \cap free = {}
  BY Zenon DEF IInv, Apart, Roles
<1>. QED
  BY <1>1, <1>2, <1>3, <1>4, Zenon

\* setupkvm gets a page.
LEMMA setupkvmKeeps ==
  ASSUME IInv, NEW p \in Procs, setupkvm(p)
  PROVE  IInv'
<1>. DEFINE f == kalloc
            d == k[p].pd
            e == IF d.dir = None THEN [d EXCEPT !.dir = f] ELSE [d EXCEPT !.kern = @ \cup {f}]
            at == IF Cardinality(e.kern) < KTABLES THEN k[p].at
                  ELSE IF k[p].then = "fork" THEN "copyuvm" ELSE "exec"
            l == [k[p] EXCEPT !.pd = e, !.at = at]
<1>1. /\ k[p].at = "setupkvm" /\ f # None /\ free' = free \ {f} /\ UNCHANGED <<state, kstack, sz, pgdir>>
      /\ k' = [k EXCEPT ![p] = l]
  BY Zenon DEF setupkvm, Go
<1>2. state[p] = "USED" /\ k[p] \in Locals /\ LocalOk(k[p])
  BY <1>1, InCall, Zenon
<1>3. d \in Dirs /\ Tidy(d) /\ free \cap PagesIn(d) = {}
  BY LocalTidy, Zenon
<1>4. /\ Apart(free, Held) /\ free' \subseteq Nat \ {None} /\ f \in free /\ f \in Nat \ {None}
      /\ f \notin PagesIn(d)
  BY <1>1, <1>3, kallocTakes, Zenon DEF IInv, Core, TypeInv
<1>5. e \in Dirs /\ Tidy(e) /\ e.dir # None /\ PagesIn(e) \subseteq PagesIn(d) \cup {f}
  BY <1>3, <1>4, KvmPut, Zenon
<1>. HIDE DEF e
<1>6. at \in {"setupkvm", "copyuvm", "exec"} /\ (at = "copyuvm" => k[p].then = "fork")
  BY <1>1, Zenon
<1>. HIDE DEF at
<1>7. l \in Locals
  BY <1>2, <1>5, <1>6, Zenon DEF Locals
<1>8. l.pd = e /\ l.at = at /\ l.mem = k[p].mem /\ l.then = k[p].then /\ l.own = k[p].own /\ l.child = k[p].child
  BY <1>2, Zenon DEF Locals
<1>. HIDE DEF l
<1>9. LocalOk(l)
  BY <1>1, <1>2, <1>5, <1>6, <1>8, Zenon DEF LocalOk
<1>. HIDE DEF f
<1>10. /\ Core'
       /\ \A q \in Procs, r \in Roles : q # p => Held'[q][r] = Held[q][r]
       /\ \A r \in Roles \ {"local", "mem"} : Held'[p][r] = Held[p][r]
       /\ Held[p]["local"] = PagesIn(k[p].pd) /\ Held'[p]["local"] = PagesIn(l.pd)
       /\ Held[p]["mem"] = {k[p].mem} \ {None} /\ Held'[p]["mem"] = {l.mem} \ {None}
  BY <1>1, <1>2, <1>4, <1>5, <1>7, <1>8, <1>9, LocalPdKeeps, Zenon
<1>11. /\ "local" \in Roles /\ Held'[p]["local"] \subseteq Held[p]["local"] \cup {f}
       /\ \A q \in Procs, s \in Roles : p # q \/ "local" # s => Held'[q][s] \subseteq Held[q][s]
  BY <1>5, <1>8, <1>10, Zenon DEF Roles
<1>12. Apart(free', Held')
  BY <1>1, <1>4, <1>11 DEF Apart
<1>. QED
  BY <1>10, <1>12, Zenon DEF IInv

\* One turn of the loop of copyuvm.
LEMMA copyuvmKeeps ==
  ASSUME IInv, NEW p \in Procs, copyuvm(p)
  PROVE  IInv'
<1>. DEFINE f == kalloc
            d == k[p].pd
<1>1. k[p].at = "copyuvm" /\ free' = free \ {f} /\ UNCHANGED <<state, kstack, sz, pgdir>>
  BY Zenon DEF copyuvm
<1>2. /\ state[p] = "USED" /\ k[p] \in Locals /\ LocalOk(k[p]) /\ sz \in [Procs -> 0 .. KERNBASE]
      /\ d \in Dirs /\ Tidy(d) /\ free \cap PagesIn(d) = {}
  BY <1>1, InCall, LocalTidy, Zenon
<1>3. ~k[p].own /\ k[p].then = "fork"
  BY <1>1, <1>2, Zenon DEF LocalOk
<1>4. /\ Apart(free, Held) /\ free' \subseteq Nat \ {None} /\ free \subseteq Nat \ {None}
      /\ (IF free = {} THEN f = None ELSE f \in free /\ f \in Nat \ {None})
  BY <1>1, kallocTakes, Zenon DEF IInv, Core, TypeInv
<1>5. CASE f = None
  <2>1. Go(p, Freevm(k[p]))
    BY <1>5, Zenon DEF copyuvm
  <2>2. free' = free
    BY <1>1, <1>4, <1>5, Zenon
  <2>3. k[p].at \notin {"user", "setupkvm", "bad"}
    BY <1>1, Zenon
  <2>. QED
    BY <1>1, <1>2, <1>3, <2>1, <2>2, <2>3, FreevmKeeps, Zenon
<1>6. CASE f # None /\ d.tab[PDX(k[p].a)] = None
  <2>. DEFINE l == [k[p] EXCEPT !.at = "mappages", !.mem = f]
  <2>1. k' = [k EXCEPT ![p] = l] /\ f \in free /\ f \in Nat
    BY <1>4, <1>6, Zenon DEF copyuvm, Go
  <2>2. l \in Locals
    BY <1>2, <2>1, Zenon DEF Locals
  <2>3. l.pd = d /\ l.mem = f /\ l.at = "mappages" /\ l.then = k[p].then /\ l.own = k[p].own /\ l.child = k[p].child
    BY <1>2, Zenon DEF Locals
  <2>. HIDE DEF l
  <2>4. LocalOk(l)
    BY <1>1, <1>2, <2>3, Zenon DEF LocalOk
  <2>. HIDE DEF f
  <2>5. /\ Core'
        /\ \A q \in Procs, r \in Roles : q # p => Held'[q][r] = Held[q][r]
        /\ \A r \in Roles \ {"local", "mem"} : Held'[p][r] = Held[p][r]
        /\ Held[p]["local"] = PagesIn(k[p].pd) /\ Held'[p]["local"] = PagesIn(l.pd)
        /\ Held'[p]["mem"] = {l.mem} \ {None}
    BY <1>1, <1>2, <1>4, <2>1, <2>2, <2>3, <2>4, LocalPdKeeps, Zenon
  <2>6. /\ "mem" \in Roles /\ Held'[p]["mem"] \subseteq Held[p]["mem"] \cup {f}
        /\ \A q \in Procs, s \in Roles : p # q \/ "mem" # s => Held'[q][s] \subseteq Held[q][s]
    BY <2>3, <2>5 DEF Roles
  <2>7. Apart(free', Held')
    BY <1>1, <1>4, <2>1, <2>6 DEF Apart
  <2>. QED
    BY <2>5, <2>7, Zenon DEF IInv
<1>7. CASE f # None /\ d.tab[PDX(k[p].a)] # None
  <2>. DEFINE e == [d EXCEPT !.pte[PN(k[p].a)] = f]
              l == [k[p] EXCEPT !.a = @ + PGSIZE, !.pd = e]
  <2>1. k' = [k EXCEPT ![p] = l] /\ f \in free /\ f \in Nat /\ f \notin PagesIn(d)
    BY <1>2, <1>4, <1>7, Zenon DEF copyuvm, Go
  <2>2. k[p].a + PGSIZE \in Nat
    BY <1>2, MemoryAssumption DEF MemoryConstants, Locals
  <2>3. e \in Dirs /\ Tidy(e) /\ e.dir = d.dir /\ PagesIn(e) \subseteq PagesIn(d) \cup ({f} \ {None})
    BY <1>2, <2>1, PtePut, Zenon
  <2>. HIDE DEF e
  <2>4. l \in Locals
    BY <1>2, <2>2, <2>3, Zenon DEF Locals
  <2>5. /\ l.pd = e /\ l.mem = k[p].mem /\ l.at = "copyuvm" /\ l.then = k[p].then /\ l.own = k[p].own
        /\ l.child = k[p].child
    BY <1>1, <1>2, Zenon DEF Locals
  <2>. HIDE DEF l
  <2>6. LocalOk(l)
    BY <1>1, <1>2, <2>3, <2>5, Zenon DEF LocalOk
  <2>. HIDE DEF f
  <2>7. /\ Core'
        /\ \A q \in Procs, r \in Roles : q # p => Held'[q][r] = Held[q][r]
        /\ \A r \in Roles \ {"local", "mem"} : Held'[p][r] = Held[p][r]
        /\ Held[p]["local"] = PagesIn(k[p].pd) /\ Held'[p]["local"] = PagesIn(l.pd)
        /\ Held[p]["mem"] = {k[p].mem} \ {None} /\ Held'[p]["mem"] = {l.mem} \ {None}
    BY <1>1, <1>2, <1>4, <2>3, <2>4, <2>5, <2>6, <2>1, LocalPdKeeps, Zenon
  <2>8. /\ "local" \in Roles /\ Held'[p]["local"] \subseteq Held[p]["local"] \cup {f}
        /\ \A q \in Procs, s \in Roles : p # q \/ "local" # s => Held'[q][s] \subseteq Held[q][s]
    BY <2>3, <2>5, <2>7, Zenon DEF Roles
  <2>9. Apart(free', Held')
    BY <1>1, <1>4, <2>1, <2>8 DEF Apart
  <2>. QED
    BY <2>7, <2>9, Zenon DEF IInv
<1>. QED
  BY <1>5, <1>6, <1>7, Zenon

\* exec commits to the new image: the two page directories change places.
LEMMA exec_commitKeeps ==
  ASSUME IInv, NEW p \in Procs, exec_commit(p)
  PROVE  IInv'
<1>. DEFINE b == Freevm(k[p])
            l == [b EXCEPT !.pd = pgdir[p]]
            d == k[p].pd
<1>1. /\ k[p].at = "allocuvm" /\ k[p].then = "stack" /\ UNCHANGED <<free, state, kstack>>
      /\ pgdir' = [pgdir EXCEPT ![p] = d] /\ sz' = [sz EXCEPT ![p] = k[p].new] /\ k' = [k EXCEPT ![p] = l]
  BY Zenon DEF exec_commit, Go
<1>2. state[p] = "USED" /\ k[p] \in Locals /\ LocalOk(k[p]) /\ sz \in [Procs -> 0 .. KERNBASE]
  BY <1>1, InCall, Zenon
<1>3. d \in Dirs /\ Tidy(d) /\ d.dir # None /\ k[p].then \notin {"grow", "shrink"}
  BY <1>1, <1>2, LocalTidy, Zenon DEF LocalOk
<1>4. sz' \in [Procs -> 0 .. KERNBASE]
  BY <1>1, <1>2, Zenon DEF Locals
<1>5. /\ Core /\ free' \subseteq Nat \ {None} /\ Apart(free, Held) /\ Tidy(pgdir[p]) /\ pgdir[p].dir # None
      /\ pgdir \in [Procs -> Dirs]
  BY <1>1, <1>2, Zenon DEF IInv, Core, TypeInv, UsedInv, TidyInv
<1>6. pgdir[p] \in Dirs
  BY <1>5, Zenon
<1>7. b \in Locals /\ b.mem = None /\ b.at = "deallocuvm" /\ b.own = FALSE /\ b.then = "exec"
  <2>1. b \in Locals
    BY <1>2, <1>3, FreevmLocal, Zenon
  <2>2. b.mem = None /\ b.at = "deallocuvm" /\ b.own = FALSE /\ b.then = "exec"
    BY <1>1, <1>2, Zenon DEF Freevm, Locals
  <2>. QED
    BY <2>1, <2>2, Zenon
<1>. HIDE DEF b
<1>8. l \in Locals
  BY <1>6, <1>7, Zenon DEF Locals
<1>9. l.pd = pgdir[p] /\ l.mem = None /\ l.at = "deallocuvm" /\ l.own = FALSE /\ l.then = "exec"
  BY <1>7, Zenon DEF Locals
<1>. HIDE DEF l, d
<1>10. LocalOk(l)
  BY <1>5, <1>9, Zenon DEF LocalOk
<1>11. OwnStep(p, l, d)
  <2>1. l.then \notin {"fork", "wait"} /\ Tidy(l.pd)
    BY <1>5, <1>9, Zenon
  <2>. QED
    BY <1>1, <1>3, <1>8, <1>10, <2>1, Zenon DEF OwnStep
<1>12. Core'
  BY <1>2, <1>4, <1>5, <1>11, OwnStepKeeps, Zenon
<1>13. /\ \A q \in Procs, r \in Roles : q # p => Held'[q][r] = Held[q][r]
       /\ Held'[p]["dir"] = PagesIn(d) /\ Held'[p]["local"] = PagesIn(l.pd)
       /\ Held'[p]["stack"] = Held[p]["stack"] /\ Held'[p]["mem"] = {l.mem} \ {None}
  BY <1>5, <1>11, OwnStepHeld, Zenon
<1>14. Held[p]["dir"] = PagesIn(pgdir[p]) /\ Held[p]["local"] = PagesIn(d)
  BY HeldBy, Zenon DEF d
<1>15. /\ Held'[p]["dir"] = Held[p]["local"] /\ Held'[p]["local"] = Held[p]["dir"]
       /\ "dir" \in Roles /\ "local" \in Roles
       /\ \A q \in Procs, s \in Roles : p # q \/ s \notin {"dir", "local"} => Held'[q][s] \subseteq Held[q][s]
  BY <1>9, <1>13, <1>14, Zenon DEF Roles
<1>16. Apart(free', Held')
  BY <1>1, <1>5, <1>15 DEF Apart
<1>. QED
  BY <1>12, <1>16, Zenon DEF IInv

-----------------------------------------------------------------------------
(* fork, exit and wait *)

\* A step of p's call that changes another process: its state, stack and directory.
CalleeStep(p, l, c, st, ks, d) ==
  /\ k' = [k EXCEPT ![p] = l] /\ state' = [state EXCEPT ![c] = st]
  /\ kstack' = [kstack EXCEPT ![c] = ks] /\ pgdir' = [pgdir EXCEPT ![c] = d]
  /\ l \in Locals /\ LocalOk(l) /\ Tidy(l.pd) /\ d \in Dirs /\ Tidy(d)
  /\ st \in {"UNUSED", "EMBRYO", "USED", "ZOMBIE"} /\ ks \in Nat
  /\ state[p] = "USED" /\ state[c] # "USED"
  /\ st = "USED" => ks # None /\ d.dir # None
  /\ st = "ZOMBIE" /\ ks # None => d.dir # None
  /\ l.then = "fork" => l.child = c /\ st = "EMBRYO" /\ ks # None
  /\ l.then = "wait" => l.child = c /\ st = "ZOMBIE" /\ ks = None
  /\ \A q \in Procs : q # p /\ k[q].then \in {"fork", "wait"} => k[q].child # c

\* Such a step keeps the invariant, but for the pages it takes or gives.
LEMMA CalleeStepKeeps ==
  ASSUME Core, NEW p \in Procs, NEW c \in Procs, NEW l, NEW st, NEW ks, NEW d, CalleeStep(p, l, c, st, ks, d),
         free' \subseteq Nat \ {None}, sz' \in [Procs -> 0 .. KERNBASE]
  PROVE  Core'
<1>1. TypeInv'
  <2>1. k' \in [Procs -> Locals] /\ pgdir' \in [Procs -> Dirs]
    BY Zenon DEF Core, TypeInv, CalleeStep
  <2>2. state' \in [Procs -> {"UNUSED", "EMBRYO", "USED", "ZOMBIE"}] /\ kstack' \in [Procs -> Nat]
    BY Zenon DEF Core, TypeInv, CalleeStep
  <2>. QED
    BY <2>1, <2>2, Zenon DEF TypeInv
<1>2. /\ k'[p] = l /\ pgdir'[c] = d /\ state'[c] = st /\ kstack'[c] = ks /\ p # c
      /\ \A q \in Procs : q # p => k'[q] = k[q]
      /\ \A q \in Procs : q # c => pgdir'[q] = pgdir[q] /\ state'[q] = state[q] /\ kstack'[q] = kstack[q]
  BY Zenon DEF Core, TypeInv, CalleeStep
<1>3. UsedInv'
  <2>1. k[c].at = "user"
    BY Zenon DEF Core, UsedInv, CalleeStep
  <2>. QED
    BY <1>2, <2>1 DEF Core, UsedInv, CalleeStep
<1>4. ChildInv'
  BY <1>2 DEF Core, ChildInv, CalleeStep
<1>5. TidyInv'
  BY <1>2, Zenon DEF Core, TidyInv, CalleeStep
<1>. QED
  BY <1>1, <1>3, <1>4, <1>5, Zenon DEF Core

\* The holders after such a step.
LEMMA CalleeStepHeld ==
  ASSUME Core, NEW p \in Procs, NEW c \in Procs, NEW l, NEW st, NEW ks, NEW d, CalleeStep(p, l, c, st, ks, d)
  PROVE  /\ p # c
         /\ \A q \in Procs, r \in Roles : q # p /\ q # c => Held'[q][r] = Held[q][r]
         /\ Held'[p]["dir"] = Held[p]["dir"] /\ Held'[p]["stack"] = Held[p]["stack"]
         /\ Held'[c]["local"] = Held[c]["local"] /\ Held'[c]["mem"] = Held[c]["mem"]
         /\ Held'[p]["local"] = PagesIn(l.pd) /\ Held'[p]["mem"] = {l.mem} \ {None}
         /\ Held'[c]["dir"] = PagesIn(d) /\ Held'[c]["stack"] = {ks} \ {None}
<1>1. /\ k'[p] = l /\ pgdir'[c] = d /\ state'[c] = st /\ kstack'[c] = ks /\ p # c
      /\ \A q \in Procs : q # p => k'[q] = k[q]
      /\ \A q \in Procs : q # c => pgdir'[q] = pgdir[q] /\ state'[q] = state[q] /\ kstack'[q] = kstack[q]
  BY Zenon DEF Core, TypeInv, CalleeStep
<1>2. \A q \in Procs, r \in Roles : q # p /\ q # c => Held'[q][r] = Held[q][r]
  BY <1>1, HeldSame, Zenon
<1>3. /\ Held'[p]["dir"] = Held[p]["dir"] /\ Held'[p]["stack"] = Held[p]["stack"]
      /\ Held'[p]["local"] = PagesIn(l.pd) /\ Held'[p]["mem"] = {l.mem} \ {None}
  <2>1. /\ Held[p]["dir"] = PagesIn(pgdir[p]) /\ Held[p]["stack"] = {kstack[p]} \ {None}
        /\ Held'[p]["dir"] = PagesIn(pgdir'[p]) /\ Held'[p]["local"] = PagesIn(k'[p].pd)
        /\ Held'[p]["stack"] = {kstack'[p]} \ {None} /\ Held'[p]["mem"] = {k'[p].mem} \ {None}
    BY HeldBy, Zenon
  <2>. QED
    BY <1>1, <2>1, Zenon
<1>4. /\ Held'[c]["local"] = Held[c]["local"] /\ Held'[c]["mem"] = Held[c]["mem"]
      /\ Held'[c]["dir"] = PagesIn(d) /\ Held'[c]["stack"] = {ks} \ {None}
  <2>1. /\ Held[c]["local"] = PagesIn(k[c].pd) /\ Held[c]["mem"] = {k[c].mem} \ {None}
        /\ Held'[c]["dir"] = PagesIn(pgdir'[c]) /\ Held'[c]["local"] = PagesIn(k'[c].pd)
        /\ Held'[c]["stack"] = {kstack'[c]} \ {None} /\ Held'[c]["mem"] = {k'[c].mem} \ {None}
    BY HeldBy, Zenon
  <2>. QED
    BY <1>1, <2>1, Zenon
<1>. QED
  BY <1>1, <1>2, <1>3, <1>4, Zenon

\* The slot that allocproc takes, the zombie that wait finds, and the child of a call,
\* are not the child of the call of another process.
LEMMA NobodyElses ==
  ASSUME Core, NEW p \in Procs, NEW c \in Procs,
         \/ state[c] = "UNUSED" \/ (state[c] = "ZOMBIE" /\ kstack[c] # None)
         \/ (k[p].then \in {"fork", "wait"} /\ c = k[p].child)
  PROVE  \A q \in Procs : q # p /\ k[q].then \in {"fork", "wait"} => k[q].child # c
BY Zenon DEF Core, ChildInv

\* allocproc, the beginning of fork.
LEMMA forkKeeps ==
  ASSUME IInv, NEW p \in Procs, NEW c \in Procs, fork(p, c)
  PROVE  IInv'
<1>. DEFINE f == kalloc
            l == [InUser EXCEPT !.at = "setupkvm", !.then = "fork", !.child = c]
            d == pgdir[c]
<1>1. state[p] = "USED" /\ k[p] = InUser /\ state[c] = "UNUSED" /\ f # None
  BY RunsUser, Zenon DEF fork
<1>2. /\ free' = free \ {f} /\ k' = [k EXCEPT ![p] = l] /\ state' = [state EXCEPT ![c] = "EMBRYO"]
      /\ kstack' = [kstack EXCEPT ![c] = f] /\ UNCHANGED <<sz, pgdir>>
  BY Zenon DEF fork, Go
<1>3. /\ Core /\ Apart(free, Held) /\ sz' \in [Procs -> 0 .. KERNBASE] /\ pgdir \in [Procs -> Dirs] /\ Tidy(d)
      /\ free' \subseteq Nat \ {None} /\ f \in free /\ f \in Nat
  BY <1>1, <1>2, kallocTakes, Zenon DEF IInv, Core, TypeInv, TidyInv
<1>. HIDE DEF f
<1>4. pgdir' = [pgdir EXCEPT ![c] = d] /\ d \in Dirs
  BY <1>2, <1>3, Zenon
<1>5. l \in Locals
  BY InUserLocal, Zenon DEF Locals
<1>6. l.pd = NoDir /\ l.mem = None /\ l.at = "setupkvm" /\ l.then = "fork" /\ l.own = FALSE /\ l.child = c
  BY Zenon DEF InUser
<1>. HIDE DEF l, d
<1>7. LocalOk(l) /\ Tidy(l.pd) /\ PagesIn(l.pd) = {}
  BY <1>6, NoDirType, Zenon DEF LocalOk
<1>8. CalleeStep(p, l, c, "EMBRYO", f, d)
  <2>1. \A q \in Procs : q # p /\ k[q].then \in {"fork", "wait"} => k[q].child # c
    BY <1>1, <1>3, NobodyElses, Zenon
  <2>2. "EMBRYO" # "USED" /\ "EMBRYO" # "ZOMBIE" /\ "UNUSED" # "USED" /\ l.then # "wait"
    BY <1>6, Zenon
  <2>. QED
    BY <1>1, <1>2, <1>3, <1>4, <1>5, <1>6, <1>7, <2>1, <2>2, Zenon DEF CalleeStep
<1>9. Core'
  BY <1>3, <1>8, CalleeStepKeeps, Zenon
<1>10. /\ p # c
       /\ \A q \in Procs, r \in Roles : q # p /\ q # c => Held'[q][r] = Held[q][r]
       /\ Held'[p]["dir"] = Held[p]["dir"] /\ Held'[p]["stack"] = Held[p]["stack"]
       /\ Held'[c]["local"] = Held[c]["local"] /\ Held'[c]["mem"] = Held[c]["mem"]
       /\ Held'[p]["local"] = PagesIn(l.pd) /\ Held'[p]["mem"] = {l.mem} \ {None}
       /\ Held'[c]["dir"] = PagesIn(d) /\ Held'[c]["stack"] = {f} \ {None}
  BY <1>3, <1>8, CalleeStepHeld
<1>11. Held[c]["dir"] = PagesIn(d)
  BY HeldBy, Zenon DEF d
<1>12. /\ "stack" \in Roles /\ Held'[c]["stack"] \subseteq {f}
       /\ \A q \in Procs, s \in Roles : c # q \/ "stack" # s => Held'[q][s] \subseteq Held[q][s]
  BY <1>6, <1>7, <1>10, <1>11 DEF Roles
<1>13. Apart(free', Held')
  BY <1>2, <1>3, <1>12 DEF Apart
<1>. QED
  BY <1>9, <1>13, Zenon DEF IInv

\* fork is done: the child gets the page directory.
LEMMA fork_doneKeeps ==
  ASSUME IInv, NEW p \in Procs, fork_done(p)
  PROVE  IInv'
<1>. DEFINE c == k[p].child
            d == k[p].pd
            ks == kstack[c]
<1>1. /\ k[p].at = "copyuvm" /\ free' = free /\ k' = [k EXCEPT ![p] = InUser]
      /\ state' = [state EXCEPT ![c] = "USED"] /\ pgdir' = [pgdir EXCEPT ![c] = d] /\ kstack' = kstack
      /\ sz' = [sz EXCEPT ![c] = sz[p]]
  BY Zenon DEF fork_done, Return, Go
<1>2. /\ state[p] = "USED" /\ k[p] \in Locals /\ LocalOk(k[p]) /\ sz \in [Procs -> 0 .. KERNBASE]
      /\ d \in Dirs /\ Tidy(d)
  BY <1>1, InCall, LocalTidy, Zenon
<1>3. c \in Procs /\ k[p].then = "fork" /\ d.dir # None
  BY <1>1, <1>2, Zenon DEF LocalOk, Locals
<1>4. /\ Core /\ Apart(free, Held) /\ kstack \in [Procs -> Nat] /\ state[c] = "EMBRYO" /\ ks # None
      /\ free' \subseteq Nat \ {None}
  BY <1>1, <1>3, Zenon DEF IInv, Core, TypeInv, ChildInv
<1>5. kstack' = [kstack EXCEPT ![c] = ks] /\ ks \in Nat /\ sz' \in [Procs -> 0 .. KERNBASE]
  BY <1>1, <1>2, <1>3, <1>4, Zenon
<1>6. \A q \in Procs : q # p /\ k[q].then \in {"fork", "wait"} => k[q].child # c
  BY <1>3, <1>4, NobodyElses, Zenon
<1>. HIDE DEF d, ks
<1>7. CalleeStep(p, InUser, c, "USED", ks, d)
  <2>1. state[c] # "USED" /\ InUser.then \notin {"fork", "wait"} /\ Tidy(InUser.pd) /\ "USED" # "ZOMBIE"
    BY <1>4, InUserLocal, NoDirType, Zenon
  <2>. HIDE DEF c, InUser
  <2>. QED
    BY <1>1, <1>2, <1>3, <1>4, <1>5, <1>6, <2>1, InUserLocal, Zenon DEF CalleeStep
<1>. HIDE DEF InUser
<1>8. Core'
  BY <1>3, <1>4, <1>5, <1>7, CalleeStepKeeps, Zenon
<1>9. /\ p # c
      /\ \A q \in Procs, r \in Roles : q # p /\ q # c => Held'[q][r] = Held[q][r]
      /\ Held'[p]["dir"] = Held[p]["dir"] /\ Held'[p]["stack"] = Held[p]["stack"]
      /\ Held'[c]["local"] = Held[c]["local"] /\ Held'[c]["mem"] = Held[c]["mem"]
      /\ Held'[p]["local"] = PagesIn(InUser.pd) /\ Held'[p]["mem"] = {InUser.mem} \ {None}
      /\ Held'[c]["dir"] = PagesIn(d) /\ Held'[c]["stack"] = {ks} \ {None}
  BY <1>3, <1>4, <1>7, CalleeStepHeld
<1>10. Held[c]["stack"] = {ks} \ {None} /\ Held[p]["local"] = PagesIn(d)
  BY <1>3, HeldBy, Zenon DEF d, ks
<1>. HIDE DEF c
<1>11. /\ "dir" \in Roles /\ "local" \in Roles /\ p # c
       /\ Held'[c]["dir"] \subseteq Held[p]["local"] /\ Held'[p]["local"] = {}
       /\ \A q \in Procs, s \in Roles : (c # q \/ "dir" # s) => Held'[q][s] \subseteq Held[q][s]
  BY <1>9, <1>10, InUserLocal, NoDirType DEF Roles
<1>12. Apart(free', Held')
  BY <1>1, <1>3, <1>4, <1>11 DEF Apart
<1>. QED
  BY <1>8, <1>12, Zenon DEF IInv

\* fork frees the stack and the slot of a child it could not make.
LEMMA fork_badKeeps ==
  ASSUME IInv, NEW p \in Procs, fork_bad(p)
  PROVE  IInv'
<1>. DEFINE c == k[p].child
            d == pgdir[c]
            ks == kstack[c]
<1>1. /\ k[p].at = "bad" /\ free' = free \cup {ks} /\ k' = [k EXCEPT ![p] = InUser]
      /\ state' = [state EXCEPT ![c] = "UNUSED"] /\ kstack' = [kstack EXCEPT ![c] = None]
      /\ UNCHANGED <<sz, pgdir>>
  BY Zenon DEF fork_bad, Return, Go
<1>2. state[p] = "USED" /\ k[p] \in Locals /\ LocalOk(k[p]) /\ sz' \in [Procs -> 0 .. KERNBASE]
  BY <1>1, InCall, Zenon
<1>3. c \in Procs /\ k[p].then = "fork"
  BY <1>1, <1>2, Zenon DEF LocalOk, Locals
<1>4. /\ Core /\ Apart(free, Held) /\ kstack \in [Procs -> Nat] /\ state[c] = "EMBRYO" /\ ks # None
      /\ pgdir \in [Procs -> Dirs] /\ Tidy(d) /\ free \subseteq Nat \ {None}
  BY <1>3, Zenon DEF IInv, Core, TypeInv, ChildInv, TidyInv
<1>5. /\ pgdir' = [pgdir EXCEPT ![c] = d] /\ d \in Dirs /\ ks \in Nat /\ None \in Nat
      /\ free' \subseteq Nat \ {None}
  BY <1>1, <1>3, <1>4, Zenon DEF None
<1>6. \A q \in Procs : q # p /\ k[q].then \in {"fork", "wait"} => k[q].child # c
  BY <1>3, <1>4, NobodyElses, Zenon
<1>. HIDE DEF d, ks
<1>7. CalleeStep(p, InUser, c, "UNUSED", None, d)
  <2>1. /\ state[c] # "USED" /\ InUser.then \notin {"fork", "wait"} /\ Tidy(InUser.pd)
        /\ "UNUSED" # "USED" /\ "UNUSED" # "ZOMBIE"
    BY <1>4, InUserLocal, NoDirType, Zenon
  <2>. HIDE DEF c, InUser
  <2>. QED
    BY <1>1, <1>2, <1>4, <1>5, <1>6, <2>1, InUserLocal, Zenon DEF CalleeStep
<1>. HIDE DEF InUser
<1>8. Core'
  BY <1>2, <1>3, <1>4, <1>5, <1>7, CalleeStepKeeps, Zenon
<1>9. /\ \A q \in Procs, r \in Roles : q # p /\ q # c => Held'[q][r] = Held[q][r]
      /\ Held'[p]["dir"] = Held[p]["dir"] /\ Held'[p]["stack"] = Held[p]["stack"]
      /\ Held'[c]["local"] = Held[c]["local"] /\ Held'[c]["mem"] = Held[c]["mem"]
      /\ Held'[p]["local"] = PagesIn(InUser.pd) /\ Held'[p]["mem"] = {InUser.mem} \ {None}
      /\ Held'[c]["dir"] = PagesIn(d) /\ Held'[c]["stack"] = {None} \ {None}
  BY <1>3, <1>4, <1>7, CalleeStepHeld
<1>10. Held[c]["stack"] = {ks} \ {None} /\ Held[c]["dir"] = PagesIn(d)
  BY <1>3, HeldBy, Zenon DEF d, ks
<1>. HIDE DEF c
<1>11. /\ "stack" \in Roles /\ ks \in Held[c]["stack"] /\ Held'[c]["stack"] = {}
       /\ \A q \in Procs, s \in Roles : Held'[q][s] \subseteq Held[q][s]
  BY <1>4, <1>9, <1>10, InUserLocal, NoDirType DEF Roles
<1>12. Apart(free', Held')
  BY <1>1, <1>3, <1>4, <1>11 DEF Apart
<1>. QED
  BY <1>8, <1>12, Zenon DEF IInv

\* wait frees the stack of a zombie and takes its page directory.
LEMMA waitKeeps ==
  ASSUME IInv, NEW p \in Procs, NEW c \in Procs, wait(p, c)
  PROVE  IInv'
<1>. DEFINE b == [InUser EXCEPT !.then = "wait", !.child = c, !.pd = pgdir[c]]
            l == Freevm(b)
            ks == kstack[c]
<1>1. state[p] = "USED" /\ k[p] = InUser /\ state[c] = "ZOMBIE" /\ ks # None
  BY RunsUser, Zenon DEF wait
<1>2. /\ free' = free \cup {ks} /\ kstack' = [kstack EXCEPT ![c] = None] /\ k' = [k EXCEPT ![p] = l]
      /\ pgdir' = [pgdir EXCEPT ![c] = NoDir] /\ state' = state /\ sz' = sz
  BY Zenon DEF wait, Go
<1>3. /\ Core /\ Apart(free, Held) /\ sz' \in [Procs -> 0 .. KERNBASE] /\ pgdir \in [Procs -> Dirs]
      /\ kstack \in [Procs -> Nat] /\ Tidy(pgdir[c]) /\ pgdir[c].dir # None /\ free \subseteq Nat \ {None}
      /\ state \in [Procs -> {"UNUSED", "EMBRYO", "USED", "ZOMBIE"}]
  BY <1>1, <1>2, Zenon DEF IInv, Core, TypeInv, TidyInv, UsedInv
<1>4. /\ state' = [state EXCEPT ![c] = "ZOMBIE"] /\ pgdir[c] \in Dirs /\ ks \in Nat /\ None \in Nat
      /\ free' \subseteq Nat \ {None}
  BY <1>1, <1>2, <1>3, Zenon DEF None
<1>5. b \in Locals
  BY <1>4, InUserLocal, Zenon DEF Locals
<1>6. b.pd = pgdir[c] /\ b.then = "wait" /\ b.child = c
  BY Zenon DEF InUser
<1>. HIDE DEF b, ks
<1>7. l \in Locals /\ LocalOk(l) /\ l.pd = pgdir[c] /\ l.mem = None /\ l.child = c
  <2>1. b.then \notin {"grow", "shrink"} /\ b.pd.dir # None
    BY <1>3, <1>6, Zenon
  <2>. QED
    BY <1>5, <1>6, <2>1, FreevmLocal, Zenon
<1>8. l.then = "wait"
  BY <1>5, <1>6, Zenon DEF Freevm, Locals
<1>. HIDE DEF l
<1>9. CalleeStep(p, l, c, "ZOMBIE", None, NoDir)
  <2>1. \A q \in Procs : q # p /\ k[q].then \in {"fork", "wait"} => k[q].child # c
    BY <1>1, <1>3, NobodyElses, Zenon DEF ks
  <2>2. "ZOMBIE" # "USED" /\ l.then # "fork" /\ Tidy(l.pd)
    BY <1>3, <1>7, <1>8, Zenon
  <2>. QED
    BY <1>1, <1>2, <1>3, <1>4, <1>7, <1>8, <2>1, <2>2, NoDirType, Zenon DEF CalleeStep
<1>10. Core'
  BY <1>3, <1>4, <1>9, CalleeStepKeeps, Zenon
<1>11. /\ p # c
       /\ \A q \in Procs, r \in Roles : q # p /\ q # c => Held'[q][r] = Held[q][r]
       /\ Held'[p]["dir"] = Held[p]["dir"] /\ Held'[p]["stack"] = Held[p]["stack"]
       /\ Held'[c]["local"] = Held[c]["local"] /\ Held'[c]["mem"] = Held[c]["mem"]
       /\ Held'[p]["local"] = PagesIn(l.pd) /\ Held'[p]["mem"] = {l.mem} \ {None}
       /\ Held'[c]["dir"] = PagesIn(NoDir) /\ Held'[c]["stack"] = {None} \ {None}
  BY <1>3, <1>9, CalleeStepHeld
<1>12. Held[c]["stack"] = {ks} \ {None} /\ Held[c]["dir"] = PagesIn(pgdir[c])
  BY HeldBy, Zenon DEF ks
<1>13. /\ "stack" \in Roles /\ "dir" \in Roles /\ "local" \in Roles
       /\ ks \in Held[c]["stack"] /\ Held'[c]["stack"] = {} /\ Held'[c]["dir"] = {}
       /\ Held'[p]["local"] \subseteq Held[c]["dir"]
       /\ \A q \in Procs, s \in Roles : p # q \/ "local" # s => Held'[q][s] \subseteq Held[q][s]
  BY <1>1, <1>7, <1>11, <1>12, NoDirType DEF Roles
<1>14. Apart(free', Held')
  BY <1>2, <1>3, <1>11, <1>13 DEF Apart
<1>. QED
  BY <1>10, <1>14, Zenon DEF IInv

\* exit.
LEMMA exitKeeps ==
  ASSUME IInv, NEW p \in Procs, exit(p)
  PROVE  IInv'
<1>1. /\ state[p] = "USED" /\ k[p].at = "user" /\ state' = [state EXCEPT ![p] = "ZOMBIE"]
      /\ UNCHANGED <<free, kstack, sz, pgdir, k>>
  BY Zenon DEF exit
<1>2. state'[p] = "ZOMBIE" /\ \A q \in Procs : q # p => state'[q] = state[q]
  BY <1>1, Zenon DEF IInv, Core, TypeInv
<1>3. TypeInv'
  BY <1>1, Zenon DEF IInv, Core, TypeInv
<1>4. UsedInv'
  BY <1>1, <1>2, Zenon DEF IInv, Core, UsedInv
<1>5. ChildInv'
  BY <1>1, <1>2 DEF IInv, Core, ChildInv
<1>6. TidyInv'
  BY <1>1, Zenon DEF IInv, Core, TidyInv
<1>7. Held' = Held
  BY <1>1, Zenon DEF Held
<1>. QED
  BY <1>1, <1>3, <1>4, <1>5, <1>6, <1>7, Zenon DEF IInv, Core

\* The pages freevm frees.
LEMMA freevmGives ==
  ASSUME IInv, NEW p \in Procs, freevm(p)
  PROVE  LET X == TablesOf(k[p].pd) \cup {k[p].pd.dir} IN
         /\ state[p] = "USED" /\ k[p] \in Locals /\ LocalOk(k[p]) /\ k[p].at = "freevm"
         /\ free' = free \cup X /\ X \subseteq PagesIn(k[p].pd) /\ free' \subseteq Nat \ {None}
         /\ Apart(free, Held) /\ Core /\ sz' \in [Procs -> 0 .. KERNBASE]
<1>. DEFINE d == k[p].pd
            X == TablesOf(d) \cup {d.dir}
<1>1. k[p].at = "freevm" /\ free' = free \cup X /\ sz' = sz
  BY Zenon DEF freevm
<1>2. /\ state[p] = "USED" /\ k[p] \in Locals /\ LocalOk(k[p]) /\ d \in Dirs /\ Tidy(d)
      /\ sz \in [Procs -> 0 .. KERNBASE]
  BY <1>1, InCall, LocalTidy, Zenon
<1>3. d.dir # None
  BY <1>1, <1>2, Zenon DEF LocalOk
<1>. HIDE DEF d
<1>4. X \subseteq PagesIn(d)
  BY <1>3, <1>2, Zenon DEF TablesOf, PagesIn, Tidy
<1>5. PagesIn(d) \subseteq Nat \ {None}
  BY <1>2, Zenon DEF PagesIn, Dirs
<1>. HIDE DEF X
<1>6. free' \subseteq Nat \ {None} /\ Apart(free, Held) /\ Core
  BY <1>1, <1>4, <1>5, Zenon DEF IInv, Core, TypeInv
<1>. QED
  BY <1>1, <1>2, <1>4, <1>6, Zenon DEF X, d

\* freevm, and what its callers do after it.
LEMMA freevmKeeps ==
  ASSUME IInv, NEW p \in Procs, freevm(p)
  PROVE  IInv'
<1>. DEFINE X == TablesOf(k[p].pd) \cup {k[p].pd.dir}
            c == k[p].child
<1>1. /\ state[p] = "USED" /\ k[p] \in Locals /\ LocalOk(k[p]) /\ k[p].at = "freevm"
      /\ free' = free \cup X /\ X \subseteq PagesIn(k[p].pd) /\ free' \subseteq Nat \ {None}
      /\ Apart(free, Held) /\ Core /\ sz' \in [Procs -> 0 .. KERNBASE]
  BY freevmGives, Zenon
<1>2. UNCHANGED <<kstack, sz, pgdir>>
  BY Zenon DEF freevm
<1>3. Held[p]["local"] = PagesIn(k[p].pd) /\ Held[p]["mem"] = {k[p].mem} \ {None}
  BY HeldBy, Zenon
<1>. HIDE DEF X
<1>4. CASE k[p].then # "wait"
  <2>. DEFINE l == IF k[p].then = "fork" THEN [k[p] EXCEPT !.at = "bad", !.pd = NoDir] ELSE InUser
  <2>1. state' = state /\ k' = [k EXCEPT ![p] = l]
    BY <1>4, Zenon DEF freevm, Return, Go
  <2>2. l \in Locals
    BY <1>1, NoDirType, InUserLocal, Zenon DEF Locals
  <2>3. /\ l.pd = NoDir /\ (l.mem = k[p].mem \/ l.mem = None)
        /\ l.then \in {"fork", "wait"} => l.then = k[p].then /\ l.child = k[p].child
    BY <1>1, <1>4, InUserLocal, Zenon DEF Locals
  <2>4. LocalOk(l)
    <3>1. CASE k[p].then = "fork"
      <4>1. l.at = "bad" /\ l.then = "fork" /\ l.own = k[p].own
        BY <1>1, <3>1, Zenon DEF Locals
      <4>. HIDE DEF l
      <4>. QED
        BY <1>1, <4>1, Zenon DEF LocalOk
    <3>2. CASE k[p].then # "fork"
      BY <3>2, InUserLocal, Zenon
    <3>. QED
      BY <3>1, <3>2, Zenon
  <2>. HIDE DEF l
  <2>5. /\ Core'
        /\ \A q \in Procs, r \in Roles : q # p => Held'[q][r] = Held[q][r]
        /\ \A r \in Roles \ {"local", "mem"} : Held'[p][r] = Held[p][r]
        /\ Held'[p]["local"] = PagesIn(l.pd) /\ Held'[p]["mem"] = {l.mem} \ {None}
    BY <1>1, <1>2, <2>1, <2>2, <2>3, <2>4, NoDirType, LocalPdKeeps, Zenon
  <2>6. /\ "local" \in Roles /\ X \subseteq Held[p]["local"] /\ Held'[p]["local"] = {}
        /\ \A q \in Procs, s \in Roles : Held'[q][s] \subseteq Held[q][s]
    BY <1>1, <1>3, <2>3, <2>5, NoDirType DEF Roles
  <2>7. Apart(free', Held')
    BY <1>1, <2>6 DEF Apart
  <2>. QED
    BY <2>5, <2>7, Zenon DEF IInv
<1>5. CASE k[p].then = "wait"
  <2>. DEFINE d == pgdir[c]
              ks == kstack[c]
  <2>1. /\ k' = [k EXCEPT ![p] = InUser] /\ state' = [state EXCEPT ![c] = "UNUSED"]
    BY <1>5, Zenon DEF freevm, Return, Go
  <2>2. c \in Procs
    BY <1>1, Zenon DEF Locals
  <2>3. /\ state[c] = "ZOMBIE" /\ kstack \in [Procs -> Nat] /\ pgdir \in [Procs -> Dirs] /\ Tidy(d)
    BY <1>1, <1>5, <2>2, Zenon DEF Core, TypeInv, ChildInv, TidyInv
  <2>4. /\ pgdir' = [pgdir EXCEPT ![c] = d] /\ kstack' = [kstack EXCEPT ![c] = ks] /\ d \in Dirs /\ ks \in Nat
    BY <1>2, <2>2, <2>3, Zenon
  <2>5. \A q \in Procs : q # p /\ k[q].then \in {"fork", "wait"} => k[q].child # c
    BY <1>1, <1>5, <2>2, NobodyElses, Zenon
  <2>. HIDE DEF d, ks
  <2>6. CalleeStep(p, InUser, c, "UNUSED", ks, d)
    <3>1. /\ state[c] # "USED" /\ InUser.then \notin {"fork", "wait"} /\ Tidy(InUser.pd)
          /\ "UNUSED" # "USED" /\ "UNUSED" # "ZOMBIE"
      BY <2>3, InUserLocal, NoDirType, Zenon
    <3>. HIDE DEF c, InUser
    <3>. QED
      BY <1>1, <2>1, <2>3, <2>4, <2>5, <3>1, InUserLocal, Zenon DEF CalleeStep
  <2>. HIDE DEF InUser
  <2>7. Core'
    BY <1>1, <2>2, <2>6, CalleeStepKeeps, Zenon
  <2>8. /\ \A q \in Procs, r \in Roles : q # p /\ q # c => Held'[q][r] = Held[q][r]
        /\ Held'[p]["dir"] = Held[p]["dir"] /\ Held'[p]["stack"] = Held[p]["stack"]
        /\ Held'[c]["local"] = Held[c]["local"] /\ Held'[c]["mem"] = Held[c]["mem"]
        /\ Held'[p]["local"] = PagesIn(InUser.pd) /\ Held'[p]["mem"] = {InUser.mem} \ {None}
        /\ Held'[c]["dir"] = PagesIn(d) /\ Held'[c]["stack"] = {ks} \ {None}
    BY <1>1, <2>2, <2>6, CalleeStepHeld
  <2>9. Held[c]["stack"] = {ks} \ {None} /\ Held[c]["dir"] = PagesIn(d)
    BY <2>2, HeldBy, Zenon DEF d, ks
  <2>. HIDE DEF c
  <2>10. /\ "local" \in Roles /\ X \subseteq Held[p]["local"] /\ Held'[p]["local"] = {}
         /\ \A q \in Procs, s \in Roles : Held'[q][s] \subseteq Held[q][s]
    BY <1>1, <1>3, <2>8, <2>9, InUserLocal, NoDirType DEF Roles
  <2>11. Apart(free', Held')
    BY <1>1, <2>10 DEF Apart
  <2>. QED
    BY <2>7, <2>11, Zenon DEF IInv
<1>. QED
  BY <1>4, <1>5, Zenon

-----------------------------------------------------------------------------
(* The invariant *)

\* A page of initproc's size is user memory.
LEMMA PageFits ==
  PGSIZE \in 0 .. KERNBASE
<1>1. /\ PGSIZE \in Nat \ {0} /\ NPTENTRIES \in Nat \ {0} /\ KERNBASE \in Nat \ {0}
      /\ KERNBASE % (PGSIZE * NPTENTRIES) = 0
  BY MemoryAssumption, Zenon DEF MemoryConstants
<1>2. KERNBASE % PGSIZE = 0
  BY <1>1, FactorDivides, Zenon
<1>. QED
  BY <1>1, <1>2

\* userinit: the page directory of initproc.
LEMMA InitDir ==
  LET d == [NoDir EXCEPT !.dir = 2, !.tab[0] = 3, !.pte[0] = 4, !.kern = 5 .. 4 + KTABLES] IN
  d \in Dirs /\ Tidy(d) /\ d.dir # None /\ PagesIn(d) \subseteq 2 .. 4 + KTABLES
<1>. DEFINE d == [NoDir EXCEPT !.dir = 2, !.tab[0] = 3, !.pte[0] = 4, !.kern = 5 .. 4 + KTABLES]
<1>1. KTABLES \in Nat \ {0}
  BY MemoryAssumption, Zenon DEF MemoryConstants
<1>2. /\ d.dir = 2 /\ d.kern = 5 .. 4 + KTABLES
      /\ \A t \in Tables : d.tab[t] = IF t = 0 THEN 3 ELSE 0
      /\ \A n \in Pages : d.pte[n] = IF n = 0 THEN 4 ELSE 0
  BY Zenon DEF NoDir, None
<1>3. d \in Dirs
  <2>1. 2 \in Nat /\ 3 \in Nat /\ 4 \in Nat /\ 5 .. 4 + KTABLES \in SUBSET Nat
    BY <1>1
  <2>2. NoDir \in Dirs
    BY NoDirType, Zenon
  <2>3. NoDir.tab \in [Tables -> Nat] /\ NoDir.pte \in [Pages -> Nat]
    BY <2>2, Zenon DEF Dirs
  <2>. HIDE DEF NoDir
  <2>4. [NoDir.tab EXCEPT ![0] = 3] \in [Tables -> Nat] /\ [NoDir.pte EXCEPT ![0] = 4] \in [Pages -> Nat]
    BY <2>1, <2>3, Zenon
  <2>. QED
    BY <2>1, <2>2, <2>4, Zenon DEF Dirs
<1>. HIDE DEF d
<1>4. Tidy(d)
  BY <1>1, <1>2 DEF Tidy, None
<1>5. d.dir # None /\ PagesIn(d) \subseteq 2 .. 4 + KTABLES
  BY <1>1, <1>2 DEF PagesIn, None
<1>. QED
  BY <1>3, <1>4, <1>5, Zenon DEF d

\* The invariant holds when the system has booted.
LEMMA InitIInv ==
  ASSUME Init
  PROVE  IInv
<1>. DEFINE d == [NoDir EXCEPT !.dir = 2, !.tab[0] = 3, !.pte[0] = 4, !.kern = 5 .. 4 + KTABLES]
<1>1. d \in Dirs /\ Tidy(d) /\ d.dir # None /\ PagesIn(d) \subseteq 2 .. 4 + KTABLES
  BY InitDir, Zenon
<1>2. KTABLES \in Nat /\ NFRAMES \in Nat /\ initproc \in Procs /\ KERNBASE \in Nat
  BY MemoryAssumption, Zenon DEF MemoryConstants
<1>3. /\ pgdir = [p \in Procs |-> IF p # initproc THEN NoDir ELSE d] /\ k = [p \in Procs |-> InUser]
      /\ kstack = [p \in Procs |-> IF p = initproc THEN 1 ELSE None] /\ free = 5 + KTABLES .. NFRAMES
      /\ state = [p \in Procs |-> IF p = initproc THEN "USED" ELSE "UNUSED"]
      /\ sz = [p \in Procs |-> IF p = initproc THEN PGSIZE ELSE 0]
  BY Zenon DEF Init
<1>. HIDE DEF d
<1>. HIDE DEF InUser, NoDir
<1>4. TypeInv
  <2>1. free \subseteq Nat \ {None}
    BY <1>2, <1>3 DEF None
  <2>2. /\ state \in [Procs -> {"UNUSED", "EMBRYO", "USED", "ZOMBIE"}] /\ kstack \in [Procs -> Nat]
        /\ sz \in [Procs -> 0 .. KERNBASE]
    BY <1>2, <1>3, PageFits DEF None
  <2>3. pgdir \in [Procs -> Dirs] /\ k \in [Procs -> Locals]
    BY <1>1, <1>3, NoDirType, InUserLocal, Zenon
  <2>. QED
    BY <2>1, <2>2, <2>3, Zenon DEF TypeInv
<1>5. UsedInv
  <2>1. /\ \A p \in Procs : k[p] = InUser /\ (p # initproc => state[p] = "UNUSED")
        /\ state[initproc] = "USED" /\ kstack[initproc] = 1 /\ pgdir[initproc] = d
    BY <1>2, <1>3, Zenon
  <2>. QED
    BY <1>1, <2>1, InUserLocal DEF UsedInv, None, InUser
<1>6. ChildInv
  BY <1>3, InUserLocal, Zenon DEF ChildInv
<1>7. TidyInv
  BY <1>1, <1>3, NoDirType, InUserLocal, Zenon DEF TidyInv
<1>8. Apart(free, Held)
  <2>1. ASSUME NEW p \in Procs
        PROVE  Held[p]["local"] = {} /\ Held[p]["mem"] = {}
    <3>1. Held[p]["local"] = PagesIn(k[p].pd) /\ Held[p]["mem"] = {k[p].mem} \ {None}
      BY HeldBy, Zenon
    <3>. QED
      BY <1>3, <3>1, NoDirType, InUserLocal, Zenon
  <2>2. ASSUME NEW p \in Procs
        PROVE  /\ Held[p]["dir"] \subseteq (IF p = initproc THEN 2 .. 4 + KTABLES ELSE {})
               /\ Held[p]["stack"] \subseteq (IF p = initproc THEN {1} ELSE {})
    <3>1. Held[p]["dir"] = PagesIn(pgdir[p]) /\ Held[p]["stack"] = {kstack[p]} \ {None}
      BY HeldBy, Zenon
    <3>. QED
      BY <1>1, <1>3, <3>1, NoDirType, Zenon
  <2>3. (2 .. 4 + KTABLES) \cap free = {} /\ 1 \notin free /\ 1 \notin 2 .. 4 + KTABLES
    BY <1>2, <1>3
  <2>. QED
    BY <2>1, <2>2, <2>3, Zenon DEF Apart, Roles
<1>. QED
  BY <1>4, <1>5, <1>6, <1>7, <1>8, Zenon DEF IInv, Core

\* Every step keeps the invariant.
LEMMA NextKeeps ==
  ASSUME IInv, [Next]_vars
  PROVE  IInv'
<1>1. CASE UNCHANGED vars
  BY <1>1 DEF vars, IInv, Core, TypeInv, UsedInv, ChildInv, TidyInv, Apart, Held
<1>2. ASSUME NEW p \in Procs,
             \/ \E n \in Grow : growproc_more(p, n) \/ growproc_less(p, n)
             \/ allocuvm(p) \/ mappages(p) \/ mappages_fails(p) \/ growproc_done(p)
             \/ deallocuvm(p) \/ deallocuvm_done(p) \/ freevm(p)
      PROVE  IInv'
  BY <1>2, growproc_moreKeeps, growproc_lessKeeps, allocuvmKeeps, mappagesKeeps, mappages_failsKeeps,
     growproc_doneKeeps, deallocuvmKeeps, deallocuvm_doneKeeps, freevmKeeps, Zenon
<1>3. ASSUME NEW p \in Procs,
             \/ \E c \in Procs : fork(p, c) \/ wait(p, c)
             \/ setupkvm(p) \/ setupkvm_fails(p) \/ copyuvm(p) \/ fork_done(p) \/ fork_bad(p) \/ exit(p)
      PROVE  IInv'
  BY <1>3, forkKeeps, waitKeeps, setupkvmKeeps, setupkvm_failsKeeps, copyuvmKeeps, fork_doneKeeps,
     fork_badKeeps, exitKeeps, Zenon
<1>4. ASSUME NEW p \in Procs,
             \/ exec(p) \/ exec_bad(p) \/ \E s \in Segments : exec_segment(p, s)
             \/ exec_loaded(p) \/ exec_stack(p) \/ exec_commit(p)
      PROVE  IInv'
  BY <1>4, execKeeps, exec_badKeeps, exec_segmentKeeps, exec_loadedKeeps, exec_stackKeeps, exec_commitKeeps, Zenon
<1>. QED
  BY <1>1, <1>2, <1>3, <1>4, Zenon DEF Next

\* The invariant of Memory.
LEMMA Invariance ==
  Spec => []IInv
<1>1. Init => IInv
  BY InitIInv, Zenon
<1>2. IInv /\ [Next]_vars => IInv'
  BY NextKeeps, Zenon
<1>. QED
  BY <1>1, <1>2, PTL DEF Spec

-----------------------------------------------------------------------------
(* References *)

\* The references of a process by role.
RefsOf(p, x) ==
  IF x = "dir" THEN RefsIn(<<p, "proc">>, pgdir[p]) ELSE IF x = "local" THEN RefsIn(<<p, "local">>, k[p].pd)
  ELSE IF x = "stack" THEN {<<<<p, "proc">>, "kstack", 0, kstack[p]>>}
  ELSE {<<<<p, "local">>, "mem", 0, k[p].mem>>}

\* The references in a tidy page directory: one for each page.
LEMMA RefsInTidy ==
  ASSUME NEW h, NEW d \in Dirs, Tidy(d), NEW r \in RefsIn(h, d), r[4] # None
  PROVE  r[4] \in PagesIn(d) /\ \A s \in RefsIn(h, d) : r[4] = s[4] => r = s
<1>1. ASSUME NEW s \in RefsIn(h, d)
      PROVE  \/ s = <<h, "dir", 0, d.dir>>
             \/ \E f \in d.kern : s = <<h, "kern", f, f>>
             \/ \E t \in Tables : s = <<h, "tab", t, d.tab[t]>>
             \/ \E n \in Pages : s = <<h, "pte", n, d.pte[n]>>
  BY Zenon DEF RefsIn
<1>2. r[4] \in PagesIn(d)
  BY <1>1 DEF PagesIn
<1>3. ASSUME NEW s \in RefsIn(h, d), r[4] = s[4]
      PROVE  r = s
  <2>1. CASE r = <<h, "dir", 0, d.dir>>
    BY <1>1, <1>3, <2>1 DEF Tidy
  <2>2. ASSUME NEW f \in d.kern, r = <<h, "kern", f, f>> PROVE r = s
    BY <1>1, <1>3, <2>2 DEF Tidy
  <2>3. ASSUME NEW t \in Tables, r = <<h, "tab", t, d.tab[t]>> PROVE r = s
    BY <1>1, <1>3, <2>3 DEF Tidy
  <2>4. ASSUME NEW n \in Pages, r = <<h, "pte", n, d.pte[n]>> PROVE r = s
    BY <1>1, <1>3, <2>4 DEF Tidy
  <2>. QED
    BY <1>1, <2>1, <2>2, <2>3, <2>4, Zenon
<1>. QED
  BY <1>2, <1>3, Zenon

\* The references of a process in a role, one for each page it holds.
LEMMA RefsOfHeld ==
  ASSUME IInv, NEW p \in Procs, NEW x \in Roles, NEW r \in RefsOf(p, x), r[4] # None
  PROVE  r[4] \in Held[p][x] /\ \A s \in RefsOf(p, x) : r[4] = s[4] => r = s
<1>1. /\ pgdir \in [Procs -> Dirs] /\ k \in [Procs -> Locals] /\ Tidy(pgdir[p]) /\ Tidy(k[p].pd)
  BY Zenon DEF IInv, Core, TypeInv, TidyInv
<1>2. pgdir[p] \in Dirs /\ k[p].pd \in Dirs
  BY <1>1, Zenon DEF Locals
<1>3. /\ Held[p]["dir"] = PagesIn(pgdir[p]) /\ Held[p]["local"] = PagesIn(k[p].pd)
      /\ Held[p]["stack"] = {kstack[p]} \ {None} /\ Held[p]["mem"] = {k[p].mem} \ {None}
  BY HeldBy, Zenon
<1>4. CASE x = "dir"
  <2>1. RefsOf(p, x) = RefsIn(<<p, "proc">>, pgdir[p]) /\ Held[p][x] = PagesIn(pgdir[p])
    BY <1>3, <1>4, Zenon DEF RefsOf
  <2>2. r \in RefsIn(<<p, "proc">>, pgdir[p])
    BY <2>1, Zenon
  <2>3. /\ r[4] \in PagesIn(pgdir[p])
        /\ \A s \in RefsIn(<<p, "proc">>, pgdir[p]) : r[4] = s[4] => r = s
    BY <1>1, <1>2, <2>2, RefsInTidy, Zenon
  <2>. QED
    BY <2>1, <2>3, Zenon
<1>5. CASE x = "local"
  <2>1. RefsOf(p, x) = RefsIn(<<p, "local">>, k[p].pd) /\ Held[p][x] = PagesIn(k[p].pd)
    BY <1>3, <1>5, Zenon DEF RefsOf
  <2>2. r \in RefsIn(<<p, "local">>, k[p].pd)
    BY <2>1, Zenon
  <2>3. /\ r[4] \in PagesIn(k[p].pd)
        /\ \A s \in RefsIn(<<p, "local">>, k[p].pd) : r[4] = s[4] => r = s
    BY <1>1, <1>2, <2>2, RefsInTidy, Zenon
  <2>. QED
    BY <2>1, <2>3, Zenon
<1>6. CASE x = "stack"
  <2>1. RefsOf(p, x) = {<<<<p, "proc">>, "kstack", 0, kstack[p]>>}
    BY <1>6, Zenon DEF RefsOf
  <2>. QED
    BY <1>3, <1>6, <2>1
<1>7. CASE x = "mem"
  <2>1. RefsOf(p, x) = {<<<<p, "local">>, "mem", 0, k[p].mem>>}
    BY <1>7, Zenon DEF RefsOf
  <2>. QED
    BY <1>3, <1>7, <2>1
<1>. QED
  BY <1>4, <1>5, <1>6, <1>7, Zenon DEF Roles

\* The invariant implies NoAlias.
LEMMA IInvNoAlias ==
  ASSUME IInv
  PROVE  NoAlias
<1>1. ASSUME NEW r \in Refs
      PROVE  \E p \in Procs, x \in Roles : r \in RefsOf(p, x) /\ r[4] # None
  <2>1. PICK p \in Procs : r \in RefsIn(<<p, "proc">>, pgdir[p]) \cup RefsIn(<<p, "local">>, k[p].pd)
                  \cup {<<<<p, "proc">>, "kstack", 0, kstack[p]>>, <<<<p, "local">>, "mem", 0, k[p].mem>>}
    BY Zenon DEF Refs
  <2>2. r[4] # None
    BY Zenon DEF Refs
  <2>3. \E x \in Roles : r \in RefsOf(p, x)
    BY <2>1, Zenon DEF Roles, RefsOf
  <2>. QED
    BY <2>2, <2>3, Zenon
<1>2. Apart(free, Held)
  BY Zenon DEF IInv
<1>3. ASSUME NEW r \in Refs
      PROVE  r[4] \notin free
  <2>1. PICK p \in Procs, x \in Roles : r \in RefsOf(p, x) /\ r[4] # None
    BY <1>1, <1>3, Zenon
  <2>2. r[4] \in Held[p][x]
    BY <2>1, RefsOfHeld, Zenon
  <2>. QED
    BY <1>2, <2>2, Zenon DEF Apart
<1>4. ASSUME NEW r \in Refs, NEW s \in Refs, r[4] = s[4]
      PROVE  r = s
  <2>1. PICK p \in Procs, x \in Roles : r \in RefsOf(p, x) /\ r[4] # None
    BY <1>1, <1>4, Zenon
  <2>2. PICK q \in Procs, y \in Roles : s \in RefsOf(q, y) /\ s[4] # None
    BY <1>1, <1>4, Zenon
  <2>3. r[4] \in Held[p][x] /\ s[4] \in Held[q][y]
    BY <2>1, <2>2, RefsOfHeld, Zenon
  <2>4. p = q /\ x = y
    BY <1>2, <1>4, <2>3, Zenon DEF Apart
  <2>. QED
    BY <1>4, <2>1, <2>2, <2>4, RefsOfHeld, Zenon
<1>. QED
  BY <1>3, <1>4, Zenon DEF NoAlias

\* A page is in one place: kalloc never hands out a page that a page table, a stack or
\* a call still refers to, and no page is mapped twice, for any number of processes,
\* any amount of memory and any sizes, wherever memory runs out.
THEOREM PagesNotShared ==
  Spec => []NoAlias
<1>1. IInv => NoAlias
  BY IInvNoAlias, Zenon
<1>. QED
  BY Invariance, <1>1, PTL

=============================================================================
