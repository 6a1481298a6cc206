----------------------------- MODULE InodeProofs -----------------------------
(***************************************************************************)
(* Proofs about Inode, for every number of processes, cache entries and    *)
(* inodes.                                                                 *)
(***************************************************************************)
EXTENDS Inode, FiniteSetTheorems, WellFoundedInduction, TLAPS

\* The invariants are long formulas: the provers get more time for them.
USE SMTT(30), ZenonT(30)

-----------------------------------------------------------------------------
(* The inductive invariant *)

Places == {"idle", "got", "ilock", "asleep", "read", "locked", "itrunc", "freed", "ialloc"}
Holding == {"read", "locked", "itrunc", "freed"}

ProcType == [at : Places, ip : Entries \cup {Null}, kept : Entries \cup {Null}, inum : Inums \cup {Null},
             job : {"none", "fresh", "made", "relinked"}]
EntryType == [inum : Inums \cup {Null}, ref : Nat, busy : BOOLEAN, valid : BOOLEAN, alloc : BOOLEAN, nlink : Nat]

TypeInv ==
  /\ icache \in [Entries -> EntryType]
  /\ disk \in [Inums -> [alloc : BOOLEAN, nlink : Nat]]
  /\ links \in [Inums -> Nat]
  /\ pr \in [Procs -> ProcType]

\* The pointers to an entry, in the processes of a state; whether there is one; and
\* whether p's working pointer is the only one.
PointersIn(s, e) == {x \in Procs \X {"ip", "kept"} : s[x[1]][x[2]] = e}
Pointed(e) == \E p \in Procs : pr[p].ip = e \/ pr[p].kept = e
Sole(p) == \A q \in Procs : pr[q].kept # pr[p].ip /\ (q # p => pr[q].ip # pr[p].ip)

\* A process has a working pointer outside idle and ialloc, and ref counts the pointers.
PointerInv ==
  /\ \A p \in Procs : pr[p].ip = Null <=> pr[p].at \in {"idle", "ialloc"}
  /\ \A e \in Entries : icache[e].ref = Cardinality(PointersIn(pr, e))

\* Entries in use hold different inodes.
EntryInv ==
  /\ \A e \in Entries : Pointed(e) => icache[e].inum \in Inums
  /\ \A e, f \in Entries : Pointed(e) /\ Pointed(f) /\ icache[e].inum = icache[f].inum => e = f

\* I_BUSY is set exactly for the one process that has the inode.
HolderInv ==
  /\ \A e \in Entries : icache[e].busy => \E p \in Procs : pr[p].at \in Holding /\ pr[p].ip = e
  /\ \A p \in Procs : pr[p].at \in Holding => icache[pr[p].ip].busy
  /\ \A p, q \in Procs : pr[p].at \in Holding /\ pr[q].at \in Holding /\ pr[p].ip = pr[q].ip => p = q

\* The links on disk are the directory entries, and a free inode has none.
LinkInv == \A i \in Inums : disk[i].nlink = links[i] /\ (~disk[i].alloc => links[i] = 0)

\* An inode that ialloc has found is allocated, has no links, and is one process's.
FreshInv ==
  \A p \in Procs : pr[p].at = "ialloc" =>
    /\ pr[p].inum \in Inums /\ disk[pr[p].inum].alloc /\ links[pr[p].inum] = 0
    /\ \A q \in Procs : pr[q].at = "ialloc" /\ pr[p].inum = pr[q].inum => p = q

\* The inode e holds is being freed: only its iput points to the entry.
Leaving(e) == \E p \in Procs : pr[p].at = "freed" /\ pr[p].ip = e /\ Sole(p)

\* A valid copy is that of the inode on disk, unless its iput has freed it.  An entry
\* in use holds an inode that is free, or that ialloc has found, only while its iput
\* has still to give up the entry.
CopyInv ==
  /\ \A p \in Procs : pr[p].at \in {"locked", "itrunc"} => icache[pr[p].ip].valid
  /\ \A p \in Procs : pr[p].at = "itrunc" => icache[pr[p].ip].nlink = 0 /\ Sole(p)
  /\ \A e \in Entries : Pointed(e) /\ icache[e].valid =>
       \/ \E p \in Procs : pr[p].at = "freed" /\ pr[p].ip = e
       \/ icache[e].alloc /\ disk[icache[e].inum].alloc /\ disk[icache[e].inum].nlink = icache[e].nlink
  /\ \A e \in Entries : Pointed(e) /\ ~disk[icache[e].inum].alloc => Leaving(e)
  /\ \A e \in Entries, q \in Procs : Pointed(e) /\ pr[q].at = "ialloc" /\ pr[q].inum = icache[e].inum => Leaving(e)

IInv ==
  TypeInv /\ PointerInv /\ EntryInv /\ HolderInv /\ SleeperHasReason /\ LinkInv /\ FreshInv /\ CopyInv

-----------------------------------------------------------------------------
(* Counting pointers *)

\* A process has two pointers: the pointers to an entry can be counted.
LEMMA PointersFinite ==
  ASSUME NEW s, NEW e
  PROVE  IsFiniteSet(PointersIn(s, e)) /\ Cardinality(PointersIn(s, e)) \in Nat
<1>1. IsFiniteSet(Procs) /\ IsFiniteSet({"ip"}) /\ {"ip"} \cup {"kept"} = {"ip", "kept"}
  BY InodeAssumption, FS_Singleton, Zenon
<1>2. IsFiniteSet({"ip", "kept"})
  BY <1>1, FS_AddElement, Zenon
<1>3. IsFiniteSet(Procs \X {"ip", "kept"})
  BY <1>1, <1>2, FS_Product, Zenon
<1>4. PointersIn(s, e) \in SUBSET (Procs \X {"ip", "kept"})
  BY Zenon DEF PointersIn
<1>5. IsFiniteSet(PointersIn(s, e))
  BY <1>3, <1>4, FS_Subset, Zenon
<1>. QED
  BY <1>5, FS_CardinalityType, Zenon

\* The places of a pointer.
LEMMA PointerPlaces ==
  ASSUME NEW s, NEW e, NEW x
  PROVE  x \in PointersIn(s, e) <=>
           \E p \in Procs : (x = <<p, "ip">> /\ s[p].ip = e) \/ (x = <<p, "kept">> /\ s[p].kept = e)
BY DEF PointersIn

\* The same places point to f.
LEMMA PointersAlike ==
  ASSUME NEW s, NEW t, NEW f, \A q \in Procs : (t[q].ip = f <=> s[q].ip = f) /\ (t[q].kept = f <=> s[q].kept = f)
  PROVE  PointersIn(t, f) = PointersIn(s, f)
<1>1. \A q \in Procs, w \in {"ip", "kept"} : t[q][w] = f <=> s[q][w] = f
  OBVIOUS
<1>. QED
  BY <1>1 DEF PointersIn

\* Nobody's pointers change.
LEMMA PointersSame ==
  ASSUME NEW s, NEW t, \A q \in Procs : t[q].ip = s[q].ip /\ t[q].kept = s[q].kept
  PROVE  \A f : PointersIn(t, f) = PointersIn(s, f)
<1>. SUFFICES ASSUME NEW f PROVE PointersIn(t, f) = PointersIn(s, f)
  OBVIOUS
<1>1. \A q \in Procs : (t[q].ip = f <=> s[q].ip = f) /\ (t[q].kept = f <=> s[q].kept = f)
  OBVIOUS
<1>. QED
  BY <1>1, PointersAlike

\* iget and idup: p gets a working pointer.
LEMMA PointersGain ==
  ASSUME NEW s, NEW t, NEW p \in Procs, NEW e \in Entries, s[p].ip = Null, t[p].ip = e, t[p].kept = s[p].kept,
         \A q \in Procs : q # p => t[q].ip = s[q].ip /\ t[q].kept = s[q].kept
  PROVE  /\ Cardinality(PointersIn(t, e)) = Cardinality(PointersIn(s, e)) + 1
         /\ \A f \in Entries : f # e => PointersIn(t, f) = PointersIn(s, f)
<1>1. \A f \in Entries : f # Null
  BY InodeAssumption DEF Entries, Null
<1>2. PointersIn(t, e) = PointersIn(s, e) \cup {<<p, "ip">>}
  BY <1>1, PointerPlaces
<1>3. <<p, "ip">> \notin PointersIn(s, e)
  BY <1>1, PointerPlaces
<1>4. ASSUME NEW f \in Entries, f # e PROVE PointersIn(t, f) = PointersIn(s, f)
  <2>1. \A q \in Procs : (t[q].ip = f <=> s[q].ip = f) /\ (t[q].kept = f <=> s[q].kept = f)
    BY <1>1, <1>4, Zenon
  <2>. QED
    BY <2>1, PointersAlike
<1>5. Cardinality(PointersIn(t, e)) = Cardinality(PointersIn(s, e)) + 1
  BY <1>2, <1>3, PointersFinite, FS_AddElement, Zenon
<1>. QED
  BY <1>4, <1>5, Zenon

\* iput: p gives its working pointer up.
LEMMA PointersLose ==
  ASSUME NEW s, NEW t, NEW p \in Procs, NEW e \in Entries, s[p].ip = e, t[p].ip = Null, t[p].kept = s[p].kept,
         \A q \in Procs : q # p => t[q].ip = s[q].ip /\ t[q].kept = s[q].kept
  PROVE  /\ Cardinality(PointersIn(t, e)) = Cardinality(PointersIn(s, e)) - 1
         /\ \A f \in Entries : f # e => PointersIn(t, f) = PointersIn(s, f)
<1>1. Cardinality(PointersIn(s, e)) = Cardinality(PointersIn(t, e)) + 1
  BY PointersGain, Zenon
<1>2. \A f \in Entries : f # e => PointersIn(t, f) = PointersIn(s, f)
  BY PointersGain, Zenon
<1>3. Cardinality(PointersIn(t, e)) \in Nat
  BY PointersFinite, Zenon
<1>4. Cardinality(PointersIn(t, e)) = Cardinality(PointersIn(s, e)) - 1
  BY <1>1, <1>3
<1>. QED
  BY <1>2, <1>4, Zenon

\* keep and take: a pointer moves between the two places of p.
LEMMA PointersMove ==
  ASSUME NEW s, NEW t, NEW p \in Procs, s[p].kept = Null, t[p].ip = Null, t[p].kept = s[p].ip, s[p].ip # Null,
         \A q \in Procs : q # p => t[q].ip = s[q].ip /\ t[q].kept = s[q].kept
  PROVE  \A f \in Entries : Cardinality(PointersIn(t, f)) = Cardinality(PointersIn(s, f))
<1>. SUFFICES ASSUME NEW f \in Entries
              PROVE  Cardinality(PointersIn(t, f)) = Cardinality(PointersIn(s, f))
  OBVIOUS
<1>1. f # Null
  BY InodeAssumption DEF Entries, Null
<1>2. CASE f = s[p].ip
  <2>. DEFINE S == PointersIn(s, f) \ {<<p, "ip">>}
  <2>1. S \cup {<<p, "ip">>} = PointersIn(s, f) /\ <<p, "ip">> \notin S
    BY <1>2, PointerPlaces
  <2>2. S \cup {<<p, "kept">>} = PointersIn(t, f) /\ <<p, "kept">> \notin S
    BY <1>1, <1>2, PointerPlaces
  <2>3. IsFiniteSet(S)
    BY PointersFinite, FS_RemoveElement, Zenon
  <2>. HIDE DEF S
  <2>. QED
    <3>1. Cardinality(PointersIn(s, f)) = Cardinality(S) + 1
      BY <2>1, <2>3, FS_AddElement, Zenon
    <3>2. Cardinality(PointersIn(t, f)) = Cardinality(S) + 1
      BY <2>2, <2>3, FS_AddElement, Zenon
    <3>. QED
      BY <3>1, <3>2, Zenon
<1>3. CASE f # s[p].ip
  <2>1. \A q \in Procs : (t[q].ip = f <=> s[q].ip = f) /\ (t[q].kept = f <=> s[q].kept = f)
    BY <1>1, <1>3, Zenon
  <2>. QED
    BY <2>1, PointersAlike
<1>. QED
  BY <1>2, <1>3, Zenon

\* ref is positive where somebody points to, and 1 where a working pointer is the only
\* one.
LEMMA CountTells ==
  ASSUME NEW s, NEW e
  PROVE  /\ Cardinality(PointersIn(s, e)) > 0 <=> \E p \in Procs : s[p].ip = e \/ s[p].kept = e
         /\ \A p \in Procs : s[p].ip = e /\ Cardinality(PointersIn(s, e)) = 1 =>
              \A q \in Procs : s[q].kept # e /\ (q # p => s[q].ip # e)
<1>1. IsFiniteSet(PointersIn(s, e)) /\ Cardinality(PointersIn(s, e)) \in Nat
  BY PointersFinite, Zenon
<1>2. Cardinality(PointersIn(s, e)) > 0 <=> PointersIn(s, e) # {}
  BY <1>1, FS_EmptySet
<1>3. PointersIn(s, e) # {} <=> \E p \in Procs : s[p].ip = e \/ s[p].kept = e
  BY PointerPlaces, Zenon
<1>4. ASSUME NEW p \in Procs, s[p].ip = e, Cardinality(PointersIn(s, e)) = 1, NEW q \in Procs
      PROVE  s[q].kept # e /\ (q # p => s[q].ip # e)
  <2>1. PICK x : PointersIn(s, e) = {x}
    BY <1>1, <1>4, FS_Singleton, Zenon
  <2>2. x = <<p, "ip">>
    BY <1>4, <2>1, PointerPlaces, Zenon
  <2>3. s[q].kept = e => <<q, "kept">> \in PointersIn(s, e)
    BY PointerPlaces, Zenon
  <2>4. s[q].ip = e => <<q, "ip">> \in PointersIn(s, e)
    BY PointerPlaces, Zenon
  <2>. QED
    BY <2>1, <2>2, <2>3, <2>4
<1>. QED
  BY <1>2, <1>3, <1>4, Zenon

-----------------------------------------------------------------------------
(* The first of a set *)

\* A set of natural numbers that is not empty has a least one.
LEMMA MinIn ==
  ASSUME NEW S, S \subseteq Nat, S # {}
  PROVE  Min(S) \in S
<1>1. PICK x \in S : \A y \in S : <<y, x>> \notin OpToRel(<, Nat)
  BY NatLessThanWellFounded, WFMin, Zenon
<1>2. \A y \in S : <<y, x>> \in OpToRel(<, Nat) <=> y < x
  BY Zenon DEF OpToRel
<1>3. \A y \in S : x \in Nat /\ y \in Nat /\ ~(y < x)
  BY <1>1, <1>2, Zenon
<1>4. \A y \in S : x <= y
  BY <1>3
<1>. QED
  BY <1>4, Zenon DEF Min

-----------------------------------------------------------------------------
(* Steps *)

\* Nothing but ref changes in the cache, and nothing on disk.
SameEntries ==
  /\ \A f \in Entries :
       /\ icache'[f].inum = icache[f].inum /\ icache'[f].busy = icache[f].busy
       /\ icache'[f].valid = icache[f].valid /\ icache'[f].alloc = icache[f].alloc
       /\ icache'[f].nlink = icache[f].nlink
  /\ disk' = disk /\ links' = links

\* Only p changes, which neither has an inode nor allocates one, and points to nothing
\* new: idup, keep, take, and an iput that frees nothing.
LEMMA MoveKeeps ==
  ASSUME IInv, TypeInv', PointerInv', SameEntries, NEW p \in Procs,
         \A q \in Procs : q # p => pr'[q] = pr[q],
         pr[p].at \in {"idle", "got"}, pr'[p].at \in {"idle", "got"},
         pr'[p].ip \in {pr[p].ip, pr[p].kept, Null}, pr'[p].kept \in {pr[p].ip, pr[p].kept, Null}
  PROVE  IInv'
<1>1. \A e \in Entries : e # Null
  BY InodeAssumption DEF Entries, Null
<1>2. \A e \in Entries : Pointed(e)' => Pointed(e)
  BY <1>1, Zenon DEF Pointed
<1>3. EntryInv'
  BY <1>2, Zenon DEF IInv, EntryInv, SameEntries
<1>4. HolderInv'
  <2>1. \A q \in Procs : pr'[q].at \in Holding \/ pr[q].at \in Holding => pr'[q] = pr[q] /\ pr[q].ip \in Entries
    BY DEF Holding, IInv, TypeInv, ProcType, PointerInv
  <2>. QED
    BY <2>1 DEF IInv, HolderInv, SameEntries
<1>5. SleeperHasReason'
  <2>1. \A q \in Procs : pr'[q].at = "asleep" => pr'[q] = pr[q] /\ pr[q].ip \in Entries
    BY DEF IInv, TypeInv, ProcType, PointerInv
  <2>. QED
    BY <2>1, Zenon DEF IInv, SleeperHasReason, SameEntries
<1>6. LinkInv'
  BY Zenon DEF IInv, LinkInv, SameEntries
<1>7. FreshInv'
  <2>1. \A q \in Procs : pr'[q].at = "ialloc" => pr'[q] = pr[q]
    OBVIOUS
  <2>. QED
    BY <2>1 DEF IInv, FreshInv, SameEntries
<1>8. CopyInv'
  <2>1. \A q \in Procs : pr'[q].at \in {"locked", "itrunc", "freed", "ialloc"} \/ pr[q].at \in {"freed"} =>
          q # p /\ pr'[q] = pr[q]
    OBVIOUS
  <2>2. \A q \in Procs : pr[q].at \in {"locked", "itrunc", "freed"} => pr[q].ip \in Entries
    BY DEF IInv, TypeInv, ProcType, PointerInv
  <2>3. ASSUME NEW q \in Procs, q # p, pr[q].ip \in Entries, Sole(q) PROVE Sole(q)'
    BY <1>1, <2>3, Zenon DEF Sole
  <2>4. \A q \in Procs : pr'[q].at \in {"locked", "itrunc"} => icache'[pr'[q].ip].valid
    BY <2>1, <2>2 DEF IInv, CopyInv, SameEntries
  <2>5. \A q \in Procs : pr'[q].at = "itrunc" => icache'[pr'[q].ip].nlink = 0 /\ Sole(q)'
    BY <2>1, <2>2, <2>3 DEF IInv, CopyInv, SameEntries
  <2>6. \A e \in Entries : Leaving(e) => Leaving(e)'
    BY <2>1, <2>2, <2>3, Zenon DEF Leaving
  <2>7. ASSUME NEW e \in Entries, Pointed(e)', icache'[e].valid
        PROVE  \/ \E q \in Procs : pr'[q].at = "freed" /\ pr'[q].ip = e
               \/ icache'[e].alloc /\ disk'[icache'[e].inum].alloc /\ disk'[icache'[e].inum].nlink = icache'[e].nlink
    BY <1>2, <2>1, <2>7 DEF IInv, CopyInv, SameEntries
  <2>8. ASSUME NEW e \in Entries, Pointed(e)', ~disk'[icache'[e].inum].alloc PROVE Leaving(e)'
    BY <1>2, <2>6, <2>8, Zenon DEF IInv, CopyInv, SameEntries
  <2>9. ASSUME NEW e \in Entries, NEW q \in Procs, Pointed(e)', pr'[q].at = "ialloc", pr'[q].inum = icache'[e].inum
        PROVE  Leaving(e)'
    BY <1>2, <2>1, <2>6, <2>9, Zenon DEF IInv, CopyInv, SameEntries
  <2>. QED
    BY <2>4, <2>5, <2>7, <2>8, <2>9, Zenon DEF CopyInv
<1>. QED
  BY <1>3, <1>4, <1>5, <1>6, <1>7, <1>8, Zenon DEF IInv

\* ref tells whether, and whether only one pointer, points to an entry.
LEMMA Referenced ==
  ASSUME IInv
  PROVE  /\ \A e \in Entries : icache[e].ref \in Nat /\ (icache[e].ref > 0 <=> Pointed(e))
         /\ \A p \in Procs : pr[p].ip \in Entries /\ icache[pr[p].ip].ref = 1 => Sole(p)
<1>1. \A e \in Entries : icache[e].ref = Cardinality(PointersIn(pr, e)) /\ icache[e].ref \in Nat
  BY DEF IInv, TypeInv, EntryType, PointerInv
<1>2. \A e \in Entries : icache[e].ref \in Nat /\ (icache[e].ref > 0 <=> Pointed(e))
  <2>. SUFFICES ASSUME NEW e \in Entries PROVE icache[e].ref > 0 <=> Pointed(e)
    BY <1>1, Zenon
  <2>1. Cardinality(PointersIn(pr, e)) > 0 <=> \E p \in Procs : pr[p].ip = e \/ pr[p].kept = e
    BY CountTells, Zenon
  <2>. QED
    BY <1>1, <2>1 DEF Pointed
<1>3. ASSUME NEW p \in Procs, pr[p].ip \in Entries, icache[pr[p].ip].ref = 1 PROVE Sole(p)
  <2>1. Cardinality(PointersIn(pr, pr[p].ip)) = 1
    BY <1>1, <1>3, Zenon
  <2>2. \A q \in Procs : pr[q].kept # pr[p].ip /\ (q # p => pr[q].ip # pr[p].ip)
    BY <2>1, CountTells, ZenonT(30)
  <2>. QED
    BY <2>2, Zenon DEF Sole
<1>. QED
  BY <1>2, <1>3, Zenon

\* iget finds the entry in use for the inode, or one that is not in use if there is none.
LEMMA igetFinds ==
  ASSUME IInv, NEW i \in Inums, CanGet(i)
  PROVE  /\ Entry(i) \in Entries
         /\ Pointed(Entry(i)) => icache[Entry(i)].inum = i
         /\ ~Pointed(Entry(i)) => \A f \in Entries : Pointed(f) => icache[f].inum # i
         /\ CachedAt(i) # {} <=> Pointed(Entry(i))
<1>1. \A e \in Entries : (e \in CachedAt(i) <=> Pointed(e) /\ icache[e].inum = i) /\ (e \in Empty <=> ~Pointed(e))
  BY Referenced DEF CachedAt, Empty
<1>2. CachedAt(i) \subseteq Entries /\ Empty \subseteq Entries /\ Entries \subseteq Nat
  BY InodeAssumption DEF CachedAt, Empty, Entries
<1>3. CASE CachedAt(i) # {}
  <2>1. Entry(i) \in CachedAt(i)
    BY <1>3, Zenon DEF Entry
  <2>. QED
    BY <1>1, <1>2, <1>3, <2>1, Zenon
<1>4. CASE CachedAt(i) = {}
  <2>1. Entry(i) = Min(Empty) /\ Empty # {}
    BY <1>4, Zenon DEF Entry, CanGet
  <2>2. Entry(i) \in Empty
    BY <1>2, <2>1, MinIn, Zenon
  <2>. QED
    BY <1>1, <1>2, <1>4, <2>2, Zenon
<1>. QED
  BY <1>3, <1>4, Zenon

\* What iget does to the entry it finds; the others stay.
LEMMA igetDoes ==
  ASSUME IInv, NEW i \in Inums, CanGet(i), icache' = iget(i)
  PROVE  LET e == Entry(i) IN
         /\ icache' \in [Entries -> EntryType]
         /\ \A f \in Entries : f # e => icache'[f] = icache[f]
         /\ icache'[e].ref = icache[e].ref + 1 /\ icache'[e].inum = i
         /\ Pointed(e) => /\ icache'[e].busy = icache[e].busy /\ icache'[e].valid = icache[e].valid
                          /\ icache'[e].alloc = icache[e].alloc /\ icache'[e].nlink = icache[e].nlink
         /\ ~Pointed(e) => ~icache'[e].busy /\ ~icache'[e].valid
<1>. DEFINE e == Entry(i)
<1>0. e \in Entries /\ icache \in [Entries -> EntryType] /\ icache[e].ref \in Nat
  BY igetFinds, Referenced, Zenon DEF IInv, TypeInv
<1>1. CASE CachedAt(i) # {}
  <2>1. icache' = [icache EXCEPT ![e].ref = icache[e].ref + 1]
    BY <1>1 DEF iget
  <2>2. icache[e].inum = i /\ Pointed(e)
    BY <1>1, igetFinds, Zenon
  <2>3. icache[e].ref + 1 \in Nat
    BY <1>0
  <2>. HIDE DEF e
  <2>4. icache' \in [Entries -> EntryType]
    BY <1>0, <2>1, <2>3 DEF EntryType
  <2>. QED
    BY <1>0, <2>1, <2>2, <2>4 DEF e, EntryType
<1>2. CASE CachedAt(i) = {}
  <2>1. icache' = [icache EXCEPT ![e] = [icache[e] EXCEPT !.inum = i, !.ref = 1, !.busy = FALSE, !.valid = FALSE]]
    BY <1>2 DEF iget
  <2>2. ~Pointed(e)
    BY <1>2, igetFinds, Zenon
  <2>3. icache[e].ref = 0
    BY <1>0, <2>2, Referenced
  <2>. HIDE DEF e
  <2>. DEFINE x == [icache[e] EXCEPT !.inum = i, !.ref = 1, !.busy = FALSE, !.valid = FALSE]
  <2>4. x \in EntryType /\ x.inum = i /\ x.ref = 1 /\ ~x.busy /\ ~x.valid
    BY <1>0, Zenon DEF EntryType
  <2>. HIDE DEF x
  <2>5. icache' \in [Entries -> EntryType] /\ icache'[e] = x /\ \A f \in Entries : f # e => icache'[f] = icache[f]
    BY <1>0, <2>1, <2>4, Zenon DEF x
  <2>6. icache'[e].ref = icache[e].ref + 1
    BY <2>3, <2>4, <2>5
  <2>. QED
    BY <2>2, <2>4, <2>5, <2>6, Zenon DEF e
<1>. QED
  BY <1>1, <1>2, Zenon

\* p gets a pointer to an inode that is allocated, that nobody else has just allocated,
\* and that no iput is about to free.
LEMMA GetKeeps ==
  ASSUME IInv, NEW p \in Procs, NEW i \in Inums, CanGet(i), icache' = iget(i), disk' = disk, links' = links,
         NEW r \in ProcType, pr' = [pr EXCEPT ![p] = r], r.at \in {"got", "ilock"}, r.ip = Entry(i), r.kept = pr[p].kept,
         pr[p].at \in {"idle", "ialloc"}, disk[i].alloc,
         \A q \in Procs : q # p /\ pr[q].at = "ialloc" => pr[q].inum # i,
         \A q \in Procs : pr[q].at = "itrunc" => icache[pr[q].ip].inum # i
  PROVE  IInv'
<1>. DEFINE e == Entry(i)
<1>1. \A f \in Entries : f # Null
  BY InodeAssumption DEF Entries, Null
<1>2. /\ e \in Entries /\ (Pointed(e) => icache[e].inum = i)
      /\ ~Pointed(e) => \A f \in Entries : Pointed(f) => icache[f].inum # i
  BY igetFinds, Zenon
<1>3. /\ icache' \in [Entries -> EntryType]
      /\ \A f \in Entries : f # e => icache'[f] = icache[f]
      /\ icache'[e].ref = icache[e].ref + 1 /\ icache'[e].inum = i
      /\ Pointed(e) => /\ icache'[e].busy = icache[e].busy /\ icache'[e].valid = icache[e].valid
                       /\ icache'[e].alloc = icache[e].alloc /\ icache'[e].nlink = icache[e].nlink
      /\ ~Pointed(e) => ~icache'[e].busy /\ ~icache'[e].valid
  BY igetDoes, Zenon
<1>4. /\ pr' \in [Procs -> ProcType] /\ pr'[p].at \in {"got", "ilock"} /\ pr'[p].ip = e /\ pr'[p].kept = pr[p].kept
      /\ \A q \in Procs : q # p => pr'[q] = pr[q]
      /\ pr[p].ip = Null
  BY Zenon DEF IInv, TypeInv, PointerInv
<1>. HIDE DEF e
<1>5. TypeInv'
  BY <1>3, <1>4, Zenon DEF IInv, TypeInv
<1>6. PointerInv'
  <2>1. \A q \in Procs : pr'[q].ip = Null <=> pr'[q].at \in {"idle", "ialloc"}
    BY <1>1, <1>2, <1>4 DEF IInv, PointerInv
  <2>2. /\ Cardinality(PointersIn(pr', e)) = Cardinality(PointersIn(pr, e)) + 1
        /\ \A f \in Entries : f # e => PointersIn(pr', f) = PointersIn(pr, f)
    <3>1. \A q \in Procs : q # p => pr'[q].ip = pr[q].ip /\ pr'[q].kept = pr[q].kept
      BY <1>4, Zenon
    <3>. QED
      BY ONLY <1>2, <1>4, <3>1, PointersGain, p \in Procs, ZenonT(30)
  <2>3. \A f \in Entries : icache'[f].ref = Cardinality(PointersIn(pr', f))
    BY <1>2, <1>3, <2>2, ZenonT(30) DEF IInv, PointerInv
  <2>. QED
    BY <2>1, <2>3, Zenon DEF PointerInv
<1>7. \A f \in Entries : Pointed(f)' <=> f = e \/ Pointed(f)
  BY <1>1, <1>2, <1>4 DEF Pointed
<1>8. EntryInv'
  BY <1>2, <1>3, <1>7 DEF IInv, EntryInv
<1>9. \A q \in Procs : pr[q].at \notin {"idle", "ialloc"} => pr[q].ip \in Entries /\ Pointed(pr[q].ip)
  BY DEF IInv, TypeInv, ProcType, PointerInv, Pointed
<1>10. HolderInv'
  <2>1. \A q \in Procs : pr'[q].at \in Holding \/ pr[q].at \in Holding =>
          q # p /\ pr'[q] = pr[q] /\ pr[q].ip \in Entries /\ Pointed(pr[q].ip)
    BY <1>4, <1>9 DEF Holding
  <2>2. \A f \in Entries : icache'[f].busy => icache[f].busy
    BY <1>3
  <2>3. \A f \in Entries : icache[f].busy /\ Pointed(f) => icache'[f].busy
    BY <1>3
  <2>. QED
    BY <2>1, <2>2, <2>3 DEF IInv, HolderInv
<1>11. SleeperHasReason'
  BY <1>3, <1>4, <1>9 DEF IInv, SleeperHasReason
<1>12. LinkInv'
  BY Zenon DEF IInv, LinkInv
<1>13. FreshInv'
  <2>1. \A q \in Procs : pr'[q].at = "ialloc" => pr'[q] = pr[q]
    BY <1>4
  <2>. QED
    BY <2>1 DEF IInv, FreshInv
<1>14. CopyInv'
  <2>1. \A q \in Procs : pr'[q].at \in {"locked", "itrunc", "freed", "ialloc"} => q # p /\ pr'[q] = pr[q]
    BY <1>4
  <2>2. \A q \in Procs : pr[q].at = "freed" => q # p /\ pr'[q] = pr[q] /\ pr[q].ip \in Entries
    BY <1>4, <1>9
  <2>3. ASSUME NEW q \in Procs, q # p, pr[q].ip \in Entries, pr[q].ip # e, Sole(q) PROVE Sole(q)'
    BY <1>4, <2>3 DEF Sole
  <2>4. \A q \in Procs : pr'[q].at \in {"locked", "itrunc"} => icache'[pr'[q].ip].valid
    BY <1>3, <1>9, <2>1 DEF IInv, CopyInv
  <2>5. ASSUME NEW q \in Procs, pr'[q].at = "itrunc" PROVE icache'[pr'[q].ip].nlink = 0 /\ Sole(q)'
    <3>1. /\ pr'[q] = pr[q] /\ q # p /\ pr[q].ip \in Entries /\ Pointed(pr[q].ip)
          /\ icache[pr[q].ip].nlink = 0 /\ Sole(q)
      BY <1>9, <2>1, <2>5 DEF IInv, CopyInv
    <3>2. pr[q].ip # e
      BY <1>2, <2>5, <3>1
    <3>. QED
      BY <1>3, <2>3, <3>1, <3>2
  <2>6. ASSUME NEW f \in Entries, f # e, Leaving(f) PROVE Leaving(f)'
    BY <2>2, <2>3, <2>6 DEF Leaving
  <2>7. ASSUME NEW f \in Entries, Pointed(f)', icache'[f].valid
        PROVE  \/ \E q \in Procs : pr'[q].at = "freed" /\ pr'[q].ip = f
               \/ icache'[f].alloc /\ disk'[icache'[f].inum].alloc /\ disk'[icache'[f].inum].nlink = icache'[f].nlink
    <3>1. Pointed(f) /\ icache[f].valid /\ icache'[f].alloc = icache[f].alloc /\ icache'[f].inum = icache[f].inum
          /\ icache'[f].nlink = icache[f].nlink
      BY <1>2, <1>3, <1>7, <2>7
    <3>. QED
      BY <2>2, <3>1 DEF IInv, CopyInv
  <2>8. ASSUME NEW f \in Entries, Pointed(f)', ~disk'[icache'[f].inum].alloc PROVE Leaving(f)'
    BY <1>3, <1>7, <2>6, <2>8 DEF IInv, CopyInv
  <2>9. ASSUME NEW f \in Entries, NEW q \in Procs, Pointed(f)', pr'[q].at = "ialloc", pr'[q].inum = icache'[f].inum
        PROVE  Leaving(f)'
    <3>1. q # p /\ pr'[q] = pr[q]
      BY <2>1, <2>9
    <3>. QED
      BY <1>3, <1>7, <2>6, <2>9, <3>1 DEF IInv, CopyInv
  <2>. QED
    BY <2>4, <2>5, <2>7, <2>8, <2>9, Zenon DEF CopyInv
<1>. QED
  BY <1>5, <1>6, <1>8, <1>10, <1>11, <1>12, <1>13, <1>14, Zenon DEF IInv

-----------------------------------------------------------------------------
(* Actions that take, move and give up pointers *)

\* dirlookup and iget: the inode has a link, so nobody frees or allocates it.
LEMMA LookupKeeps ==
  ASSUME IInv, NEW p \in Procs, NEW i \in Inums, lookup(p, i)
  PROVE  IInv'
<1>. DEFINE r == [pr[p] EXCEPT !.at = "got", !.ip = Entry(i)]
<1>1. /\ pr[p].at = "idle" /\ links[i] > 0 /\ CanGet(i) /\ icache' = iget(i) /\ disk' = disk /\ links' = links
      /\ pr' = [pr EXCEPT ![p] = r]
  BY DEF lookup, To
<1>2. pr[p] \in ProcType /\ Entry(i) \in Entries
  BY <1>1, igetFinds, Zenon DEF IInv, TypeInv
<1>3. r \in ProcType /\ r.at = "got" /\ r.ip = Entry(i) /\ r.kept = pr[p].kept
  BY <1>2, Zenon DEF ProcType, Places
<1>. HIDE DEF r
<1>4. disk[i].nlink = links[i] /\ links[i] # 0 /\ disk[i].alloc
  BY <1>1 DEF IInv, TypeInv, LinkInv
<1>5. \A q \in Procs : q # p /\ pr[q].at = "ialloc" => pr[q].inum # i
  BY <1>4 DEF IInv, FreshInv
<1>6. ASSUME NEW q \in Procs, pr[q].at = "itrunc" PROVE icache[pr[q].ip].inum # i
  <2>1. /\ pr[q].ip \in Entries /\ Pointed(pr[q].ip) /\ icache[pr[q].ip].valid /\ icache[pr[q].ip].nlink = 0
        /\ pr[q].at \in Holding
    BY <1>6 DEF IInv, TypeInv, ProcType, PointerInv, Pointed, CopyInv, Holding
  <2>2. ~\E s \in Procs : pr[s].at = "freed" /\ pr[s].ip = pr[q].ip
    BY <1>6, <2>1 DEF IInv, HolderInv, Holding
  <2>3. disk[icache[pr[q].ip].inum].nlink = 0
    BY <2>1, <2>2 DEF IInv, CopyInv
  <2>. QED
    BY <1>4, <2>3
<1>. QED
  <2>1. /\ CanGet(i) /\ icache' = iget(i) /\ disk' = disk /\ links' = links /\ pr' = [pr EXCEPT ![p] = r]
        /\ pr[p].at \in {"idle", "ialloc"} /\ disk[i].alloc
    BY <1>1, <1>4, Zenon
  <2>. QED
    BY ONLY IInv, p \in Procs, i \in Inums, <1>3, <1>5, <1>6, <2>1, GetKeeps, ZenonT(30)

\* ialloc, once the inode is marked allocated: whoever still has an entry for it has
\* freed it, and gives the entry up.
LEMMA IallocIgetKeeps ==
  ASSUME IInv, NEW p \in Procs, ialloc_iget(p)
  PROVE  IInv'
<1>. DEFINE i == pr[p].inum
            r == [pr[p] EXCEPT !.at = "ilock", !.ip = Entry(i), !.inum = Null, !.job = "fresh"]
<1>1. /\ pr[p].at = "ialloc" /\ CanGet(i) /\ icache' = iget(i) /\ disk' = disk /\ links' = links
      /\ pr' = [pr EXCEPT ![p] = r]
  BY DEF ialloc_iget, To
<1>2. i \in Inums /\ disk[i].alloc
  BY <1>1 DEF IInv, FreshInv
<1>3. pr[p] \in ProcType /\ Entry(i) \in Entries
  BY <1>1, <1>2, igetFinds, Zenon DEF IInv, TypeInv
<1>4. r \in ProcType
  BY <1>3, Zenon DEF ProcType, Places
<1>5. r.at = "ilock" /\ r.ip = Entry(i) /\ r.kept = pr[p].kept
  BY <1>3 DEF ProcType
<1>6. \A q \in Procs : q # p /\ pr[q].at = "ialloc" => pr[q].inum # i
  BY <1>1 DEF IInv, FreshInv
<1>7. ASSUME NEW q \in Procs, pr[q].at = "itrunc" PROVE icache[pr[q].ip].inum # i
  <2>1. pr[q].ip \in Entries /\ Pointed(pr[q].ip)
    BY <1>7 DEF IInv, TypeInv, ProcType, PointerInv, Pointed
  <2>2. ~Leaving(pr[q].ip)
    BY <1>7 DEF IInv, HolderInv, Holding, Leaving
  <2>. QED
    BY <1>1, <2>1, <2>2 DEF IInv, CopyInv
<1>. HIDE DEF i, r
<1>. QED
  BY <1>1, <1>2, <1>4, <1>5, <1>6, <1>7, GetKeeps, Zenon

\* The ref of one entry changes, and nothing else in the cache.
LEMMA RefChanges ==
  ASSUME TypeInv, NEW e \in Entries, NEW n \in Nat, icache' = [icache EXCEPT ![e].ref = n], disk' = disk, links' = links
  PROVE  /\ icache' \in [Entries -> EntryType] /\ SameEntries /\ icache'[e].ref = n
         /\ \A f \in Entries : f # e => icache'[f].ref = icache[f].ref
<1>1. icache \in [Entries -> EntryType] /\ icache[e] \in EntryType
  BY Zenon DEF TypeInv
<1>. DEFINE x == [icache[e] EXCEPT !.ref = n]
<1>2. /\ x \in EntryType /\ x.ref = n /\ x.inum = icache[e].inum /\ x.busy = icache[e].busy
      /\ x.valid = icache[e].valid /\ x.alloc = icache[e].alloc /\ x.nlink = icache[e].nlink
  BY <1>1, Zenon DEF EntryType
<1>. HIDE DEF x
<1>3. /\ icache' \in [Entries -> EntryType] /\ icache'[e] = x
      /\ \A f \in Entries : f # e => icache'[f] = icache[f]
  BY <1>1, <1>2, Zenon DEF x
<1>. QED
  BY <1>2, <1>3 DEF SameEntries

\* The type of a process that changes.
LEMMA ProcChanges ==
  ASSUME TypeInv, NEW p \in Procs, NEW r \in ProcType, pr' = [pr EXCEPT ![p] = r]
  PROVE  pr' \in [Procs -> ProcType] /\ pr'[p] = r /\ \A q \in Procs : q # p => pr'[q] = pr[q]
BY Zenon DEF TypeInv

\* idup: a second pointer where there is one.
LEMMA IdupKeeps ==
  ASSUME IInv, NEW p \in Procs, idup(p)
  PROVE  IInv'
<1>. DEFINE e == pr[p].kept
            r == [pr[p] EXCEPT !.at = "got", !.ip = e]
<1>1. /\ pr[p].at = "idle" /\ e # Null /\ icache' = [icache EXCEPT ![e].ref = icache[e].ref + 1]
      /\ disk' = disk /\ links' = links /\ pr' = [pr EXCEPT ![p] = r]
  BY DEF idup, To
<1>2. /\ TypeInv /\ pr[p] \in ProcType /\ e \in Entries /\ pr[p].ip = Null
      /\ \A f \in Entries : icache[f].ref \in Nat /\ f # Null
  BY <1>1, InodeAssumption, Referenced DEF IInv, TypeInv, ProcType, PointerInv, Entries, Null
<1>3. r \in ProcType /\ r.at = "got" /\ r.ip = e /\ r.kept = e
  BY <1>2, Zenon DEF ProcType, Places
<1>4. pr' \in [Procs -> ProcType] /\ pr'[p] = r /\ \A q \in Procs : q # p => pr'[q] = pr[q]
  BY <1>1, <1>2, <1>3, ProcChanges, Zenon
<1>. HIDE DEF e, r
<1>5. icache[e].ref + 1 \in Nat
  BY <1>2
<1>6. /\ icache' \in [Entries -> EntryType] /\ SameEntries /\ icache'[e].ref = icache[e].ref + 1
      /\ \A f \in Entries : f # e => icache'[f].ref = icache[f].ref
  BY <1>1, <1>2, <1>5, RefChanges, Zenon
<1>7. TypeInv'
  BY <1>1, <1>4, <1>6, Zenon DEF IInv, TypeInv
<1>8. PointerInv'
  <2>1. \A q \in Procs : pr'[q].ip = Null <=> pr'[q].at \in {"idle", "ialloc"}
    BY <1>2, <1>3, <1>4 DEF IInv, PointerInv
  <2>2. pr[p].ip = Null /\ pr'[p].ip = e /\ pr'[p].kept = pr[p].kept
    BY <1>2, <1>3, <1>4 DEF e
  <2>3. \A q \in Procs : q # p => pr'[q].ip = pr[q].ip /\ pr'[q].kept = pr[q].kept
    BY <1>4, Zenon
  <2>4. /\ Cardinality(PointersIn(pr', e)) = Cardinality(PointersIn(pr, e)) + 1
        /\ \A f \in Entries : f # e => PointersIn(pr', f) = PointersIn(pr, f)
    BY ONLY p \in Procs, <1>2, <2>2, <2>3, PointersGain, Zenon
  <2>5. \A f \in Entries : icache'[f].ref = Cardinality(PointersIn(pr', f))
    BY <1>2, <1>6, <2>4 DEF IInv, PointerInv
  <2>. QED
    BY <2>1, <2>5, Zenon DEF PointerInv
<1>. QED
  <2>1. /\ pr[p].at \in {"idle", "got"} /\ pr'[p].at \in {"idle", "got"}
        /\ pr'[p].ip \in {pr[p].ip, pr[p].kept, Null} /\ pr'[p].kept \in {pr[p].ip, pr[p].kept, Null}
    BY <1>1, <1>3, <1>4 DEF e
  <2>. QED
    BY ONLY IInv, p \in Procs, <1>4, <1>6, <1>7, <1>8, <2>1, MoveKeeps, Zenon

\* A step that only moves p's pointer to its other place.
LEMMA ShiftKeeps ==
  ASSUME IInv, NEW p \in Procs, NEW r \in ProcType, pr' = [pr EXCEPT ![p] = r],
         icache' = icache, disk' = disk, links' = links,
         \/ pr[p].at = "got" /\ r.at = "idle" /\ pr[p].kept = Null /\ r.ip = Null /\ r.kept = pr[p].ip
         \/ pr[p].at = "idle" /\ r.at = "got" /\ pr[p].kept # Null /\ r.kept = Null /\ r.ip = pr[p].kept
  PROVE  IInv'
<1>1. pr' \in [Procs -> ProcType] /\ pr'[p] = r /\ \A q \in Procs : q # p => pr'[q] = pr[q]
  BY ProcChanges, Zenon DEF IInv
<1>2. TypeInv'
  BY <1>1, Zenon DEF IInv, TypeInv
<1>3. SameEntries
  BY Zenon DEF SameEntries
<1>4. pr[p].at = "idle" <=> pr[p].ip = Null
  BY DEF IInv, PointerInv
<1>5. PointerInv'
  <2>1. \A q \in Procs : pr'[q].ip = Null <=> pr'[q].at \in {"idle", "ialloc"}
    BY <1>1, <1>4 DEF IInv, PointerInv
  <2>2. \A q \in Procs : q # p => pr'[q].ip = pr[q].ip /\ pr'[q].kept = pr[q].kept
    BY <1>1, Zenon
  <2>3. \A f \in Entries : Cardinality(PointersIn(pr', f)) = Cardinality(PointersIn(pr, f))
    <3>1. CASE pr[p].at = "got"
      <4>1. pr[p].kept = Null /\ pr'[p].ip = Null /\ pr'[p].kept = pr[p].ip /\ pr[p].ip # Null
        BY <1>1, <1>4, <3>1
      <4>. QED
        BY ONLY p \in Procs, <2>2, <4>1, PointersMove, Zenon
    <3>2. CASE pr[p].at = "idle"
      <4>1. /\ pr'[p].kept = Null /\ pr[p].ip = Null /\ pr[p].kept = pr'[p].ip /\ pr'[p].ip # Null
            /\ \A q \in Procs : q # p => pr[q].ip = pr'[q].ip /\ pr[q].kept = pr'[q].kept
        BY <1>1, <1>4, <3>2
      <4>2. \A f \in Entries : Cardinality(PointersIn(pr, f)) = Cardinality(PointersIn(pr', f))
        BY ONLY p \in Procs, <4>1, PointersMove, Zenon
      <4>. QED
        BY <4>2, Zenon
    <3>. QED
      BY <3>1, <3>2, Zenon
  <2>. QED
    BY <2>1, <2>3, Zenon DEF IInv, PointerInv
<1>6. /\ pr[p].at \in {"idle", "got"} /\ pr'[p].at \in {"idle", "got"}
      /\ pr'[p].ip \in {pr[p].ip, pr[p].kept, Null} /\ pr'[p].kept \in {pr[p].ip, pr[p].kept, Null}
  BY <1>1
<1>. QED
  BY ONLY IInv, p \in Procs, <1>1, <1>2, <1>3, <1>5, <1>6, MoveKeeps, Zenon

\* An open file or proc->cwd takes the pointer.
LEMMA KeepKeeps ==
  ASSUME IInv, NEW p \in Procs, keep(p)
  PROVE  IInv'
<1>. DEFINE r == [pr[p] EXCEPT !.at = "idle", !.ip = Null, !.kept = pr[p].ip, !.job = "none"]
<1>1. /\ pr[p].at = "got" /\ pr[p].kept = Null /\ pr' = [pr EXCEPT ![p] = r]
      /\ icache' = icache /\ disk' = disk /\ links' = links
  BY DEF keep, To
<1>2. pr[p] \in ProcType
  BY Zenon DEF IInv, TypeInv
<1>3. r \in ProcType
  BY <1>2, Zenon DEF ProcType, Places
<1>4. r.at = "idle" /\ r.ip = Null /\ r.kept = pr[p].ip
  BY <1>2 DEF ProcType
<1>. HIDE DEF r
<1>. QED
  BY ONLY IInv, p \in Procs, <1>1, <1>3, <1>4, ShiftKeeps, Zenon

\* fileclose, sys_chdir and exit take it back.
LEMMA TakeKeeps ==
  ASSUME IInv, NEW p \in Procs, take(p)
  PROVE  IInv'
<1>. DEFINE r == [pr[p] EXCEPT !.at = "got", !.ip = pr[p].kept, !.kept = Null]
<1>1. /\ pr[p].at = "idle" /\ pr[p].kept # Null /\ pr' = [pr EXCEPT ![p] = r]
      /\ icache' = icache /\ disk' = disk /\ links' = links
  BY DEF take, To
<1>2. pr[p] \in ProcType
  BY Zenon DEF IInv, TypeInv
<1>3. r \in ProcType
  BY <1>2, Zenon DEF ProcType, Places
<1>4. r.at = "got" /\ r.ip = pr[p].kept /\ r.kept = Null
  BY <1>2 DEF ProcType
<1>. HIDE DEF r
<1>. QED
  BY ONLY IInv, p \in Procs, <1>1, <1>3, <1>4, ShiftKeeps, Zenon

\* A transaction begins or ends.
LEMMA TransKeeps ==
  ASSUME IInv, UNCHANGED <<icache, disk, links, pr>>
  PROVE  IInv'
<1>1. icache' = icache /\ disk' = disk /\ links' = links /\ pr' = pr
  OBVIOUS
<1>2. \A e : Pointed(e)' <=> Pointed(e)
  BY <1>1 DEF Pointed
<1>3. \A p : Sole(p)' <=> Sole(p)
  BY <1>1 DEF Sole
<1>4. \A e : Leaving(e)' <=> Leaving(e)
  BY <1>1, <1>3 DEF Leaving
<1>5. TypeInv' /\ PointerInv'
  BY <1>1 DEF IInv, TypeInv, PointerInv
<1>6. EntryInv' /\ HolderInv'
  BY <1>1, <1>2 DEF IInv, EntryInv, HolderInv
<1>7. SleeperHasReason' /\ LinkInv' /\ FreshInv'
  BY <1>1 DEF IInv, SleeperHasReason, LinkInv, FreshInv
<1>8. CopyInv'
  BY <1>1, <1>2, <1>3, <1>4 DEF IInv, CopyInv
<1>. QED
  BY <1>5, <1>6, <1>7, <1>8, Zenon DEF IInv

\* iput that frees nothing: the pointer is given up.
LEMMA IputDropKeeps ==
  ASSUME IInv, NEW p \in Procs, pr[p].at = "got", icache' = [icache EXCEPT ![pr[p].ip].ref = icache[pr[p].ip].ref - 1],
         pr' = [pr EXCEPT ![p] = [pr[p] EXCEPT !.at = "idle", !.ip = Null, !.job = "none"]],
         disk' = disk, links' = links
  PROVE  IInv'
<1>. DEFINE e == pr[p].ip
            r == [pr[p] EXCEPT !.at = "idle", !.ip = Null, !.job = "none"]
<1>1. TypeInv /\ pr[p] \in ProcType /\ e \in Entries /\ Pointed(e)
  BY DEF IInv, TypeInv, ProcType, PointerInv, Pointed
<1>2. r \in ProcType
  BY <1>1, Zenon DEF ProcType, Places
<1>3. r.at = "idle" /\ r.ip = Null /\ r.kept = pr[p].kept
  BY <1>1 DEF ProcType
<1>4. pr' \in [Procs -> ProcType] /\ pr'[p] = r /\ \A q \in Procs : q # p => pr'[q] = pr[q]
  BY <1>1, <1>2, ProcChanges, Zenon
<1>5. icache[e].ref \in Nat /\ icache[e].ref > 0 /\ icache' = [icache EXCEPT ![e].ref = icache[e].ref - 1]
  BY <1>1, Referenced, Zenon
<1>6. pr[p].ip = e /\ pr[p].at = "got"
  OBVIOUS
<1>. HIDE DEF e, r
<1>7. icache[e].ref - 1 \in Nat
  BY <1>5
<1>8. /\ icache' \in [Entries -> EntryType] /\ SameEntries /\ icache'[e].ref = icache[e].ref - 1
      /\ \A f \in Entries : f # e => icache'[f].ref = icache[f].ref
  BY <1>1, <1>5, <1>7, RefChanges, Zenon
<1>9. TypeInv'
  BY <1>4, <1>8, Zenon DEF IInv, TypeInv
<1>10. PointerInv'
  <2>1. \A q \in Procs : pr'[q].ip = Null <=> pr'[q].at \in {"idle", "ialloc"}
    BY <1>3, <1>4 DEF IInv, PointerInv
  <2>2. pr[p].ip = e /\ pr'[p].ip = Null /\ pr'[p].kept = pr[p].kept
    BY <1>3, <1>4, <1>6, Zenon
  <2>3. \A q \in Procs : q # p => pr'[q].ip = pr[q].ip /\ pr'[q].kept = pr[q].kept
    BY <1>4, Zenon
  <2>4. /\ Cardinality(PointersIn(pr', e)) = Cardinality(PointersIn(pr, e)) - 1
        /\ \A f \in Entries : f # e => PointersIn(pr', f) = PointersIn(pr, f)
    BY ONLY p \in Procs, <1>1, <2>2, <2>3, PointersLose, Zenon
  <2>5. \A f \in Entries : icache'[f].ref = Cardinality(PointersIn(pr', f))
    BY <1>1, <1>8, <2>4, Zenon DEF IInv, PointerInv
  <2>. QED
    BY <2>1, <2>5, Zenon DEF PointerInv
<1>. QED
  <2>1. /\ pr[p].at \in {"idle", "got"} /\ pr'[p].at \in {"idle", "got"}
        /\ pr'[p].ip \in {pr[p].ip, pr[p].kept, Null} /\ pr'[p].kept \in {pr[p].ip, pr[p].kept, Null}
    BY <1>3, <1>4, <1>6
  <2>. QED
    BY ONLY IInv, p \in Procs, <1>4, <1>8, <1>9, <1>10, <2>1, MoveKeeps, Zenon

-----------------------------------------------------------------------------
(* Actions that lock, change and free inodes *)

\* Every pointer stays where it is, and every entry keeps its inode.
SamePointers ==
  /\ \A q \in Procs : /\ pr'[q].ip = pr[q].ip /\ pr'[q].kept = pr[q].kept
                      /\ pr'[q].at \in {"idle", "ialloc"} <=> pr[q].at \in {"idle", "ialloc"}
  /\ \A f \in Entries : icache'[f].ref = icache[f].ref /\ icache'[f].inum = icache[f].inum

\* What such a step keeps.
LEMMA PointersStay ==
  ASSUME IInv, SamePointers
  PROVE  /\ PointerInv' /\ EntryInv'
         /\ \A e \in Entries : Pointed(e)' <=> Pointed(e)
         /\ \A q \in Procs : Sole(q)' <=> Sole(q)
<1>1. \A q \in Procs : pr'[q].ip = pr[q].ip /\ pr'[q].kept = pr[q].kept
  BY Zenon DEF SamePointers
<1>2. \A f : PointersIn(pr', f) = PointersIn(pr, f)
  BY ONLY <1>1, PointersSame, Zenon
<1>3. PointerInv'
  BY <1>2 DEF IInv, PointerInv, SamePointers
<1>4. \A e \in Entries : Pointed(e)' <=> Pointed(e)
  BY <1>1 DEF Pointed
<1>5. \A q \in Procs : Sole(q)' <=> Sole(q)
  BY <1>1 DEF Sole
<1>6. EntryInv'
  BY <1>4 DEF IInv, EntryInv, SamePointers
<1>. QED
  BY <1>3, <1>4, <1>5, <1>6, Zenon

\* The working pointer of a process that is neither idle nor in ialloc.
LEMMA HasEntry ==
  ASSUME IInv
  PROVE  \A q \in Procs : pr[q].at \notin {"idle", "ialloc"} => pr[q].ip \in Entries /\ Pointed(pr[q].ip)
BY DEF IInv, TypeInv, ProcType, PointerInv, Pointed

\* p goes from one place to another with the pointers it has.
LEMMA PlaceChanges ==
  ASSUME TypeInv, NEW p \in Procs, NEW a \in Places, pr' = [pr EXCEPT ![p] = [pr[p] EXCEPT !.at = a]]
  PROVE  /\ pr' \in [Procs -> ProcType]
         /\ pr'[p].at = a /\ pr'[p].ip = pr[p].ip /\ pr'[p].kept = pr[p].kept /\ pr'[p].inum = pr[p].inum
         /\ \A q \in Procs : q # p => pr'[q] = pr[q]
<1>. DEFINE r == [pr[p] EXCEPT !.at = a]
<1>1. pr[p] \in ProcType
  BY Zenon DEF TypeInv
<1>2. r \in ProcType /\ r.at = a /\ r.ip = pr[p].ip /\ r.kept = pr[p].kept /\ r.inum = pr[p].inum
  BY <1>1, Zenon DEF ProcType
<1>. HIDE DEF r
<1>3. pr' = [pr EXCEPT ![p] = r]
  BY Zenon DEF r
<1>4. pr' \in [Procs -> ProcType] /\ pr'[p] = r /\ \A q \in Procs : q # p => pr'[q] = pr[q]
  BY <1>2, <1>3, ProcChanges, Zenon
<1>. QED
  BY <1>2, <1>4, Zenon

\* I_BUSY of one entry changes, and nothing else in the cache.
LEMMA BusyChanges ==
  ASSUME TypeInv, NEW e \in Entries, NEW b \in BOOLEAN, icache' = [icache EXCEPT ![e].busy = b]
  PROVE  /\ icache' \in [Entries -> EntryType] /\ icache'[e].busy = b
         /\ \A f \in Entries :
              /\ f # e => icache'[f] = icache[f]
              /\ icache'[f].ref = icache[f].ref /\ icache'[f].inum = icache[f].inum
              /\ icache'[f].valid = icache[f].valid /\ icache'[f].alloc = icache[f].alloc
              /\ icache'[f].nlink = icache[f].nlink
<1>1. icache \in [Entries -> EntryType] /\ icache[e] \in EntryType
  BY Zenon DEF TypeInv
<1>. DEFINE x == [icache[e] EXCEPT !.busy = b]
<1>2. /\ x \in EntryType /\ x.busy = b /\ x.ref = icache[e].ref /\ x.inum = icache[e].inum
      /\ x.valid = icache[e].valid /\ x.alloc = icache[e].alloc /\ x.nlink = icache[e].nlink
  BY <1>1, Zenon DEF EntryType
<1>. HIDE DEF x
<1>3. /\ icache' \in [Entries -> EntryType] /\ icache'[e] = x
      /\ \A f \in Entries : f # e => icache'[f] = icache[f]
  BY <1>1, <1>2, Zenon DEF x
<1>. QED
  BY <1>2, <1>3

\* ilock of an inode that is busy: p sleeps, for a reason.
LEMMA IlockSleepKeeps ==
  ASSUME IInv, NEW p \in Procs, pr[p].at \in {"got", "ilock"}, icache[pr[p].ip].busy,
         pr' = [pr EXCEPT ![p] = [pr[p] EXCEPT !.at = "asleep"]], icache' = icache, disk' = disk, links' = links
  PROVE  IInv'
<1>1. /\ pr' \in [Procs -> ProcType]
      /\ pr'[p].at = "asleep" /\ pr'[p].ip = pr[p].ip /\ pr'[p].kept = pr[p].kept /\ pr'[p].inum = pr[p].inum
      /\ \A q \in Procs : q # p => pr'[q] = pr[q]
  <2>1. TypeInv /\ "asleep" \in Places
    BY Zenon DEF IInv, Places
  <2>. QED
    BY <2>1, PlaceChanges, Zenon
<1>2. TypeInv'
  BY <1>1, Zenon DEF IInv, TypeInv
<1>3. SamePointers
  BY <1>1 DEF SamePointers
<1>4. /\ PointerInv' /\ EntryInv'
      /\ \A e \in Entries : Pointed(e)' <=> Pointed(e)
      /\ \A q \in Procs : Sole(q)' <=> Sole(q)
  BY <1>3, PointersStay, Zenon
<1>5. HolderInv'
  <2>1. \A q \in Procs : pr'[q].at \in Holding \/ pr[q].at \in Holding => pr'[q] = pr[q]
    BY <1>1 DEF Holding
  <2>2. ASSUME NEW e \in Entries, icache'[e].busy PROVE \E q \in Procs : pr'[q].at \in Holding /\ pr'[q].ip = e
    <3>1. PICK q \in Procs : pr[q].at \in Holding /\ pr[q].ip = e
      BY <2>2, Zenon DEF IInv, HolderInv
    <3>2. pr'[q] = pr[q]
      BY <2>1, <3>1, Zenon
    <3>. QED
      BY <3>1, <3>2, Zenon
  <2>3. \A q \in Procs : pr'[q].at \in Holding => icache'[pr'[q].ip].busy
    BY <2>1 DEF IInv, HolderInv
  <2>4. \A q, s \in Procs : pr'[q].at \in Holding /\ pr'[s].at \in Holding /\ pr'[q].ip = pr'[s].ip => q = s
    BY <2>1, ZenonT(30) DEF IInv, HolderInv
  <2>. QED
    BY <2>2, <2>3, <2>4, Zenon DEF HolderInv
<1>6. SleeperHasReason'
  BY <1>1 DEF IInv, SleeperHasReason
<1>7. LinkInv' /\ FreshInv'
  BY <1>1 DEF IInv, LinkInv, FreshInv
<1>8. CopyInv'
  <2>1. \A q \in Procs : pr'[q].at \in {"locked", "itrunc", "freed", "ialloc"} \/ pr[q].at = "freed" => pr'[q] = pr[q]
    BY <1>1
  <2>2. \A e \in Entries : Leaving(e) => Leaving(e)'
    BY <1>4, <2>1 DEF Leaving
  <2>3. \A q \in Procs : pr'[q].at \in {"locked", "itrunc"} => icache'[pr'[q].ip].valid
    BY <2>1 DEF IInv, CopyInv
  <2>4. \A q \in Procs : pr'[q].at = "itrunc" => icache'[pr'[q].ip].nlink = 0 /\ Sole(q)'
    BY <1>4, <2>1 DEF IInv, CopyInv
  <2>5. ASSUME NEW e \in Entries, Pointed(e)', icache'[e].valid
        PROVE  \/ \E q \in Procs : pr'[q].at = "freed" /\ pr'[q].ip = e
               \/ icache'[e].alloc /\ disk'[icache'[e].inum].alloc /\ disk'[icache'[e].inum].nlink = icache'[e].nlink
    BY <1>4, <2>1, <2>5 DEF IInv, CopyInv
  <2>6. ASSUME NEW e \in Entries, Pointed(e)', ~disk'[icache'[e].inum].alloc PROVE Leaving(e)'
    BY <1>4, <2>2, <2>6 DEF IInv, CopyInv
  <2>7. ASSUME NEW e \in Entries, NEW q \in Procs, Pointed(e)', pr'[q].at = "ialloc", pr'[q].inum = icache'[e].inum
        PROVE  Leaving(e)'
    BY <1>4, <2>1, <2>2, <2>7 DEF IInv, CopyInv
  <2>. QED
    BY <2>3, <2>4, <2>5, <2>6, <2>7, Zenon DEF CopyInv
<1>. QED
  BY <1>2, <1>4, <1>5, <1>6, <1>7, <1>8, Zenon DEF IInv

\* p takes I_BUSY of an inode that is not busy: ilock, and iput that frees the inode.
LEMMA BusyKeeps ==
  ASSUME IInv, NEW p \in Procs, pr[p].at \in {"got", "ilock"}, ~icache[pr[p].ip].busy,
         icache' = [icache EXCEPT ![pr[p].ip].busy = TRUE], disk' = disk, links' = links,
         NEW a \in {"locked", "read", "itrunc"}, pr' = [pr EXCEPT ![p] = [pr[p] EXCEPT !.at = a]],
         a # "read" => icache[pr[p].ip].valid,
         a = "itrunc" => icache[pr[p].ip].nlink = 0 /\ Sole(p)
  PROVE  IInv'
<1>. DEFINE e == pr[p].ip
<1>0. TypeInv /\ e \in Entries /\ TRUE \in BOOLEAN /\ a \in Places
  BY HasEntry DEF IInv, Places
<1>1. /\ pr' \in [Procs -> ProcType]
      /\ pr'[p].at = a /\ pr'[p].ip = pr[p].ip /\ pr'[p].kept = pr[p].kept /\ pr'[p].inum = pr[p].inum
      /\ \A q \in Procs : q # p => pr'[q] = pr[q]
  BY <1>0, PlaceChanges, Zenon
<1>2. /\ icache' \in [Entries -> EntryType] /\ icache'[e].busy = TRUE
      /\ \A f \in Entries :
           /\ f # e => icache'[f] = icache[f]
           /\ icache'[f].ref = icache[f].ref /\ icache'[f].inum = icache[f].inum
           /\ icache'[f].valid = icache[f].valid /\ icache'[f].alloc = icache[f].alloc
           /\ icache'[f].nlink = icache[f].nlink
  BY <1>0, BusyChanges, Zenon
<1>3. TypeInv'
  BY <1>1, <1>2, Zenon DEF IInv, TypeInv
<1>4. SamePointers
  BY <1>1, <1>2 DEF SamePointers
<1>5. /\ PointerInv' /\ EntryInv'
      /\ \A f \in Entries : Pointed(f)' <=> Pointed(f)
      /\ \A q \in Procs : Sole(q)' <=> Sole(q)
  BY <1>4, PointersStay, Zenon
<1>6. HolderInv'
  <2>1. \A q \in Procs : q # p => pr'[q] = pr[q] /\ (pr[q].at \in Holding => pr[q].ip \in Entries /\ pr[q].ip # e)
    BY <1>1, HasEntry DEF IInv, HolderInv, Holding
  <2>2. pr'[p].at \in Holding /\ pr'[p].ip = e
    BY <1>1 DEF Holding
  <2>3. ASSUME NEW f \in Entries, icache'[f].busy PROVE \E q \in Procs : pr'[q].at \in Holding /\ pr'[q].ip = f
    <3>1. CASE f = e
      BY <2>2, <3>1
    <3>2. CASE f # e
      <4>1. PICK q \in Procs : pr[q].at \in Holding /\ pr[q].ip = f
        BY <1>2, <2>3, <3>2 DEF IInv, HolderInv
      <4>. QED
        BY <2>1, <3>2, <4>1
    <3>. QED
      BY <3>1, <3>2
  <2>4. ASSUME NEW q \in Procs, pr'[q].at \in Holding PROVE icache'[pr'[q].ip].busy
    BY <1>2, <2>1, <2>2, <2>4 DEF IInv, HolderInv
  <2>5. ASSUME NEW q \in Procs, NEW s \in Procs, pr'[q].at \in Holding, pr'[s].at \in Holding, pr'[q].ip = pr'[s].ip
        PROVE  q = s
    BY <2>1, <2>2, <2>5 DEF IInv, HolderInv
  <2>. QED
    BY <2>3, <2>4, <2>5, Zenon DEF HolderInv
<1>7. SleeperHasReason'
  BY <1>1, <1>2, HasEntry DEF IInv, SleeperHasReason
<1>8. LinkInv' /\ FreshInv'
  BY <1>1 DEF IInv, LinkInv, FreshInv
<1>9. CopyInv'
  <2>1. \A q \in Procs : pr'[q].at \in {"freed", "ialloc"} \/ pr[q].at = "freed" => pr'[q] = pr[q]
    BY <1>1
  <2>2. \A f \in Entries : Leaving(f) => Leaving(f)'
    BY <1>5, <2>1 DEF Leaving
  <2>3. \A q \in Procs : pr'[q].at \in {"locked", "itrunc"} => icache'[pr'[q].ip].valid
    BY <1>0, <1>1, <1>2, HasEntry DEF IInv, CopyInv
  <2>4. \A q \in Procs : pr'[q].at = "itrunc" => icache'[pr'[q].ip].nlink = 0 /\ Sole(q)'
    BY <1>0, <1>1, <1>2, <1>5, HasEntry DEF IInv, CopyInv
  <2>5. ASSUME NEW f \in Entries, Pointed(f)', icache'[f].valid
        PROVE  \/ \E q \in Procs : pr'[q].at = "freed" /\ pr'[q].ip = f
               \/ icache'[f].alloc /\ disk'[icache'[f].inum].alloc /\ disk'[icache'[f].inum].nlink = icache'[f].nlink
    BY <1>2, <1>5, <2>1, <2>5 DEF IInv, CopyInv
  <2>6. ASSUME NEW f \in Entries, Pointed(f)', ~disk'[icache'[f].inum].alloc PROVE Leaving(f)'
    BY <1>2, <1>5, <2>2, <2>6 DEF IInv, CopyInv
  <2>7. ASSUME NEW f \in Entries, NEW q \in Procs, Pointed(f)', pr'[q].at = "ialloc", pr'[q].inum = icache'[f].inum
        PROVE  Leaving(f)'
    BY <1>2, <1>5, <2>1, <2>2, <2>7 DEF IInv, CopyInv
  <2>. QED
    BY <2>3, <2>4, <2>5, <2>6, <2>7, Zenon DEF CopyInv
<1>. QED
  BY <1>3, <1>5, <1>6, <1>7, <1>8, <1>9, Zenon DEF IInv

\* ilock.
LEMMA IlockKeeps ==
  ASSUME IInv, NEW p \in Procs, ilock(p)
  PROVE  IInv'
<1>1. pr[p].at \in {"got", "ilock"} /\ disk' = disk /\ links' = links
  BY Zenon DEF ilock
<1>2. CASE icache[pr[p].ip].busy
  <2>1. pr' = [pr EXCEPT ![p] = [pr[p] EXCEPT !.at = "asleep"]] /\ icache' = icache
    BY <1>2, Zenon DEF ilock, To
  <2>. QED
    BY <1>1, <1>2, <2>1, IlockSleepKeeps, Zenon
<1>3. CASE ~icache[pr[p].ip].busy
  <2>. DEFINE a == IF icache[pr[p].ip].valid THEN "locked" ELSE "read"
  <2>1. pr' = [pr EXCEPT ![p] = [pr[p] EXCEPT !.at = a]] /\ icache' = [icache EXCEPT ![pr[p].ip].busy = TRUE]
    BY <1>3, Zenon DEF ilock, To
  <2>2. a \in {"locked", "read", "itrunc"} /\ (a # "read" => icache[pr[p].ip].valid) /\ a # "itrunc"
    OBVIOUS
  <2>. HIDE DEF a
  <2>. QED
    BY <1>1, <1>3, <2>1, <2>2, BusyKeeps, Zenon
<1>. QED
  BY <1>2, <1>3, Zenon

\* iput: with the last pointer to an inode without links p takes I_BUSY, to free it.
LEMMA IputKeeps ==
  ASSUME IInv, NEW p \in Procs, iput(p)
  PROVE  IInv'
<1>1. pr[p].at = "got" /\ disk' = disk /\ links' = links /\ pr[p].ip \in Entries
  BY HasEntry DEF iput
<1>2. CASE icache[pr[p].ip].ref = 1 /\ icache[pr[p].ip].valid /\ icache[pr[p].ip].nlink = 0
  <2>1. /\ ~icache[pr[p].ip].busy /\ icache' = [icache EXCEPT ![pr[p].ip].busy = TRUE]
        /\ pr' = [pr EXCEPT ![p] = [pr[p] EXCEPT !.at = "itrunc"]]
    BY <1>2, Zenon DEF iput, To
  <2>2. Sole(p)
    BY <1>1, <1>2, Referenced, Zenon
  <2>3. "itrunc" \in {"locked", "read", "itrunc"}
    OBVIOUS
  <2>. QED
    BY <1>1, <1>2, <2>1, <2>2, <2>3, BusyKeeps, Zenon
<1>3. CASE ~(icache[pr[p].ip].ref = 1 /\ icache[pr[p].ip].valid /\ icache[pr[p].ip].nlink = 0)
  <2>1. /\ icache' = [icache EXCEPT ![pr[p].ip].ref = icache[pr[p].ip].ref - 1]
        /\ pr' = [pr EXCEPT ![p] = [pr[p] EXCEPT !.at = "idle", !.ip = Null, !.job = "none"]]
    BY <1>3 DEF iput, To
  <2>. QED
    BY <1>1, <2>1, IputDropKeeps, Zenon
<1>. QED
  BY <1>2, <1>3, Zenon

\* The holder p of an entry alone changes its copy, and with it the inode on disk, and
\* goes on with the same pointers: ilock, relink and iput_free.
LEMMA HolderKeeps ==
  ASSUME IInv, NEW p \in Procs, NEW e \in Entries, pr[p].ip = e, pr[p].at \in Holding,
         icache' \in [Entries -> EntryType], \A f \in Entries : f # e => icache'[f] = icache[f],
         icache'[e].ref = icache[e].ref, icache'[e].inum = icache[e].inum, icache'[e].busy = icache[e].busy,
         disk' \in [Inums -> [alloc : BOOLEAN, nlink : Nat]], links' \in [Inums -> Nat],
         \A i \in Inums : i # icache[e].inum => disk'[i] = disk[i] /\ links'[i] = links[i],
         NEW r \in ProcType, pr' = [pr EXCEPT ![p] = r], r.ip = e, r.kept = pr[p].kept,
         r.at \in {"locked", "freed"}, r.at = "locked" => icache'[e].valid,
         LET i == icache[e].inum IN
           /\ disk'[i].nlink = links'[i] /\ (~disk'[i].alloc => links'[i] = 0)
           /\ r.at = "locked" => icache'[e].alloc /\ disk'[i].alloc /\ disk'[i].nlink = icache'[e].nlink
           /\ r.at = "freed" => Sole(p) /\ ~disk'[i].alloc,
         ~Leaving(e)
  PROVE  IInv'
<1>. DEFINE i == icache[e].inum
<1>1. pr' \in [Procs -> ProcType] /\ pr'[p] = r /\ \A q \in Procs : q # p => pr'[q] = pr[q]
  BY ProcChanges, Zenon DEF IInv
<1>2. TypeInv'
  BY <1>1, Zenon DEF TypeInv
<1>3. SamePointers
  BY <1>1 DEF SamePointers, Holding
<1>4. /\ PointerInv' /\ EntryInv'
      /\ \A f \in Entries : Pointed(f)' <=> Pointed(f)
      /\ \A q \in Procs : Sole(q)' <=> Sole(q)
  BY <1>3, PointersStay, Zenon
<1>5. Pointed(e) /\ i \in Inums /\ \A f \in Entries : f # e /\ Pointed(f) => icache[f].inum \in Inums /\ icache[f].inum # i
  BY DEF IInv, EntryInv, Pointed
<1>6. \A f \in Entries : icache'[f].busy = icache[f].busy
  OBVIOUS
<1>7. HolderInv'
  <2>1. \A q \in Procs : (pr'[q].at \in Holding <=> pr[q].at \in Holding) /\ pr'[q].ip = pr[q].ip
    BY <1>1 DEF Holding
  <2>2. \A q \in Procs : pr[q].at \in Holding => pr[q].ip \in Entries
    BY HasEntry DEF Holding
  <2>. QED
    BY <1>6, <2>1, <2>2 DEF IInv, HolderInv
<1>8. SleeperHasReason'
  BY <1>1, <1>6, HasEntry DEF IInv, SleeperHasReason
<1>9. LinkInv'
  BY <1>5 DEF IInv, LinkInv
<1>10. \A q \in Procs : pr[q].at = "ialloc" => pr[q].inum \in Inums /\ pr[q].inum # i
  BY <1>5 DEF IInv, FreshInv, CopyInv
<1>11. \A q \in Procs : pr'[q].at = "ialloc" => q # p /\ pr'[q] = pr[q]
  BY <1>1
<1>12. FreshInv'
  BY <1>10, <1>11 DEF IInv, FreshInv
<1>13. CopyInv'
  <2>1. \A q \in Procs : q # p /\ pr[q].at \in Holding => pr'[q] = pr[q] /\ pr[q].ip \in Entries /\ pr[q].ip # e
    BY <1>1, HasEntry DEF IInv, HolderInv, Holding
  <2>2. \A f \in Entries : f # e /\ Leaving(f) => Leaving(f)'
    BY <1>4, <2>1 DEF Leaving, Holding
  <2>3. \A q \in Procs : pr'[q].at \in {"locked", "itrunc"} => icache'[pr'[q].ip].valid
    BY <1>1, <2>1 DEF IInv, CopyInv, Holding
  <2>4. \A q \in Procs : pr'[q].at = "itrunc" => icache'[pr'[q].ip].nlink = 0 /\ Sole(q)'
    BY <1>1, <1>4, <2>1 DEF IInv, CopyInv, Holding
  <2>5. ASSUME NEW f \in Entries, Pointed(f)', icache'[f].valid
        PROVE  \/ \E q \in Procs : pr'[q].at = "freed" /\ pr'[q].ip = f
               \/ icache'[f].alloc /\ disk'[icache'[f].inum].alloc /\ disk'[icache'[f].inum].nlink = icache'[f].nlink
    <3>1. CASE f = e
      BY <1>1, <3>1
    <3>2. CASE f # e
      <4>1. /\ Pointed(f) /\ icache'[f] = icache[f] /\ disk'[icache[f].inum] = disk[icache[f].inum]
        BY <1>4, <1>5, <2>5, <3>2
      <4>2. CASE \E q \in Procs : pr[q].at = "freed" /\ pr[q].ip = f
        BY <1>1, <3>2, <4>2
      <4>3. CASE icache[f].alloc /\ disk[icache[f].inum].alloc /\ disk[icache[f].inum].nlink = icache[f].nlink
        BY <4>1, <4>3
      <4>. QED
        BY <2>5, <4>1, <4>2, <4>3 DEF IInv, CopyInv
    <3>. QED
      BY <3>1, <3>2
  <2>6. ASSUME NEW f \in Entries, Pointed(f)', ~disk'[icache'[f].inum].alloc PROVE Leaving(f)'
    <3>1. CASE f = e
      BY <1>1, <1>4, <2>6, <3>1 DEF Leaving
    <3>2. CASE f # e
      BY <1>4, <1>5, <2>2, <2>6, <3>2 DEF IInv, CopyInv
    <3>. QED
      BY <3>1, <3>2
  <2>7. ASSUME NEW f \in Entries, NEW q \in Procs, Pointed(f)', pr'[q].at = "ialloc", pr'[q].inum = icache'[f].inum
        PROVE  Leaving(f)'
    <3>1. f # e /\ pr'[q] = pr[q] /\ pr[q].at = "ialloc"
      BY <1>10, <1>11, <2>7
    <3>. QED
      BY <1>4, <2>2, <2>7, <3>1 DEF IInv, CopyInv
  <2>. QED
    BY <2>3, <2>4, <2>5, <2>6, <2>7, ZenonT(30) DEF CopyInv
<1>. QED
  BY <1>2, <1>4, <1>7, <1>8, <1>9, <1>12, <1>13, Zenon DEF IInv

\* Who has the inode is the only one who has, so nobody else is freeing it.
LEMMA HolderAlone ==
  ASSUME IInv, NEW p \in Procs, pr[p].at \in {"read", "locked", "itrunc"}
  PROVE  /\ pr[p].ip \in Entries /\ Pointed(pr[p].ip) /\ icache[pr[p].ip].inum \in Inums
         /\ ~\E q \in Procs : pr[q].at = "freed" /\ pr[q].ip = pr[p].ip
         /\ ~Leaving(pr[p].ip)
<1>1. pr[p].ip \in Entries /\ Pointed(pr[p].ip)
  BY HasEntry
<1>2. ~\E q \in Procs : pr[q].at = "freed" /\ pr[q].ip = pr[p].ip
  BY DEF IInv, HolderInv, Holding
<1>. QED
  BY <1>1, <1>2 DEF IInv, EntryInv, Leaving

\* ilock reads the inode.
LEMMA IlockReadKeeps ==
  ASSUME IInv, NEW p \in Procs, ilock_read(p)
  PROVE  IInv'
<1>. DEFINE e == pr[p].ip
            n == disk[icache[e].inum].nlink
            x == [icache[e] EXCEPT !.valid = TRUE, !.alloc = TRUE, !.nlink = n]
            r == [pr[p] EXCEPT !.at = "locked"]
<1>1. /\ pr[p].at = "read" /\ disk[icache[e].inum].alloc /\ disk' = disk /\ links' = links
      /\ pr' = [pr EXCEPT ![p] = r]
      /\ icache' = [icache EXCEPT ![e].valid = TRUE, ![e].alloc = TRUE, ![e].nlink = n]
  BY Zenon DEF ilock_read, To
<1>2. e \in Entries /\ Pointed(e) /\ icache[e].inum \in Inums /\ ~Leaving(e) /\ pr[p].at \in Holding
  BY <1>1, HolderAlone DEF Holding
<1>3. icache \in [Entries -> EntryType] /\ pr[p] \in ProcType /\ icache[e] \in EntryType /\ n \in Nat
  BY <1>2 DEF IInv, TypeInv
<1>4. /\ x \in EntryType /\ x.ref = icache[e].ref /\ x.inum = icache[e].inum /\ x.busy = icache[e].busy
      /\ x.valid = TRUE /\ x.alloc = TRUE /\ x.nlink = n
  BY <1>3, Zenon DEF EntryType
<1>5. icache' = [icache EXCEPT ![e] = x]
  BY <1>1, <1>3, Zenon
<1>6. r \in ProcType /\ r.ip = e /\ r.kept = pr[p].kept /\ r.at = "locked"
  BY <1>3 DEF ProcType, Places
<1>7. /\ disk \in [Inums -> [alloc : BOOLEAN, nlink : Nat]] /\ links \in [Inums -> Nat]
      /\ n = links[icache[e].inum] /\ (~disk[icache[e].inum].alloc => links[icache[e].inum] = 0)
  BY <1>2 DEF IInv, TypeInv, LinkInv
<1>. HIDE DEF x, r
<1>8. icache' \in [Entries -> EntryType] /\ icache'[e] = x /\ \A f \in Entries : f # e => icache'[f] = icache[f]
  BY <1>2, <1>3, <1>4, <1>5, Zenon
<1>p. /\ pr[p].ip = e /\ e \in Entries /\ icache'[e].ref = icache[e].ref /\ icache'[e].inum = icache[e].inum
      /\ icache'[e].busy = icache[e].busy /\ pr[p].at \in Holding /\ ~Leaving(e)
  BY <1>2, <1>4, <1>8, Zenon
<1>d. /\ disk' \in [Inums -> [alloc : BOOLEAN, nlink : Nat]] /\ links' \in [Inums -> Nat]
      /\ \A j \in Inums : j # icache[e].inum => disk'[j] = disk[j] /\ links'[j] = links[j]
  BY <1>1, <1>7, ZenonT(30)
<1>l. LET j == icache[e].inum IN
        /\ disk'[j].nlink = links'[j] /\ (~disk'[j].alloc => links'[j] = 0)
        /\ r.at = "locked" => icache'[e].alloc /\ disk'[j].alloc /\ disk'[j].nlink = icache'[e].nlink
        /\ r.at = "freed" => Sole(p) /\ ~disk'[j].alloc
  BY <1>1, <1>4, <1>6, <1>7, <1>8, ZenonT(30)
<1>v. r \in ProcType /\ r.ip = e /\ r.kept = pr[p].kept /\ r.at \in {"locked", "freed"} /\ (r.at = "locked" => icache'[e].valid)
  BY <1>4, <1>6, <1>8
<1>c. /\ icache' \in [Entries -> EntryType] /\ \A f \in Entries : f # e => icache'[f] = icache[f]
      /\ pr' = [pr EXCEPT ![p] = r]
  BY <1>1, <1>8, ZenonT(30)
<1>. QED
  BY ONLY IInv, p \in Procs, <1>p, <1>d, <1>l, <1>v, <1>c, HolderKeeps, Zenon

\* What a process has locked, or is about to free, is allocated and is as on disk.
LEMMA HeldCopy ==
  ASSUME IInv, NEW p \in Procs, pr[p].at \in {"locked", "itrunc"}
  PROVE  LET e == pr[p].ip IN
         /\ icache[e].valid /\ icache[e].alloc /\ disk[icache[e].inum].alloc
         /\ disk[icache[e].inum].nlink = icache[e].nlink /\ links[icache[e].inum] = icache[e].nlink
<1>1. /\ pr[p].ip \in Entries /\ Pointed(pr[p].ip) /\ icache[pr[p].ip].inum \in Inums /\ icache[pr[p].ip].valid
      /\ ~\E q \in Procs : pr[q].at = "freed" /\ pr[q].ip = pr[p].ip
  BY HolderAlone DEF IInv, CopyInv
<1>. QED
  BY <1>1 DEF IInv, CopyInv, LinkInv

\* create, sys_link and sys_unlink: nlink, the inode on disk and the directory entries
\* change together.
LEMMA RelinkKeeps ==
  ASSUME IInv, NEW p \in Procs, NEW n \in 0 .. MaxLinks, relink(p, n)
  PROVE  IInv'
<1>. DEFINE e == pr[p].ip
            i == icache[e].inum
            x == [icache[e] EXCEPT !.nlink = n]
            d == [alloc |-> icache[e].alloc, nlink |-> n]
            r == [pr[p] EXCEPT !.job = IF pr[p].job = "fresh" THEN "made" ELSE "relinked"]
<1>1. /\ pr[p].at = "locked" /\ icache' = [icache EXCEPT ![e] = x] /\ disk' = [disk EXCEPT ![i] = d]
      /\ links' = [links EXCEPT ![i] = n] /\ pr' = [pr EXCEPT ![p] = r]
  BY DEF relink, iupdate, To
<1>2. /\ e \in Entries /\ Pointed(e) /\ i \in Inums /\ ~Leaving(e) /\ pr[p].at \in Holding
      /\ icache[e].valid /\ icache[e].alloc
  BY <1>1, HolderAlone, HeldCopy DEF Holding
<1>3. /\ icache \in [Entries -> EntryType] /\ pr[p] \in ProcType /\ icache[e] \in EntryType /\ n \in Nat
      /\ disk \in [Inums -> [alloc : BOOLEAN, nlink : Nat]] /\ links \in [Inums -> Nat]
  BY <1>2, InodeAssumption DEF IInv, TypeInv
<1>4. /\ x \in EntryType /\ x.ref = icache[e].ref /\ x.inum = i /\ x.busy = icache[e].busy
      /\ x.valid = icache[e].valid /\ x.alloc = icache[e].alloc /\ x.nlink = n
  BY <1>3, Zenon DEF EntryType
<1>5. d \in [alloc : BOOLEAN, nlink : Nat] /\ d.alloc = icache[e].alloc /\ d.nlink = n
  BY <1>3 DEF EntryType
<1>6. r \in ProcType /\ r.ip = e /\ r.kept = pr[p].kept /\ r.at = "locked"
  BY <1>1, <1>3 DEF ProcType
<1>. HIDE DEF x, d, r
<1>7. icache' \in [Entries -> EntryType] /\ icache'[e] = x /\ \A f \in Entries : f # e => icache'[f] = icache[f]
  BY <1>1, <1>2, <1>3, <1>4, Zenon
<1>8. /\ disk' \in [Inums -> [alloc : BOOLEAN, nlink : Nat]] /\ disk'[i] = d
      /\ \A j \in Inums : j # i => disk'[j] = disk[j]
  BY <1>1, <1>2, <1>3, <1>5, Zenon
<1>9. links' \in [Inums -> Nat] /\ links'[i] = n /\ \A j \in Inums : j # i => links'[j] = links[j]
  BY <1>1, <1>2, <1>3, Zenon
<1>p. /\ pr[p].ip = e /\ e \in Entries /\ icache'[e].ref = icache[e].ref /\ icache'[e].inum = icache[e].inum
      /\ icache'[e].busy = icache[e].busy /\ pr[p].at \in Holding /\ ~Leaving(e)
  BY <1>2, <1>4, <1>7, Zenon
<1>d. /\ disk' \in [Inums -> [alloc : BOOLEAN, nlink : Nat]] /\ links' \in [Inums -> Nat]
      /\ \A j \in Inums : j # icache[e].inum => disk'[j] = disk[j] /\ links'[j] = links[j]
  BY <1>8, <1>9, Zenon
<1>l. LET j == icache[e].inum IN
        /\ disk'[j].nlink = links'[j] /\ (~disk'[j].alloc => links'[j] = 0)
        /\ r.at = "locked" => icache'[e].alloc /\ disk'[j].alloc /\ disk'[j].nlink = icache'[e].nlink
        /\ r.at = "freed" => Sole(p) /\ ~disk'[j].alloc
  BY <1>2, <1>4, <1>5, <1>6, <1>7, <1>8, <1>9, ZenonT(30)
<1>v. r \in ProcType /\ r.ip = e /\ r.kept = pr[p].kept /\ r.at \in {"locked", "freed"} /\ (r.at = "locked" => icache'[e].valid)
  BY <1>2, <1>4, <1>6, <1>7, ZenonT(30)
<1>c. /\ icache' \in [Entries -> EntryType] /\ \A f \in Entries : f # e => icache'[f] = icache[f]
      /\ pr' = [pr EXCEPT ![p] = r]
  BY <1>1, <1>7, ZenonT(30)
<1>. QED
  BY ONLY IInv, p \in Procs, <1>p, <1>d, <1>l, <1>v, <1>c, HolderKeeps, Zenon

\* iput frees the inode on disk, which no directory entry names.
LEMMA IputFreeKeeps ==
  ASSUME IInv, NEW p \in Procs, iput_free(p)
  PROVE  IInv'
<1>. DEFINE e == pr[p].ip
            i == icache[e].inum
            x == [icache[e] EXCEPT !.alloc = FALSE]
            d == [alloc |-> FALSE, nlink |-> icache[e].nlink]
            r == [pr[p] EXCEPT !.at = "freed"]
<1>1. /\ pr[p].at = "itrunc" /\ icache' = [icache EXCEPT ![e] = x] /\ disk' = [disk EXCEPT ![i] = d]
      /\ links' = links /\ pr' = [pr EXCEPT ![p] = r]
  BY DEF iput_free, To
<1>2. /\ e \in Entries /\ Pointed(e) /\ i \in Inums /\ ~Leaving(e) /\ pr[p].at \in Holding
      /\ links[i] = icache[e].nlink
  BY <1>1, HolderAlone, HeldCopy DEF Holding
<1>3. /\ icache \in [Entries -> EntryType] /\ pr[p] \in ProcType /\ icache[e] \in EntryType
      /\ disk \in [Inums -> [alloc : BOOLEAN, nlink : Nat]] /\ links \in [Inums -> Nat]
  BY <1>2 DEF IInv, TypeInv
<1>4. /\ x \in EntryType /\ x.ref = icache[e].ref /\ x.inum = i /\ x.busy = icache[e].busy
  BY <1>3, Zenon DEF EntryType
<1>5. d \in [alloc : BOOLEAN, nlink : Nat] /\ d.alloc = FALSE /\ d.nlink = icache[e].nlink
  BY <1>3 DEF EntryType
<1>6. r \in ProcType /\ r.ip = e /\ r.kept = pr[p].kept /\ r.at = "freed"
  BY <1>1, <1>3 DEF ProcType, Places
<1>7. icache[e].nlink = 0 /\ Sole(p)
  BY <1>1 DEF IInv, CopyInv
<1>. HIDE DEF x, d, r
<1>8. icache' \in [Entries -> EntryType] /\ icache'[e] = x /\ \A f \in Entries : f # e => icache'[f] = icache[f]
  BY <1>1, <1>2, <1>3, <1>4, Zenon
<1>9. /\ disk' \in [Inums -> [alloc : BOOLEAN, nlink : Nat]] /\ disk'[i] = d
      /\ \A j \in Inums : j # i => disk'[j] = disk[j]
  BY <1>1, <1>2, <1>3, <1>5, Zenon
<1>p. /\ pr[p].ip = e /\ e \in Entries /\ icache'[e].ref = icache[e].ref /\ icache'[e].inum = icache[e].inum
      /\ icache'[e].busy = icache[e].busy /\ pr[p].at \in Holding /\ ~Leaving(e)
  BY <1>2, <1>4, <1>8, Zenon
<1>d. /\ disk' \in [Inums -> [alloc : BOOLEAN, nlink : Nat]] /\ links' \in [Inums -> Nat]
      /\ \A j \in Inums : j # icache[e].inum => disk'[j] = disk[j] /\ links'[j] = links[j]
  BY <1>1, <1>3, <1>9, ZenonT(30)
<1>l. LET j == icache[e].inum IN
        /\ disk'[j].nlink = links'[j] /\ (~disk'[j].alloc => links'[j] = 0)
        /\ r.at = "locked" => icache'[e].alloc /\ disk'[j].alloc /\ disk'[j].nlink = icache'[e].nlink
        /\ r.at = "freed" => Sole(p) /\ ~disk'[j].alloc
  BY <1>1, <1>2, <1>5, <1>6, <1>7, <1>9
<1>v. r \in ProcType /\ r.ip = e /\ r.kept = pr[p].kept /\ r.at \in {"locked", "freed"} /\ (r.at = "locked" => icache'[e].valid)
  BY <1>6
<1>c. /\ icache' \in [Entries -> EntryType] /\ \A f \in Entries : f # e => icache'[f] = icache[f]
      /\ pr' = [pr EXCEPT ![p] = r]
  BY <1>1, <1>8, Zenon
<1>. QED
  BY ONLY IInv, p \in Procs, <1>p, <1>d, <1>l, <1>v, <1>c, HolderKeeps, Zenon

\* ialloc marks a free inode allocated: an entry that still holds it is being given up.
LEMMA IallocKeeps ==
  ASSUME IInv, NEW p \in Procs, ialloc(p)
  PROVE  IInv'
<1>. DEFINE i == Min(FreeInums)
            d == [alloc |-> TRUE, nlink |-> 0]
            r == [pr[p] EXCEPT !.at = "ialloc", !.inum = i]
<1>1. /\ pr[p].at = "idle" /\ FreeInums # {} /\ disk' = [disk EXCEPT ![i] = d]
      /\ icache' = icache /\ links' = links /\ pr' = [pr EXCEPT ![p] = r]
  BY DEF ialloc, To
<1>2. i \in Inums /\ ~disk[i].alloc
  <2>1. FreeInums \subseteq Nat
    BY InodeAssumption DEF FreeInums, Inums
  <2>2. i \in FreeInums
    BY <1>1, <2>1, MinIn, Zenon
  <2>. QED
    BY <2>2, Zenon DEF FreeInums
<1>3. pr[p] \in ProcType /\ disk \in [Inums -> [alloc : BOOLEAN, nlink : Nat]] /\ d \in [alloc : BOOLEAN, nlink : Nat]
  BY DEF IInv, TypeInv
<1>4. r \in ProcType /\ r.at = "ialloc" /\ r.ip = pr[p].ip /\ r.kept = pr[p].kept /\ r.inum = i
  BY <1>2, <1>3, Zenon DEF ProcType, Places
<1>5. links[i] = 0 /\ d.alloc = TRUE /\ d.nlink = 0
  BY <1>2 DEF IInv, LinkInv
<1>. HIDE DEF i, d, r
<1>6. pr' \in [Procs -> ProcType] /\ pr'[p] = r /\ \A q \in Procs : q # p => pr'[q] = pr[q]
  BY <1>1, <1>4, ProcChanges, Zenon DEF IInv
<1>7. /\ disk' \in [Inums -> [alloc : BOOLEAN, nlink : Nat]] /\ disk'[i] = d
      /\ \A j \in Inums : j # i => disk'[j] = disk[j]
  BY <1>1, <1>2, <1>3, Zenon
<1>8. TypeInv'
  BY <1>1, <1>6, <1>7, Zenon DEF IInv, TypeInv
<1>9. SamePointers
  BY <1>1, <1>4, <1>6 DEF SamePointers
<1>10. /\ PointerInv' /\ EntryInv'
       /\ \A f \in Entries : Pointed(f)' <=> Pointed(f)
       /\ \A q \in Procs : Sole(q)' <=> Sole(q)
  BY <1>9, PointersStay, Zenon
<1>11. \A q \in Procs : pr'[q].at # "ialloc" \/ pr[q].at # "idle" => q # p /\ pr'[q] = pr[q]
  BY <1>1, <1>4, <1>6
<1>12. HolderInv' /\ SleeperHasReason'
  <2>1. \A q \in Procs : pr'[q].at \in Holding \/ pr[q].at \in Holding => pr'[q] = pr[q]
    BY <1>11 DEF Holding
  <2>2. ASSUME NEW e \in Entries, icache'[e].busy PROVE \E q \in Procs : pr'[q].at \in Holding /\ pr'[q].ip = e
    <3>1. PICK q \in Procs : pr[q].at \in Holding /\ pr[q].ip = e
      BY <1>1, <2>2, Zenon DEF IInv, HolderInv
    <3>2. pr'[q] = pr[q]
      BY <2>1, <3>1, Zenon
    <3>. QED
      BY <3>1, <3>2
  <2>3. \A q \in Procs : pr'[q].at \in Holding => icache'[pr'[q].ip].busy
    BY <1>1, <2>1 DEF IInv, HolderInv
  <2>4. \A q, s \in Procs : pr'[q].at \in Holding /\ pr'[s].at \in Holding /\ pr'[q].ip = pr'[s].ip => q = s
    BY <2>1 DEF IInv, HolderInv
  <2>5. SleeperHasReason'
    BY <1>1, <1>11 DEF IInv, SleeperHasReason
  <2>. QED
    BY <2>2, <2>3, <2>4, <2>5, Zenon DEF HolderInv
<1>13. LinkInv'
  BY <1>1, <1>5, <1>7 DEF IInv, LinkInv
<1>14. FreshInv'
  <2>1. ASSUME NEW q \in Procs, pr'[q].at = "ialloc"
        PROVE  pr'[q].inum \in Inums /\ disk'[pr'[q].inum].alloc /\ links'[pr'[q].inum] = 0
    <3>1. CASE q = p
      BY <1>1, <1>2, <1>4, <1>5, <1>6, <1>7, <3>1
    <3>2. CASE q # p
      BY <1>1, <1>5, <1>6, <1>7, <2>1, <3>2 DEF IInv, FreshInv
    <3>. QED
      BY <3>1, <3>2
  <2>2. ASSUME NEW q \in Procs, NEW s \in Procs, pr'[q].at = "ialloc", pr'[s].at = "ialloc", pr'[q].inum = pr'[s].inum
        PROVE  q = s
    <3>1. \A t \in Procs : t # p /\ pr'[t].at = "ialloc" => pr'[t] = pr[t] /\ pr'[t].inum # i
      BY <1>2, <1>6 DEF IInv, FreshInv
    <3>. QED
      BY <1>4, <1>6, <2>2, <3>1 DEF IInv, FreshInv
  <2>. QED
    BY <2>1, <2>2, Zenon DEF FreshInv
<1>15. CopyInv'
  <2>1. \A f \in Entries : Leaving(f) => Leaving(f)'
    BY <1>10, <1>11 DEF Leaving
  <2>2. \A q \in Procs : pr'[q].at \in {"locked", "itrunc"} => icache'[pr'[q].ip].valid
    BY <1>1, <1>11 DEF IInv, CopyInv
  <2>3. \A q \in Procs : pr'[q].at = "itrunc" => icache'[pr'[q].ip].nlink = 0 /\ Sole(q)'
    BY <1>1, <1>10, <1>11 DEF IInv, CopyInv
  <2>4. ASSUME NEW f \in Entries, Pointed(f)', icache'[f].valid
        PROVE  \/ \E q \in Procs : pr'[q].at = "freed" /\ pr'[q].ip = f
               \/ icache'[f].alloc /\ disk'[icache'[f].inum].alloc /\ disk'[icache'[f].inum].nlink = icache'[f].nlink
    <3>0. Pointed(f) /\ icache[f].valid /\ icache[f].inum \in Inums
      BY <1>1, <1>10, <2>4 DEF IInv, EntryInv
    <3>1. CASE \E q \in Procs : pr[q].at = "freed" /\ pr[q].ip = f
      BY <1>11, <3>1
    <3>2. CASE icache[f].alloc /\ disk[icache[f].inum].alloc /\ disk[icache[f].inum].nlink = icache[f].nlink
      BY <1>1, <1>2, <1>7, <3>0, <3>2
    <3>. QED
      BY <3>0, <3>1, <3>2 DEF IInv, CopyInv
  <2>5. ASSUME NEW f \in Entries, Pointed(f)', ~disk'[icache'[f].inum].alloc PROVE Leaving(f)'
    <3>1. Pointed(f) /\ icache[f].inum \in Inums
      BY <1>10, <2>5 DEF IInv, EntryInv
    <3>2. ~disk[icache[f].inum].alloc
      BY <1>1, <1>5, <1>7, <2>5, <3>1
    <3>. QED
      BY <2>1, <3>1, <3>2 DEF IInv, CopyInv
  <2>6. ASSUME NEW f \in Entries, NEW q \in Procs, Pointed(f)', pr'[q].at = "ialloc", pr'[q].inum = icache'[f].inum
        PROVE  Leaving(f)'
    <3>1. Pointed(f)
      BY <1>10, <2>6
    <3>2. CASE q = p
      <4>1. ~disk[icache[f].inum].alloc
        BY <1>1, <1>2, <1>4, <1>6, <2>6, <3>2
      <4>. QED
        BY <2>1, <3>1, <4>1 DEF IInv, CopyInv
    <3>3. CASE q # p
      BY <1>1, <1>6, <2>1, <2>6, <3>1, <3>3 DEF IInv, CopyInv
    <3>. QED
      BY <3>2, <3>3
  <2>. QED
    BY <2>2, <2>3, <2>4, <2>5, <2>6, Zenon DEF CopyInv
<1>. QED
  BY <1>8, <1>10, <1>12, <1>13, <1>14, <1>15, Zenon DEF IInv

\* wakeup moves who sleeps on e, and nobody else.
LEMMA WakeupDoes ==
  ASSUME NEW e, NEW s \in [Procs -> ProcType]
  PROVE  /\ Wakeup(e, s) \in [Procs -> ProcType]
         /\ \A q \in Procs : /\ Wakeup(e, s)[q].ip = s[q].ip /\ Wakeup(e, s)[q].kept = s[q].kept
                             /\ Wakeup(e, s)[q].inum = s[q].inum
                             /\ Wakeup(e, s)[q].at = IF s[q].at = "asleep" /\ s[q].ip = e THEN "ilock" ELSE s[q].at
<1>. DEFINE w(q) == IF s[q].at = "asleep" /\ s[q].ip = e THEN [s[q] EXCEPT !.at = "ilock"] ELSE s[q]
<1>1. ASSUME NEW q \in Procs
      PROVE  /\ w(q) \in ProcType /\ w(q).ip = s[q].ip /\ w(q).kept = s[q].kept /\ w(q).inum = s[q].inum
             /\ w(q).at = IF s[q].at = "asleep" /\ s[q].ip = e THEN "ilock" ELSE s[q].at
  <2>1. s[q] \in ProcType
    BY Zenon
  <2>. QED
    BY <2>1 DEF ProcType, Places
<1>2. Wakeup(e, s) = [q \in Procs |-> w(q)]
  BY Zenon DEF Wakeup
<1>. HIDE DEF w
<1>3. Wakeup(e, s) \in [Procs -> ProcType] /\ \A q \in Procs : Wakeup(e, s)[q] = w(q)
  BY <1>1, <1>2, Zenon
<1>. QED
  BY <1>1, <1>3, Zenon

\* iunlock: the inode is nobody's, and nobody sleeps for it.
LEMMA IunlockKeeps ==
  ASSUME IInv, NEW p \in Procs, iunlock(p)
  PROVE  IInv'
<1>. DEFINE r == [pr EXCEPT ![p].at = "got"]
<1>0. /\ pr[p].at = "locked" /\ icache' = [icache EXCEPT ![pr[p].ip].busy = FALSE] /\ pr' = Wakeup(pr[p].ip, r)
      /\ disk' = disk /\ links' = links
  BY Zenon DEF iunlock
<1>2. TypeInv /\ pr[p].ip \in Entries /\ FALSE \in BOOLEAN
  BY <1>0, HasEntry DEF IInv
<1>r. /\ r \in [Procs -> ProcType]
      /\ r[p].at = "got" /\ r[p].ip = pr[p].ip /\ r[p].kept = pr[p].kept /\ r[p].inum = pr[p].inum
      /\ \A q \in Procs : q # p => r[q] = pr[q]
  BY <1>2 DEF TypeInv, ProcType, Places
<1>. HIDE DEF r
<1>e. PICK e \in Entries : e = pr[p].ip
  BY <1>2, Zenon
<1>s. PICK s \in [Procs -> ProcType] : s = r
  BY <1>r, Zenon
<1>1. pr[p].at = "locked" /\ icache' = [icache EXCEPT ![e].busy = FALSE] /\ pr' = Wakeup(e, s) /\ disk' = disk /\ links' = links
  BY <1>0, <1>e, <1>s, Zenon
<1>3. /\ icache' \in [Entries -> EntryType] /\ icache'[e].busy = FALSE
      /\ \A f \in Entries :
           /\ f # e => icache'[f] = icache[f]
           /\ icache'[f].ref = icache[f].ref /\ icache'[f].inum = icache[f].inum
           /\ icache'[f].valid = icache[f].valid /\ icache'[f].alloc = icache[f].alloc
           /\ icache'[f].nlink = icache[f].nlink
  BY <1>1, <1>2, BusyChanges, Zenon
<1>4. /\ s[p].at = "got" /\ s[p].ip = pr[p].ip /\ s[p].kept = pr[p].kept /\ s[p].inum = pr[p].inum
      /\ \A q \in Procs : q # p => s[q] = pr[q]
  BY <1>r, <1>s, Zenon
<1>5. /\ pr' \in [Procs -> ProcType]
      /\ \A q \in Procs : /\ pr'[q].ip = s[q].ip /\ pr'[q].kept = s[q].kept /\ pr'[q].inum = s[q].inum
                          /\ pr'[q].at = IF s[q].at = "asleep" /\ s[q].ip = e THEN "ilock" ELSE s[q].at
  BY <1>1, WakeupDoes
<1>6. /\ \A q \in Procs : pr'[q].ip = pr[q].ip /\ pr'[q].kept = pr[q].kept /\ pr'[q].inum = pr[q].inum
      /\ pr'[p].at = "got" /\ pr[p].ip = e
      /\ \A q \in Procs : q # p => pr'[q].at = pr[q].at \/ (pr[q].at = "asleep" /\ pr'[q].at = "ilock")
      /\ \A q \in Procs : pr'[q].at = "asleep" => pr[q].at = "asleep" /\ pr[q].ip # e
  BY <1>e, <1>4, <1>5
<1>7. TypeInv'
  BY <1>1, <1>3, <1>5, Zenon DEF IInv, TypeInv
<1>8. SamePointers
  BY <1>1, <1>3, <1>6 DEF SamePointers
<1>9. /\ PointerInv' /\ EntryInv'
      /\ \A f \in Entries : Pointed(f)' <=> Pointed(f)
      /\ \A q \in Procs : Sole(q)' <=> Sole(q)
  BY <1>8, PointersStay, Zenon
<1>10. HolderInv'
  <2>1. \A q \in Procs : pr'[q].at \in Holding <=> q # p /\ pr[q].at \in Holding
    BY <1>6 DEF Holding
  <2>2. \A q \in Procs : q # p /\ pr[q].at \in Holding => pr[q].ip \in Entries /\ pr[q].ip # e
    BY <1>1, <1>6, HasEntry DEF IInv, HolderInv, Holding
  <2>3. ASSUME NEW f \in Entries, icache'[f].busy PROVE \E q \in Procs : pr'[q].at \in Holding /\ pr'[q].ip = f
    <3>1. f # e /\ icache[f].busy
      BY <1>3, <2>3
    <3>2. PICK q \in Procs : pr[q].at \in Holding /\ pr[q].ip = f
      BY <3>1, Zenon DEF IInv, HolderInv
    <3>. QED
      BY <1>6, <2>1, <3>1, <3>2
  <2>4. \A q \in Procs : pr'[q].at \in Holding => icache'[pr'[q].ip].busy
    BY <1>3, <1>6, <2>1, <2>2 DEF IInv, HolderInv
  <2>5. \A q, t \in Procs : pr'[q].at \in Holding /\ pr'[t].at \in Holding /\ pr'[q].ip = pr'[t].ip => q = t
    BY <1>6, <2>1 DEF IInv, HolderInv
  <2>. QED
    BY <2>3, <2>4, <2>5, Zenon DEF HolderInv
<1>11. SleeperHasReason'
  BY <1>3, <1>6, HasEntry DEF IInv, SleeperHasReason
<1>12. LinkInv'
  BY <1>1, Zenon DEF IInv, LinkInv
<1>13. \A q \in Procs : pr'[q].at \in {"locked", "itrunc", "freed", "ialloc"} \/ pr[q].at = "freed" => pr'[q].at = pr[q].at
  BY <1>1, <1>6
<1>14. FreshInv'
  BY <1>1, <1>6, <1>13 DEF IInv, FreshInv
<1>15. CopyInv'
  <2>1. \A f \in Entries : Leaving(f) => Leaving(f)'
    BY <1>6, <1>9, <1>13 DEF Leaving
  <2>2. \A q \in Procs : pr'[q].at \in {"locked", "itrunc"} => icache'[pr'[q].ip].valid
    <3>1. \A q \in Procs : pr'[q].at \in {"locked", "itrunc"} =>
             pr[q].at \in {"locked", "itrunc"} /\ pr[q].ip \in Entries /\ pr'[q].ip = pr[q].ip
      BY <1>6, <1>13, HasEntry
    <3>2. \A q \in Procs : pr[q].at \in {"locked", "itrunc"} => icache[pr[q].ip].valid
      BY Zenon DEF IInv, CopyInv
    <3>. QED
      BY <1>3, <3>1, <3>2
  <2>3. \A q \in Procs : pr'[q].at = "itrunc" => icache'[pr'[q].ip].nlink = 0 /\ Sole(q)'
    <3>1. \A q \in Procs : pr'[q].at = "itrunc" => pr[q].at = "itrunc" /\ pr[q].ip \in Entries /\ pr'[q].ip = pr[q].ip
      BY <1>6, <1>13, HasEntry
    <3>2. \A q \in Procs : pr[q].at = "itrunc" => icache[pr[q].ip].nlink = 0 /\ Sole(q)
      BY Zenon DEF IInv, CopyInv
    <3>3. \A q \in Procs : pr'[q].at = "itrunc" => icache'[pr'[q].ip].nlink = 0
      BY <1>3, <3>1, <3>2
    <3>. QED
      BY <1>9, <3>1, <3>2, <3>3, Zenon
  <2>4. ASSUME NEW f \in Entries, Pointed(f)', icache'[f].valid
        PROVE  \/ \E q \in Procs : pr'[q].at = "freed" /\ pr'[q].ip = f
               \/ icache'[f].alloc /\ disk'[icache'[f].inum].alloc /\ disk'[icache'[f].inum].nlink = icache'[f].nlink
    <3>1. Pointed(f) /\ icache[f].valid
      BY <1>3, <1>9, <2>4, Zenon
    <3>2. \/ \E q \in Procs : pr[q].at = "freed" /\ pr[q].ip = f
          \/ icache[f].alloc /\ disk[icache[f].inum].alloc /\ disk[icache[f].inum].nlink = icache[f].nlink
      BY <3>1, Zenon DEF IInv, CopyInv
    <3>3. CASE \E q \in Procs : pr[q].at = "freed" /\ pr[q].ip = f
      BY <1>6, <1>13, <3>3
    <3>4. CASE icache[f].alloc /\ disk[icache[f].inum].alloc /\ disk[icache[f].inum].nlink = icache[f].nlink
      BY <1>1, <1>3, <3>4
    <3>. QED
      BY <3>2, <3>3, <3>4, Zenon
  <2>5. ASSUME NEW f \in Entries, Pointed(f)', ~disk'[icache'[f].inum].alloc PROVE Leaving(f)'
    <3>1. Pointed(f) /\ ~disk[icache[f].inum].alloc
      BY <1>1, <1>3, <1>9, <2>5
    <3>2. Leaving(f)
      BY <3>1, Zenon DEF IInv, CopyInv
    <3>. QED
      BY <2>1, <3>2, Zenon
  <2>6. ASSUME NEW f \in Entries, NEW q \in Procs, Pointed(f)', pr'[q].at = "ialloc", pr'[q].inum = icache'[f].inum
        PROVE  Leaving(f)'
    <3>1. Pointed(f) /\ pr[q].at = "ialloc" /\ pr[q].inum = icache[f].inum
      BY <1>3, <1>6, <1>9, <1>13, <2>6
    <3>2. Leaving(f)
      BY <3>1, Zenon DEF IInv, CopyInv
    <3>. QED
      BY <2>1, <3>2, Zenon
  <2>. QED
    BY <2>2, <2>3, <2>4, <2>5, <2>6, Zenon DEF CopyInv
<1>. QED
  BY <1>7, <1>9, <1>10, <1>11, <1>12, <1>14, <1>15, Zenon DEF IInv

\* iput, the last part: the entry is given up, and whoever waits for it goes on.
LEMMA IputDoneKeeps ==
  ASSUME IInv, NEW p \in Procs, iput_done(p)
  PROVE  IInv'
<1>. DEFINE r == [pr[p] EXCEPT !.at = "idle", !.ip = Null, !.job = "none"]
<1>0. /\ pr[p].at = "freed" /\ pr' = Wakeup(pr[p].ip, [pr EXCEPT ![p].at = "idle", ![p].ip = Null, ![p].job = "none"])
      /\ icache' = [icache EXCEPT ![pr[p].ip].busy = FALSE, ![pr[p].ip].valid = FALSE, ![pr[p].ip].ref = icache[pr[p].ip].ref - 1]
      /\ disk' = disk /\ links' = links
  BY DEF iput_done
<1>e. PICK e \in Entries : e = pr[p].ip
  BY <1>0, HasEntry, Zenon
<1>2. /\ pr \in [Procs -> ProcType] /\ icache \in [Entries -> EntryType] /\ icache[e] \in EntryType
      /\ \A f \in Entries : f # Null
  <2>1. pr \in [Procs -> ProcType] /\ icache \in [Entries -> EntryType]
    BY Zenon DEF IInv, TypeInv
  <2>2. \A f \in Entries : f # Null
    BY InodeAssumption DEF Entries, Null
  <2>. QED
    BY <2>1, <2>2, Zenon
<1>r. r \in ProcType /\ r.at = "idle" /\ r.ip = Null /\ r.kept = pr[p].kept
  <2>1. pr[p] \in ProcType
    BY <1>2, Zenon
  <2>. QED
    BY <2>1, Zenon DEF ProcType, Places
<1>q. [pr EXCEPT ![p].at = "idle", ![p].ip = Null, ![p].job = "none"] = [pr EXCEPT ![p] = r]
  BY <1>2, Zenon
<1>. HIDE DEF r
<1>s. PICK s \in [Procs -> ProcType] : s = [pr EXCEPT ![p] = r]
  BY <1>2, <1>r, Zenon
<1>7. /\ s[p].at = "idle" /\ s[p].ip = Null /\ s[p].kept = pr[p].kept
      /\ \A q \in Procs : q # p => s[q] = pr[q]
  BY <1>2, <1>r, <1>s, Zenon
<1>1. /\ pr[p].at = "freed" /\ pr' = Wakeup(e, s) /\ disk' = disk /\ links' = links
      /\ icache' = [icache EXCEPT ![e].busy = FALSE, ![e].valid = FALSE, ![e].ref = icache[e].ref - 1]
  BY <1>0, <1>e, <1>q, <1>s, Zenon
<1>3. icache[e].ref \in Nat /\ icache[e].ref > 0
  BY <1>e, <1>1, HasEntry, Referenced
<1>4. icache[e].ref - 1 \in Nat
  BY <1>3
<1>. DEFINE x == [icache[e] EXCEPT !.busy = FALSE, !.valid = FALSE, !.ref = icache[e].ref - 1]
<1>5. /\ x \in EntryType /\ x.inum = icache[e].inum /\ ~x.busy /\ ~x.valid /\ x.ref = icache[e].ref - 1
  BY <1>2, <1>4, Zenon DEF EntryType
<1>6. icache' = [icache EXCEPT ![e] = x]
  BY <1>1, <1>2, Zenon
<1>. HIDE DEF x
<1>8. pr[p].ip = e
  BY <1>e
<1>9. icache' \in [Entries -> EntryType] /\ icache'[e] = x /\ \A f \in Entries : f # e => icache'[f] = icache[f]
  BY <1>2, <1>5, <1>6, Zenon
<1>10. /\ pr' \in [Procs -> ProcType]
       /\ \A q \in Procs : /\ pr'[q].ip = s[q].ip /\ pr'[q].kept = s[q].kept /\ pr'[q].inum = s[q].inum
                           /\ pr'[q].at = IF s[q].at = "asleep" /\ s[q].ip = e THEN "ilock" ELSE s[q].at
  BY <1>1, WakeupDoes
<1>11. /\ \A q \in Procs : q # p => pr'[q].ip = pr[q].ip /\ pr'[q].kept = pr[q].kept /\ pr'[q].inum = pr[q].inum
       /\ pr'[p].at = "idle" /\ pr'[p].ip = Null /\ pr'[p].kept = pr[p].kept
       /\ \A q \in Procs : q # p => pr'[q].at = pr[q].at \/ (pr[q].at = "asleep" /\ pr'[q].at = "ilock")
       /\ \A q \in Procs : pr'[q].at = "asleep" => q # p /\ pr[q].at = "asleep" /\ pr[q].ip # e
  BY <1>7, <1>10
<1>12. TypeInv'
  BY <1>1, <1>9, <1>10, Zenon DEF IInv, TypeInv
<1>13. PointerInv'
  <2>1. \A q \in Procs : pr'[q].ip = Null <=> pr'[q].at \in {"idle", "ialloc"}
    BY <1>11 DEF IInv, PointerInv
  <2>2. pr[p].ip = e /\ pr'[p].ip = Null /\ pr'[p].kept = pr[p].kept
    BY <1>8, <1>11, Zenon
  <2>3. \A q \in Procs : q # p => pr'[q].ip = pr[q].ip /\ pr'[q].kept = pr[q].kept
    BY <1>11, Zenon
  <2>4. /\ Cardinality(PointersIn(pr', e)) = Cardinality(PointersIn(pr, e)) - 1
        /\ \A f \in Entries : f # e => PointersIn(pr', f) = PointersIn(pr, f)
    BY <2>2, <2>3, PointersLose, Zenon
  <2>5. \A f \in Entries : icache'[f].ref = Cardinality(PointersIn(pr', f))
    BY <1>2, <1>5, <1>9, <2>4 DEF IInv, PointerInv
  <2>. QED
    BY <2>1, <2>5, Zenon DEF PointerInv
<1>14. \A f \in Entries : Pointed(f)' => Pointed(f) /\ icache'[f].inum = icache[f].inum
  BY <1>2, <1>5, <1>9, <1>11 DEF Pointed
<1>15. EntryInv'
  BY <1>14 DEF IInv, EntryInv
<1>16. \A q \in Procs : q # p /\ pr[q].at \in Holding => pr[q].ip \in Entries /\ pr[q].ip # e
  BY <1>1, <1>8, HasEntry DEF IInv, HolderInv, Holding
<1>17. HolderInv'
  <2>1. \A q \in Procs : pr'[q].at \in Holding <=> q # p /\ pr[q].at \in Holding
    BY <1>11 DEF Holding
  <2>2. ASSUME NEW f \in Entries, icache'[f].busy PROVE \E q \in Procs : pr'[q].at \in Holding /\ pr'[q].ip = f
    <3>1. f # e /\ icache[f].busy
      BY <1>5, <1>9, <2>2
    <3>2. PICK q \in Procs : pr[q].at \in Holding /\ pr[q].ip = f
      BY <3>1, Zenon DEF IInv, HolderInv
    <3>. QED
      BY <1>8, <1>11, <2>1, <3>1, <3>2
  <2>3. \A q \in Procs : pr'[q].at \in Holding => icache'[pr'[q].ip].busy
    BY <1>9, <1>11, <1>16, <2>1 DEF IInv, HolderInv
  <2>4. \A q, t \in Procs : pr'[q].at \in Holding /\ pr'[t].at \in Holding /\ pr'[q].ip = pr'[t].ip => q = t
    BY <1>11, <2>1 DEF IInv, HolderInv
  <2>. QED
    BY <2>2, <2>3, <2>4, Zenon DEF HolderInv
<1>18. SleeperHasReason'
  BY <1>9, <1>11, HasEntry DEF IInv, SleeperHasReason
<1>19. LinkInv'
  BY <1>1, Zenon DEF IInv, LinkInv
<1>20. \A q \in Procs : pr'[q].at \in {"locked", "itrunc", "freed", "ialloc"} => q # p /\ pr'[q].at = pr[q].at
  BY <1>11
<1>21. FreshInv'
  BY <1>1, <1>11, <1>20 DEF IInv, FreshInv
<1>22. CopyInv'
  <2>1. ASSUME NEW q \in Procs, q # p, pr[q].ip # Null, Sole(q) PROVE Sole(q)'
    BY <1>11, <2>1 DEF Sole
  <2>2. \A q \in Procs : q # p /\ pr[q].at = "freed" => pr'[q].at = "freed" /\ pr'[q].ip = pr[q].ip
    BY <1>11
  <2>3. ASSUME NEW f \in Entries, Leaving(f), f # e PROVE Leaving(f)'
    <3>1. PICK q \in Procs : pr[q].at = "freed" /\ pr[q].ip = f /\ Sole(q)
      BY <2>3, Zenon DEF Leaving
    <3>2. q # p /\ pr[q].ip # Null
      BY <1>2, <1>8, <2>3, <3>1
    <3>. QED
      BY <2>1, <2>2, <3>1, <3>2 DEF Leaving
  <2>4. ASSUME Leaving(e), Pointed(e)' PROVE FALSE
    <3>1. PICK q \in Procs : pr[q].at = "freed" /\ pr[q].ip = e /\ Sole(q)
      BY <2>4, Zenon DEF Leaving
    <3>2. q = p
      BY <1>16, <3>1 DEF Holding
    <3>. QED
      <4>1. PICK t \in Procs : pr'[t].ip = e \/ pr'[t].kept = e
        BY <2>4, Zenon DEF Pointed
      <4>2. \A u \in Procs : pr[u].kept # e /\ (u # p => pr[u].ip # e)
        BY <1>8, <3>1, <3>2 DEF Sole
      <4>. QED
        BY <1>2, <1>11, <4>1, <4>2
  <2>5. \A q \in Procs : pr'[q].at \in {"locked", "itrunc"} => icache'[pr'[q].ip].valid
    <3>1. \A q \in Procs : pr'[q].at \in {"locked", "itrunc"} =>
             q # p /\ pr[q].at \in {"locked", "itrunc"} /\ pr[q].ip \in Entries /\ pr[q].ip # e
      BY <1>16, <1>20 DEF Holding
    <3>2. \A q \in Procs : pr[q].at \in {"locked", "itrunc"} => icache[pr[q].ip].valid
      BY Zenon DEF IInv, CopyInv
    <3>. QED
      BY <1>9, <1>11, <3>1, <3>2
  <2>6. \A q \in Procs : pr'[q].at = "itrunc" => icache'[pr'[q].ip].nlink = 0 /\ Sole(q)'
    <3>1. \A q \in Procs : pr'[q].at = "itrunc" =>
             q # p /\ pr[q].at = "itrunc" /\ pr[q].ip \in Entries /\ pr[q].ip # e /\ pr[q].ip # Null
      BY <1>2, <1>16, <1>20 DEF Holding
    <3>2. \A q \in Procs : pr[q].at = "itrunc" => icache[pr[q].ip].nlink = 0 /\ Sole(q)
      BY Zenon DEF IInv, CopyInv
    <3>3. \A q \in Procs : pr'[q].at = "itrunc" => icache'[pr'[q].ip].nlink = 0
      BY <1>9, <1>11, <3>1, <3>2
    <3>. QED
      BY <2>1, <3>1, <3>2, <3>3, Zenon
  <2>7. ASSUME NEW f \in Entries, Pointed(f)', icache'[f].valid
        PROVE  \/ \E q \in Procs : pr'[q].at = "freed" /\ pr'[q].ip = f
               \/ icache'[f].alloc /\ disk'[icache'[f].inum].alloc /\ disk'[icache'[f].inum].nlink = icache'[f].nlink
    <3>1. f # e /\ Pointed(f) /\ icache'[f] = icache[f]
      BY <1>5, <1>9, <1>14, <2>7
    <3>2. CASE \E q \in Procs : pr[q].at = "freed" /\ pr[q].ip = f
      BY <1>8, <2>2, <3>1, <3>2
    <3>3. CASE icache[f].alloc /\ disk[icache[f].inum].alloc /\ disk[icache[f].inum].nlink = icache[f].nlink
      BY <1>1, <3>1, <3>3
    <3>. QED
      BY <2>7, <3>1, <3>2, <3>3, ZenonT(30) DEF IInv, CopyInv
  <2>8. ASSUME NEW f \in Entries, Pointed(f)', ~disk'[icache'[f].inum].alloc PROVE Leaving(f)'
    <3>1. Leaving(f)
      BY <1>1, <1>14, <2>8 DEF IInv, CopyInv
    <3>2. CASE f = e
      BY <2>4, <2>8, <3>1, <3>2, Zenon
    <3>. QED
      BY <2>3, <3>1, <3>2, Zenon
  <2>9. ASSUME NEW f \in Entries, NEW q \in Procs, Pointed(f)', pr'[q].at = "ialloc", pr'[q].inum = icache'[f].inum
        PROVE  Leaving(f)'
    <3>1. Leaving(f)
      BY <1>11, <1>14, <1>20, <2>9 DEF IInv, CopyInv
    <3>2. CASE f = e
      BY <2>4, <2>9, <3>1, <3>2, Zenon
    <3>. QED
      BY <2>3, <3>1, <3>2, ZenonT(30)
  <2>. QED
    BY <2>5, <2>6, <2>7, <2>8, <2>9, Zenon DEF CopyInv
<1>. QED
  BY <1>12, <1>13, <1>15, <1>17, <1>18, <1>19, <1>21, <1>22, Zenon DEF IInv

-----------------------------------------------------------------------------
(* The theorem *)

\* At first the cache is empty and only the root directory is allocated.
LEMMA InitIInv == Init => IInv
<1>. SUFFICES ASSUME Init PROVE IInv
  OBVIOUS
<1>1. /\ ROOTINO \in Inums /\ Inums \subseteq Nat
      /\ \A e \in Entries : e # Null
  BY InodeAssumption DEF ROOTINO, Inums, Entries, Null
<1>2. Idle \in ProcType /\ Idle.at = "idle" /\ Idle.ip = Null /\ Idle.kept = Null
  BY DEF Idle, ProcType, Places
<1>3. pr \in [Procs -> ProcType] /\ \A p \in Procs : pr[p] = Idle
  BY <1>2, Zenon DEF Init
<1>4. /\ icache \in [Entries -> EntryType]
      /\ \A e \in Entries : icache[e].ref = 0 /\ ~icache[e].busy
  BY DEF Init, EntryType
<1>5. /\ disk \in [Inums -> [alloc : BOOLEAN, nlink : Nat]] /\ links \in [Inums -> Nat]
      /\ \A i \in Inums : disk[i].alloc = (i = ROOTINO) /\ disk[i].nlink = links[i] /\ (i # ROOTINO => links[i] = 0)
  BY DEF Init
<1>6. \A p \in Procs : pr[p].at = "idle" /\ pr[p].ip = Null /\ pr[p].kept = Null
  BY <1>2, <1>3, Zenon
<1>7. \A e \in Entries : ~Pointed(e)
  BY <1>1, <1>6 DEF Pointed
<1>8. TypeInv
  BY <1>3, <1>4, <1>5, Zenon DEF TypeInv
<1>9. PointerInv
  <2>1. ASSUME NEW e \in Entries PROVE icache[e].ref = Cardinality(PointersIn(pr, e))
    <3>1. ~(Cardinality(PointersIn(pr, e)) > 0)
      BY <1>1, <1>6, CountTells
    <3>. QED
      BY <1>4, <3>1, PointersFinite
  <2>. QED
    BY <1>6, <2>1 DEF PointerInv
<1>10. EntryInv
  BY <1>7, Zenon DEF EntryInv
<1>11. HolderInv /\ SleeperHasReason /\ FreshInv
  BY <1>4, <1>6 DEF HolderInv, SleeperHasReason, FreshInv, Holding
<1>12. LinkInv
  BY <1>5 DEF LinkInv
<1>13. CopyInv
  BY <1>6, <1>7 DEF CopyInv
<1>. QED
  BY <1>8, <1>9, <1>10, <1>11, <1>12, <1>13, Zenon DEF IInv

\* Every step of a process keeps the invariant.
LEMMA NextKeeps == IInv /\ [Next]_vars => IInv'
<1>. SUFFICES ASSUME IInv, [Next]_vars PROVE IInv'
  OBVIOUS
<1>1. CASE UNCHANGED vars
  BY <1>1, TransKeeps, Zenon DEF vars
<1>2. ASSUME NEW p \in Procs, NEW i \in Inums, lookup(p, i) PROVE IInv'
  BY <1>2, LookupKeeps, Zenon
<1>3. ASSUME NEW p \in Procs, idup(p) PROVE IInv'
  BY <1>3, IdupKeeps, Zenon
<1>4. ASSUME NEW p \in Procs, keep(p) PROVE IInv'
  BY <1>4, KeepKeeps, ZenonT(30)
<1>5. ASSUME NEW p \in Procs, take(p) PROVE IInv'
  BY <1>5, TakeKeeps, Zenon
<1>6. ASSUME NEW p \in Procs, ilock(p) PROVE IInv'
  BY <1>6, IlockKeeps, Zenon
<1>7. ASSUME NEW p \in Procs, ilock_read(p) PROVE IInv'
  BY <1>7, IlockReadKeeps, Zenon
<1>8. ASSUME NEW p \in Procs, iunlock(p) PROVE IInv'
  BY <1>8, IunlockKeeps, Zenon
<1>9. ASSUME NEW p \in Procs, NEW n \in 0 .. MaxLinks, relink(p, n) PROVE IInv'
  BY <1>9, RelinkKeeps, ZenonT(30)
<1>10. ASSUME NEW p \in Procs, iput(p) PROVE IInv'
  BY <1>10, IputKeeps, Zenon
<1>11. ASSUME NEW p \in Procs, iput_free(p) PROVE IInv'
  BY <1>11, IputFreeKeeps, Zenon
<1>12. ASSUME NEW p \in Procs, iput_done(p) PROVE IInv'
  BY <1>12, IputDoneKeeps, Zenon
<1>13. ASSUME NEW p \in Procs, ialloc(p) PROVE IInv'
  BY <1>13, IallocKeeps, Zenon
<1>14. ASSUME NEW p \in Procs, ialloc_iget(p) PROVE IInv'
  BY <1>14, IallocIgetKeeps, Zenon
<1>15. ASSUME NEW p \in Procs, begin_trans(p) \/ commit_trans(p) PROVE IInv'
  <2>1. UNCHANGED <<icache, disk, links, pr>>
    BY <1>15, Zenon DEF begin_trans, commit_trans
  <2>. QED
    BY <2>1, TransKeeps, Zenon
<1>. QED
  BY <1>1, <1>2, <1>3, <1>4, <1>5, <1>6, <1>7, <1>8, <1>9, <1>10, <1>11, <1>12, <1>13, <1>14, <1>15, ZenonT(30) DEF Next

\* The invariant says how processes share inodes.
LEMMA IInvShared == IInv => InodesShared
<1>. SUFFICES ASSUME IInv PROVE InodesShared
  OBVIOUS
<1>1. OneEntryEach
  <2>1. \A e \in Entries : Pointers(e) = PointersIn(pr, e)
    BY Zenon DEF Pointers, PointersIn
  <2>2. \A e \in Entries : icache[e].ref = Cardinality(Pointers(e))
    BY <2>1, Zenon DEF IInv, PointerInv
  <2>3. \A e \in Entries : icache[e].ref > 0 => Pointed(e)
    BY Referenced, Zenon
  <2>. QED
    BY <2>2, <2>3, Zenon DEF IInv, EntryInv, OneEntryEach
<1>2. LockedIsLive
  <2>. SUFFICES ASSUME NEW p \in Procs, pr[p].at = "locked"
                PROVE  /\ disk[icache[pr[p].ip].inum] = [alloc |-> TRUE, nlink |-> icache[pr[p].ip].nlink]
                       /\ \A q \in Procs \ {p} : pr[q].at \in {"locked", "read", "itrunc", "freed"} => pr[q].ip # pr[p].ip
    BY Zenon DEF LockedIsLive
  <2>1. disk[icache[pr[p].ip].inum].alloc /\ disk[icache[pr[p].ip].inum].nlink = icache[pr[p].ip].nlink
    BY HeldCopy
  <2>2. icache[pr[p].ip].inum \in Inums
    BY HolderAlone
  <2>3. disk[icache[pr[p].ip].inum] \in [alloc : BOOLEAN, nlink : Nat]
    BY <2>2, Zenon DEF IInv, TypeInv
  <2>4. disk[icache[pr[p].ip].inum] = [alloc |-> TRUE, nlink |-> icache[pr[p].ip].nlink]
    BY <2>1, <2>3, Zenon
  <2>5. \A q \in Procs \ {p} : pr[q].at \in {"locked", "read", "itrunc", "freed"} => pr[q].ip # pr[p].ip
    BY DEF IInv, HolderInv, Holding
  <2>. QED
    BY <2>4, <2>5, Zenon
<1>3. SleeperHasReason
  BY Zenon DEF IInv
<1>4. FreedIsUnnamed
  <2>1. \A i \in Inums : ~disk[i].alloc => links[i] = 0
    BY Zenon DEF IInv, LinkInv
  <2>2. \A p, q \in Procs : p # q /\ pr[p].at = "itrunc" => pr[q].ip # pr[p].ip
    BY Zenon DEF IInv, CopyInv, Sole
  <2>. QED
    BY <2>1, <2>2, Zenon DEF FreedIsUnnamed
<1>. QED
  BY <1>1, <1>2, <1>3, <1>4, Zenon DEF InodesShared

\* Processes share inodes as fs.c promises, for every number of processes, cache entries
\* and inodes: an inode has one entry of the cache, whose ref counts the pointers to it;
\* locked, it is one process's, allocated and like its copy on disk; who waits for it
\* sleeps while another has it; and iput frees only what no directory entry names and
\* nobody waits for, also when ialloc takes the inode again at once (iget, ilock,
\* iunlock, iput, ialloc).
THEOREM InodesAreShared == Spec => []InodesShared
<1>1. Init => IInv
  BY InitIInv, Zenon
<1>2. IInv /\ [Next]_vars => IInv'
  BY NextKeeps, Zenon
<1>3. IInv => InodesShared
  BY IInvShared, Zenon
<1>. QED
  BY <1>1, <1>2, <1>3, PTL DEF Spec

=============================================================================
