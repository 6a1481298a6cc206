----------------------------- MODULE AtomicDisk -----------------------------
(***************************************************************************)
(* What the log promises the file system: one transaction at a time, whose *)
(* writes reach the disk all together or, after a crash, not at all.       *)
(***************************************************************************)
CONSTANTS Procs, Blocks, Values, NoOne

VARIABLES
  store,   \* what survives a crash
  cur,     \* what the file system reads
  owner    \* the process in the transaction, or NoOne

absVars == <<store, cur, owner>>

Init ==
  /\ store \in [Blocks -> Values]
  /\ cur = store
  /\ owner = NoOne

Begin(p) ==
  /\ owner = NoOne
  /\ owner' = p
  /\ UNCHANGED <<store, cur>>

Write(p, b, v) ==
  /\ owner = p
  /\ cur' = [cur EXCEPT ![b] = v]
  /\ UNCHANGED <<store, owner>>

Commit(p) ==
  /\ owner = p
  /\ store' = cur
  /\ owner' = NoOne
  /\ UNCHANGED cur

Crash ==
  /\ cur' = store
  /\ owner' = NoOne
  /\ UNCHANGED store

Next ==
  \/ Crash
  \/ \E p \in Procs :
       \/ Begin(p) \/ Commit(p)
       \/ \E b \in Blocks, v \in Values : Write(p, b, v)

Spec == Init /\ [][Next]_absVars
=============================================================================
