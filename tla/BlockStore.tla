----------------------------- MODULE BlockStore -----------------------------
(***************************************************************************)
(* What the buffer cache (bio.c over ide.c) promises its callers: an       *)
(* array of blocks, each handed to one process at a time, that holds what  *)
(* was last written to it.  Caching, recycling and the disk are invisible. *)
(***************************************************************************)
CONSTANTS Procs, Sectors, Data, NoOne

VARIABLES content, owner

vars == <<content, owner>>

Init ==
    /\ content \in [Sectors -> Data]
    /\ owner = [s \in Sectors |-> NoOne]

Take(p, s) ==
    /\ owner[s] = NoOne
    /\ owner' = [owner EXCEPT ![s] = p]
    /\ UNCHANGED content

Change(p, s) ==
    /\ owner[s] = p
    /\ \E v \in Data : content' = [content EXCEPT ![s] = v]
    /\ UNCHANGED owner

Release(p, s) ==
    /\ owner[s] = p
    /\ owner' = [owner EXCEPT ![s] = NoOne]
    /\ UNCHANGED content

Next == \E p \in Procs, s \in Sectors : Take(p, s) \/ Change(p, s) \/ Release(p, s)

Spec == Init /\ [][Next]_vars
=============================================================================
