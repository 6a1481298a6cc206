------------------------------ MODULE LineQueue ------------------------------
(***************************************************************************)
(* What the console promises its readers: the line being typed can be      *)
(* edited until it is complete; complete input is delivered once, in       *)
(* order.                                                                  *)
(***************************************************************************)
EXTENDS Naturals, Sequences

CONSTANTS Chars

VARIABLES
    line,       \* typed, may still be edited
    ready       \* complete, waits for a reader

vars == <<line, ready>>

Init == line = <<>> /\ ready = <<>>

Type(c) == line' = Append(line, c) /\ UNCHANGED ready
Complete(c) == line' = <<>> /\ ready' = ready \o Append(line, c)
Erase == line # <<>> /\ line' \in {SubSeq(line, 1, n) : n \in 0..Len(line) - 1} /\ UNCHANGED ready
Deliver == ready # <<>> /\ ready' = Tail(ready) /\ UNCHANGED line

Next == Erase \/ Deliver \/ \E c \in Chars : Type(c) \/ Complete(c)

Spec == Init /\ [][Next]_vars
==============================================================================
