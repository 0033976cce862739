----------------------------- MODULE ChainDelivery -----------------------------
(***************************************************************************)
(* What a synchronisation promises: blocks reach the local chain in the    *)
(* order of their numbers, each one once and with its own parts, and the   *)
(* synchronisation is complete only when all of them have.  It may be      *)
(* aborted or interrupted at any time.                                     *)
(***************************************************************************)
EXTENDS Integers, Sequences

CONSTANTS
  N,        \* number of blocks to fetch
  Wanted(_) \* the parts that block n needs

VARIABLES chain, outcome

vars == <<chain, outcome>>

Block(n) == {<<k, n>> : k \in Wanted(n)}

Init == chain = <<>> /\ outcome = "open"

Extend ==
  /\ outcome = "open"
  /\ \E m \in Len(chain) + 1 .. N :
       chain' = [n \in 1 .. m |-> IF n <= Len(chain) THEN chain[n]
                                  ELSE Block(n)]
  /\ UNCHANGED outcome

End ==
  /\ outcome = "open"
  /\ \/ outcome' = "complete" /\ Len(chain) = N
     \/ outcome' \in {"aborted", "interrupted"}
  /\ UNCHANGED chain

Next == Extend \/ End

Spec == Init /\ [][Next]_vars
=============================================================================
