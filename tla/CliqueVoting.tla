----------------------------- MODULE CliqueVoting -----------------------------
(***************************************************************************)
(* What the voting of clique promises, as a rule about the votes alone:    *)
(* a signer has at most one vote on an account, only a change can be voted *)
(* for, and a change happens with a block that names the account, if more  *)
(* than half of the signers are then for it.  Nothing is cached.           *)
(***************************************************************************)
EXTENDS Integers, FiniteSets

CONSTANTS
  Addresses,   \* accounts
  Zero,        \* the zero address: no vote
  InitSigners, \* signers of the genesis block
  Epoch        \* votes are dropped at the multiples of it

VARIABLES number, signers, votes

vars == <<number, signers, votes>>

Votes == [signer : Addresses, address : Addresses, authorize : BOOLEAN]

Init == number = 0 /\ signers = InitSigners /\ votes = {}

\* Block number + 1 is signed by s and votes on account a.
Block(s, a, auth) ==
  LET standing == IF (number + 1) % Epoch = 0 THEN {} ELSE votes
      kept == {v \in standing : ~(v.signer = s /\ v.address = a)}
      cast == IF auth = (a \notin signers)
              THEN kept \cup {[signer |-> s, address |-> a,
                               authorize |-> auth]}
              ELSE kept
      passed == 2 * Cardinality({v \in cast : v.address = a})
                  > Cardinality(signers)
      after == IF a \in signers THEN signers \ {a} ELSE signers \cup {a}
  IN
  /\ s \in signers
  /\ number' = number + 1
  /\ signers' = IF passed THEN after ELSE signers
  /\ votes' = IF passed
              THEN {v \in cast : v.address # a /\ v.signer \in after}
              ELSE cast

Next ==
  \E s \in Addresses, a \in Addresses \cup {Zero}, auth \in BOOLEAN :
    Block(s, a, auth)

Spec == Init /\ [][Next]_vars
=============================================================================
