----------------------------- MODULE MCBlockChain -----------------------------
EXTENDS BlockChain

CONSTANTS a1, a2, a3, b1, b2, b3, c2, t

\* Chains a and b from Genesis, and c2, another child of a1.  c2 ties with a2, and
\* b1 with a3, which is two blocks higher; b3 is the heaviest, and invalid.
MCParent ==
  [b \in Blocks |->
     CASE b \in {a1, b1} -> Genesis [] b \in {a2, c2} -> a1 [] b = a3 -> a2
       [] b = b2 -> b1 [] b = b3 -> b2]
MCNumber[b \in Blocks \cup {Genesis}] ==
  IF b = Genesis THEN 0 ELSE MCNumber[MCParent[b]] + 1
MCTd[b \in Blocks \cup {Genesis}] ==
  IF b = Genesis THEN 0
  ELSE MCTd[MCParent[b]]
         + (CASE b = b1 -> 6 [] b = b2 -> 1 [] b = b3 -> 3 [] OTHER -> 2)
MCTime == MCNumber
\* a3 is empty, and c2 has the transactions of a2: they share one state.  The other
\* blocks have states of their own.
MCRoot ==
  [b \in Blocks \cup {Genesis} |-> IF b \in {a3, c2} THEN a2 ELSE b]
MCTxsOf ==
  [b \in Blocks \cup {Genesis} |-> IF b \in {a2, b2, c2} THEN {t} ELSE {}]
=============================================================================
