------------------------------ MODULE MCTxPool ------------------------------
(* TxPool on small sets of accounts, nonces and prices. *)
EXTENDS TxPool, TLC

\* Accounts are only compared for equality.
Symmetry == Permutations(Accounts)
=============================================================================
