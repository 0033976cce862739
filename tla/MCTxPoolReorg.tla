--------------------------- MODULE MCTxPoolReorg ---------------------------
(* TxPoolReorg on small sets of callers and heads. *)
EXTENDS TxPoolReorg
=============================================================================
