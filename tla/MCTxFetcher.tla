---------------------------- MODULE MCTxFetcher ----------------------------
(* TxFetcher on small sets of peers and hashes. *)
EXTENDS TxFetcher
=============================================================================
