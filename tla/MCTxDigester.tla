--------------------------- MODULE MCTxDigester ---------------------------
(***************************************************************************)
(* Values for the constants of TxDigester: two transactions, and two runs  *)
(* of the cron task that may overlap.                                      *)
(***************************************************************************)
EXTENDS TxDigester

CONSTANTS t1, t2, r1, r2
=============================================================================
