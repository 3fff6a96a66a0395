-------------------------- MODULE MCOrderExecution --------------------------
(* Model-checking instances of OrderExecution; the cfg files give the      *)
(* constants.  No symmetry: the reconciliation goes through the orders in  *)
(* batches, and two of the runs check liveness.                            *)
EXTENDS OrderExecutionRefines, TLC
=============================================================================
