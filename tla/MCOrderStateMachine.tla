------------------------ MODULE MCOrderStateMachine ------------------------
(* Model-checking instance of OrderStateMachine: three orders that may all *)
(* carry the same key.                                                     *)
EXTENDS OrderStateMachine, TLC

Symmetry == Permutations(Order)
=============================================================================
