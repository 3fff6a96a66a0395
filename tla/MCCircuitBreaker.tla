-------------------------- MODULE MCCircuitBreaker --------------------------
(* The model-checking instance of CircuitBreaker: its cfg gives the        *)
(* constants.  No symmetry, since it checks liveness.                      *)
EXTENDS CircuitBreaker, TLC
=============================================================================
