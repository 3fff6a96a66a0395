---------------------------- MODULE MCTradingMode ----------------------------
(* Model-checking instances of TradingMode; the cfg files give the         *)
(* constants.                                                              *)
EXTENDS TradingMode, TLC

Symmetry == Permutations(Request) \union Permutations(Order)
=============================================================================
