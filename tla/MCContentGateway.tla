-------------------------- MODULE MCContentGateway --------------------------
(* ContentGateway on a small instance; threads and callers are             *)
(* interchangeable.                                                        *)
EXTENDS ContentGateway, TLC

Symmetry == Permutations(Threads) \cup Permutations(Callers)
=============================================================================
