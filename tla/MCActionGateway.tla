-------------------------- MODULE MCActionGateway --------------------------
(* ActionGateway on a small instance; threads, traces and users are        *)
(* interchangeable.                                                        *)
EXTENDS ActionGateway, TLC

Symmetry == Permutations(Threads) \cup Permutations(Traces) \cup Permutations(Users)
=============================================================================
