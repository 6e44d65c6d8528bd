----------------------------- MODULE MCRestore -----------------------------
(* Restore on a small instance; threads and values are interchangeable.    *)
EXTENDS Restore, TLC

Symmetry == Permutations(Threads) \cup Permutations(Values)
=============================================================================
