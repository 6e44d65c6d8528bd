--------------------------- MODULE MCSqlIncidents ---------------------------
(* SqlIncidents on a small instance; replicas, case identifiers, tenants   *)
(* and traces are interchangeable.                                         *)
EXTENDS SqlIncidents, TLC

Symmetry ==
  Permutations(Replicas) \cup Permutations(Slots) \cup Permutations(Ids) \cup Permutations(Tenants)
    \cup Permutations(Traces)
=============================================================================
