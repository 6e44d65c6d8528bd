-------------------------- MODULE MCApprovalStore --------------------------
(* ApprovalStore on a small instance.  Identifiers, digests and tenants    *)
(* are interchangeable; users are not (only some of them review).          *)
EXTENDS ApprovalStore, TLC

Symmetry == Permutations(Ids) \cup Permutations(Digests) \cup Permutations(Tenants)
=============================================================================
