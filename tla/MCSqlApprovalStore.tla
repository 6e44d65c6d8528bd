------------------------- MODULE MCSqlApprovalStore -------------------------
(* SqlApprovalStore on a small instance; workers, digests and tenants are  *)
(* interchangeable.                                                        *)
EXTENDS SqlApprovalStore, TLC

Symmetry == Permutations(Workers) \cup Permutations(Digests) \cup Permutations(Tenants)
=============================================================================
