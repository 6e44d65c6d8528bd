-------------------------- MODULE MCAuditPipeline --------------------------
(* AuditPipeline on small instances.  No symmetry: liveness is checked.    *)
EXTENDS AuditPipeline
=============================================================================
