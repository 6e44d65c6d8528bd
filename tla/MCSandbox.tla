----------------------------- MODULE MCSandbox -----------------------------
(* Sandbox on a small instance: more can be written than is kept, and than *)
(* a pipe or a chunk holds.                                                *)
EXTENDS Sandbox
=============================================================================
