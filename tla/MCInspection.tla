---------------------------- MODULE MCInspection ----------------------------
(* Inspection on texts of three characters with up to three sightings.     *)
EXTENDS Inspection
=============================================================================
