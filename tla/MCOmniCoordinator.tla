------------------------- MODULE MCOmniCoordinator -------------------------
(* Small instances of the coordinator for TLC. *)
EXTENDS OmniCoordinator
=============================================================================
