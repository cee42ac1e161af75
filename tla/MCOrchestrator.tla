--------------------------- MODULE MCOrchestrator ---------------------------
(* Small instances of the orchestrator for TLC. *)
EXTENDS Orchestrator

CONSTANTS r1, c1, k1

CompanionOfR1 == [c \in Companions |-> r1]
OneReplicaEach == {<<0, k1>>, <<1, k1>>}
=============================================================================
