-------------------------- MODULE MCHostWeightStore --------------------------
(* Small instances of the weight store for TLC. *)
EXTENDS HostWeightStore, TLC

CONSTANTS p1, p2

Either == Permutations({p1, p2})
=============================================================================
