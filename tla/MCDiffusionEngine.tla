-------------------------- MODULE MCDiffusionEngine --------------------------
(* Small instances of the diffusion engine for TLC. *)
EXTENDS DiffusionEngine, TLC

CONSTANTS r1, r2, k1, q1, q2, b1, b2

Symmetry == Permutations({r1, r2}) \cup Permutations({b1, b2})

Req(rows, remote, total) ==
    [key |-> k1, rows |-> rows, remote |-> remote,
     prefix |-> [q \in Row |-> NoPrefix], mixed |-> FALSE, start |-> 0, total |-> total]

\* A local request and one that receives its KV.
SyncShapes == {Req({q1}, FALSE, 1), Req({q1}, TRUE, 1)}
RemoteShapes == {Req({q1}, TRUE, 1)}
StepShapes == {Req({q1}, FALSE, 2)}
=============================================================================
