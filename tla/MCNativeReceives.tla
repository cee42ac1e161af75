-------------------------- MODULE MCNativeReceives --------------------------
(* Small instances of the native receives for TLC. *)
EXTENDS NativeReceives, TLC

CONSTANTS r1, r2, k1, q1, b1, b2, w1, w2

Symmetry == Permutations({r1, r2}) \cup Permutations({b1, b2})
            \cup Permutations({w1, w2})

RemoteShapes ==
    {[key |-> k1, rows |-> {q1}, remote |-> TRUE,
      prefix |-> [q \in Row |-> NoPrefix], mixed |-> FALSE, start |-> 0, total |-> 1]}
=============================================================================
