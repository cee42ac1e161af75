------------------------ MODULE MCDiffusionScheduler ------------------------
(* Small instances of the diffusion scheduler for TLC. *)
EXTENDS DiffusionScheduler, TLC

CONSTANTS r1, r2, k1, k2, q1, q2, q3, p1, b1, b2, b3, b4

Symmetry == Permutations({r1, r2}) \cup Permutations({b1, b2, b3})
PrefixSymmetry == Permutations({r1, r2}) \cup Permutations({b1, b2, b3, b4})

Req(key, rows, remote, mixed, start, total) ==
    [key |-> key, rows |-> rows, remote |-> remote,
     prefix |-> [q \in Row |-> NoPrefix], mixed |-> mixed, start |-> start,
     total |-> total]

\* A local request of two steps that does not allow mixed phases, a remote one
\* with two CFG rows that does, and one of another key that resumes at its last
\* step.
WaveShapes == {Req(k1, {q1}, FALSE, FALSE, 0, 2),
               Req(k1, {q1, q2}, TRUE, TRUE, 0, 1),
               Req(k2, {q1}, TRUE, FALSE, 1, 2)}

\* Local requests whose rows start with one cacheable prefix: one row, two rows,
\* two of which one has no prefix, and three, which fit the pool only if they
\* find the prefix; and two of different keys without a prefix.
Cacheable(key, rows, with) ==
    [Req(key, rows, FALSE, FALSE, 0, 1) EXCEPT
        !.prefix = [q \in Row |-> IF q \in with THEN p1 ELSE NoPrefix]]

PrefixShapes == {Cacheable(k1, {q1}, {q1}), Cacheable(k1, {q1, q2}, {q1, q2}),
                 Cacheable(k1, {q1, q2}, {q1}),
                 Cacheable(k1, {q1, q2, q3}, {q1, q2, q3}),
                 Cacheable(k1, {q1}, {}), Cacheable(k2, {q1}, {})}
=============================================================================
