------------------------------- MODULE MCNeo -------------------------------
EXTENDS Neo, TLC
CONSTANTS r0, r1, r2, r3, c1, c2, c3

Symmetry == Permutations(Live) \cup Permutations(Clients)

\* The indices of four replicas or fewer: all take the packet of offset 0, so
\* that they are interchangeable.
MCIndex == [r \in Replicas |-> CASE r = r0 -> 0 [] r = r1 -> 1
                                 [] r = r2 -> 2 [] OTHER -> 3]
=============================================================================
