------------------------------- MODULE MCMinBft -------------------------------
EXTENDS MinBft, TLC
CONSTANTS r0, r1, r2, r3, c1, c2, c3

Symmetry == Permutations(Live \ {Primary}) \cup Permutations(Clients)
=============================================================================
