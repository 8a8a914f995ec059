----------------------------- MODULE MCZyzzyva -----------------------------
EXTENDS Zyzzyva, TLC
CONSTANTS r0, r1, r2, r3, c1, c2
=============================================================================
