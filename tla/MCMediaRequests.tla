------------------------- MODULE MCMediaRequests -------------------------
EXTENDS MediaRequests, TLC

CONSTANTS r1, r2, w1, w2, a1, b1, b2

Symmetry == Permutations({r1, r2}) \cup Permutations({w1, w2})
=============================================================================
