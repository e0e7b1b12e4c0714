------------------------ MODULE MCDocumentIndexing ------------------------
EXTENDS DocumentIndexing, TLC

CONSTANTS f, w1, w2, q1, q2

Symmetry == Permutations({w1, w2}) \cup Permutations({q1, q2})
=============================================================================
