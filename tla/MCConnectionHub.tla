--------------------------- MODULE MCConnectionHub ---------------------------
EXTENDS ConnectionHub

CONSTANTS p1, p2, s1, s2

MCHome == [s \in Session |-> IF s = s1 THEN p1 ELSE p2]
MCEvents == [p \in Process |-> IF p = p1 THEN 2 ELSE 0]
=============================================================================
