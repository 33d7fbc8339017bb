------------------------- MODULE MCStreamableSessions -------------------------
EXTENDS StreamableSessions, TLC

CONSTANTS p1, p2, p3, s1, s2, s3, c1, c2, c3

Symmetry == Permutations(Posts) \cup Permutations(Sids) \cup Permutations(Children)
===============================================================================
