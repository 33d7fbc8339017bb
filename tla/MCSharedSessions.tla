--------------------------- MODULE MCSharedSessions ---------------------------
EXTENDS SharedSessions, TLC

CONSTANTS n1, n2, k1, k2, c1, c2

Symmetry == Permutations(Names) \cup Permutations(Keys) \cup Permutations(Callers)
=============================================================================
