--------------------------- MODULE MCSharedGroup ---------------------------
EXTENDS SharedGroup, TLC
CONSTANTS s1, s2, r1, r2, r3

MCSessions == {s1, s2}
MCRequests == {r1, r2, r3}
MCOwnerOf == (r1 :> s1) @@ (r2 :> s1) @@ (r3 :> s2)
MCSizeOf == (r1 :> 1) @@ (r2 :> 1) @@ (r3 :> 3)
=============================================================================
