CONSTANTS
    p1 = p1
    p2 = p2
    p3 = p3
    s1 = s1
    s2 = s2
    s3 = s3
    c1 = c1
    c2 = c2
    c3 = c3
    None = None
    Posts = {p1, p2}
    Sids = {s1, s2}
    Children = {c1, c2}
    Cap = 1
    SpawnMayFail = TRUE
SYMMETRY Symmetry
SPECIFICATION Spec
INVARIANTS
    SessionsKept
