CONSTANTS
    s1 = s1
    c1 = c1
    c2 = c2
    c3 = c3
    c4 = c4
    k1 = k1
    k2 = k2
    k3 = k3
    Starts = {s1}
    Children = {c1, c2, c3, c4}
    MaxWarm = 2
    MaxStrays = 1
    MaxSpawns = 1
    QuickKill = TRUE
    Kids = {k1, k2, k3}
    NoThread = NoThread
    MaxThreads = 3
    Numbers = {1, 2}
    MaxObservations = 2
    MaxPrimaryChanges = 1
SPECIFICATION MCSpec
INVARIANTS
    PoolAccounted
    LifetimeHeld
    NothingOverlooked
PROPERTIES
    PoolComesBack
    EndsTogether

