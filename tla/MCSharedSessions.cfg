CONSTANTS
    n1 = n1
    n2 = n2
    k1 = k1
    k2 = k2
    c1 = c1
    c2 = c2
    Names = {n1, n2}
    Keys = {k1, k2}
    Callers = {c1, c2}
    MaxSessions = 2
    MaxGroups = 2
    MaxCooldowns = 1
    MaxGenerations = 2
SPECIFICATION FairSpec
INVARIANTS
    ProcessesKept
PROPERTIES
    CallersAnswered
    LivesLikeAGroup
CHECK_DEADLOCK FALSE
