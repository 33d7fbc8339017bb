CONSTANTS
    p1 = p1
    p2 = p2
    s1 = s1
    c1 = c1
    c2 = c2
    None = None
    Posts = {p1, p2}
    Sids = {s1}
    Children = {c1, c2}
    Cap = 1
    SpawnMayFail = FALSE
    QueueLimit = 1
    MaxCommands = 2
    MaxReceives = 2
    MaxPeerFrames = 2
    MaxChannelFaults = 1
SPECIFICATION MCSpec
INVARIANTS
    QueuedOnlyWhenFull
    ChannelTold
PROPERTIES
    EveryRequestEnds
    ChannelEnds
