CONSTANTS
  s1 = s1
  s2 = s2
  r1 = r1
  r2 = r2
  r3 = r3
  Sessions <- MCSessions
  Requests <- MCRequests
  OwnerOf <- MCOwnerOf
  SizeOf <- MCSizeOf
  MaxSessions = 2
  MaxInFlight = 2
  MaxQueued = 3
  MaxIds = 2
  BufferLimit = 3
  HighWater = 2
SPECIFICATION FairSpec
INVARIANTS
  NoRequestLost
  Traced
  WorkConserving
PROPERTIES
  KeepsContract
  LivesOnce
  EachToItsOwn
  SlotsComeBack
CHECK_DEADLOCK FALSE
