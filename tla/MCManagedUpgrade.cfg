CONSTANTS
  None = None
  MaxGens = 3
  MaxFaults = 2
  MaxEdits = 1
  MaxStops = 1
  Nobody = Nobody
  MaxOperations = 3
  MaxTaskFaults = 2
  MaxTaskChanges = 1
  Nothing = Nothing
  MaxLegacyFaults = 3
  MaxDisturbances = 1
SPECIFICATION MCSpec
INVARIANTS
  NoRollbackOverNew
  ClosedUntilSettled
  LegacyKept
PROPERTIES
  RecoversBeforeLaunch
  TaskKept
CHECK_DEADLOCK FALSE
