CONSTANTS
  Nobody = Nobody
  MaxOperations = 1
  MaxTaskFaults = 1
  MaxTaskChanges = 0
SPECIFICATION TaskSpec
PROPERTY
  NoWorkerNoHold
CHECK_DEADLOCK FALSE
