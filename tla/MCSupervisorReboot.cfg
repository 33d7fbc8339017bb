CONSTANTS
  None = None
  Platforms = {"posix"}
  MaxSups = 2
  MaxBridges = 2
  MaxControls = 0
  MaxStops = 0
  MaxFaults = 1
SPECIFICATION Spec
PROPERTIES
  StartsAgain
CHECK_DEADLOCK FALSE
