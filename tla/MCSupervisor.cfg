CONSTANTS
  None = None
  Platforms = {"windows"}
  MaxSups = 2
  MaxBridges = 2
  MaxControls = 2
  MaxStops = 1
  MaxFaults = 1
  MaximumPinPasses = 2
  MaximumSweepRounds = 3
  MaximumSweptProcesses = 3
  MaxProcesses = 6
  MaxExits = 1
  MaxSweepFaults = 1
SPECIFICATION MCSpec
INVARIANTS
  StoppedMeansStopped
  AdmissionAsTold
  SweepSound
CHECK_DEADLOCK FALSE
