CONSTANTS
  None = None
  NoProcess = NoProcess
  p1 = p1
  p2 = p2
  p3 = p3
  Processes = {p1, p2, p3}
  MaxDrafts = 3
  MaxEdits = 1
  MaxFaults = 1
  MaxLate = 2
  MaxDeaths = 2
  Nothing = Nothing
  Settings = {0, 1}
  FirstSetting = 0
  MaxBatches = 2
  MaxAsks = 3
  MaxOthers = 1
  MaxBridges = 3
  MaxFrames = 1
  NoRun = NoRun
  MaxInvocations = 3
  MaxSourceEdits = 1
  MaxTampers = 1
  MaxLauncherDeaths = 1
  MaxErrors = 1
SPECIFICATION MCSpec
INVARIANTS
  TruthfulIfSavesAre
  StoreKept
  OneOwner
  OffersRight
  RunKept
PROPERTIES
  EditsSurvive
  NothingTakenBack
CHECK_DEADLOCK FALSE
