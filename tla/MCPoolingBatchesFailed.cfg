CONSTANTS
  None = None
  Settings = {a, b}
  Cancel = Cancel
  MaxRequests = 2
  MaxCalls = 4
  MaxDeaths = 0
SPECIFICATION Spec
INVARIANT
  FailedIsFinal
CHECK_DEADLOCK FALSE
