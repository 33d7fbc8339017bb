CONSTANTS
  None = None
  Settings = {a, b}
  Cancel = Cancel
  MaxRequests = 2
  MaxCalls = 4
  MaxDeaths = 1
  RollAt = 2
  MaxEvents = 4
SPECIFICATION MCSpec
INVARIANTS
  TruthfulCalls
  AnswersTrue
PROPERTIES
  EveryRequestAnswered
  LogRead
  CatchesUp
CHECK_DEADLOCK FALSE
