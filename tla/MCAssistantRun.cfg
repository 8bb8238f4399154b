SPECIFICATION Spec
CONSTANTS
  r1 = r1
  e1 = e1
  Runs <- One
  Asks <- Messages
  RiskEvents <- Events
  MaxCalls = 2
  MaxDeltas = 1
INVARIANTS StreamInOrder CompletionTellsAll DraftsOnlyOnRequest SilenceHasACause
PROPERTIES TimeoutIsFinal EveryRunEnds
CHECK_DEADLOCK FALSE
