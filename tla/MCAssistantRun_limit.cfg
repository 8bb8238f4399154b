SPECIFICATION Spec
CONSTANTS
  r1 = r1
  e1 = e1
  Runs <- One
  Asks <- DraftRequests
  RiskEvents <- Events
  MaxCalls = 2
  MaxDeltas = 1
PROPERTY LimitIsFinal
CHECK_DEADLOCK FALSE
