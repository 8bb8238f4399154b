SPECIFICATION Safety
CONSTANTS
  d1 = d1
  d2 = d2
  d3 = d3
  x = x
  y = y
  z = z
  e1 = e1
  e2 = e2
  e3 = e3
  e4 = e4
  none = none
  Requests <- Two
  ExecIds <- Ids
  Calls <- GenerationsOnly
  ErrorCodes <- Codes
  NonConforming <- NoDelivery
  FaultKinds <- NoFaults
  MaxFaults = 0
  Events <- RiskEvents
  EventStatus <- RiskStatus
  Recommendations <- RegisteredOnly
INVARIANT RecommendationIsPersisted
CHECK_DEADLOCK FALSE
