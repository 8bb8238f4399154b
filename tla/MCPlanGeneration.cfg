SPECIFICATION MCSpec
CONSTANTS
  d1 = d1
  d2 = d2
  d3 = d3
  x = x
  y = y
  z = z
  e1 = e1
  e2 = e2
  e3 = e3
  e4 = e4
  none = none
  Requests <- Three
  ExecIds <- Ids
  Calls <- AnyCall
  ErrorCodes <- Codes
  NonConforming <- NoDelivery
  FaultKinds <- AllFaults
  MaxFaults = 1
  Events <- RiskEvents
  EventStatus <- RiskStatus
  Recommendations <- OddOnFourth
INVARIANTS OneActivePlanPerEvent CodesHaveNoGaps CollisionHasAWinner DraftsAreWhole
PROPERTY CallIsAnswered
CHECK_DEADLOCK FALSE
