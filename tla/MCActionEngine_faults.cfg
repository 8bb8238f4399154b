SPECIFICATION EngineSpec
CONSTANTS
  d1 = d1
  d2 = d2
  d3 = d3
  x = x
  y = y
  Requests <- Deliveries
  ExecIds <- Ids
  Calls <- AnyCall
  ErrorCodes <- Codes
  NonConforming <- ThirdDelivery
  FaultKinds <- AllFaults
  MaxFaults = 2
INVARIANTS EffectsAtMostOncePerId OutcomeIsTrue OpenRowHasOwner
PROPERTIES ImplementsLedger StartedIsAnswered
CHECK_DEADLOCK FALSE
