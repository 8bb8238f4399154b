SPECIFICATION MCSpec
CONSTANTS
  d1 = d1
  d2 = d2
  d3 = d3
  x = x
  y = y
  z = z
  p1 = p1
  p2 = p2
  p3 = p3
  p4 = p4
  p5 = p5
  p6 = p6
  p7 = p7
  p8 = p8
  p9 = p9
  p10 = p10
  none = none
  w1 = w1
  w2 = w2
  w3 = w3
  w4 = w4
  NoOwner = NoOwner
  Requests <- Three
  ExecIds <- Ids
  Calls <- AnyCall
  ErrorCodes <- FlowCodes
  NonConforming <- NoDelivery
  FaultKinds <- AllFaults
  MaxFaults = 2
  Plans <- AllPlans
  ReallocateTyped <- TypedPlans
  HasStep <- PlansWithStep
  Frozen <- FrozenPlans
  Transfer <- Transfers
  Positions <- Warehouses
  Held <- ReservedStock
  FirstStock <- OnHandStock
  MaxStock = 10
  Stored <- Exact
INVARIANTS FlowTypeOK PlanApprovedOnce HeldStockIsKept ApprovalExecutesStep TrailIsComplete StockIsAccountedFor
PROPERTY ApprovalIsAnswered
CHECK_DEADLOCK FALSE
