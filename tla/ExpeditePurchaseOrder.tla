------------------------ MODULE ExpeditePurchaseOrder -------------------------
(***************************************************************************)
(* The handler of expeditePurchaseOrder, as transactions of the children   *)
(* of executing plans.  Each locks the purchase order, then the plan; the  *)
(* rows it locks after that (items, steps) are touched by no one who does  *)
(* not hold one of these two, so their locks are left out.                 *)
(***************************************************************************)
EXTENDS SupplyTables

CONSTANTS
  ExpediteCalls,  \* transactions: purchase, plan, date, cost, child, as read below
  CallOf,         \* what each of them asks for
  PlanStatus,     \* status of each plan; this handler never changes it
  StepOf,         \* plan steps of type expedite_purchase_order: plan, purchase, order, notes
  ExecutedOn,     \* date of the calls
  Nobody          \* no transaction

ASSUME NobodyAssumption == Nobody \notin ExpediteCalls
ASSUME ExecutedOnAssumption == ExecutedOn \in Int
ASSUME StepOrderAssumption == \A s \in DOMAIN StepOf : StepOf[s].order \in Nat

VARIABLES
  turn,      \* the statement each transaction is at
  holder,    \* the transaction that holds each row's lock
  seen,      \* the purchase order as each transaction has read it
  stepStatus,
  audit      \* one pair of audit rows per expedited purchase order

expediteVars == <<turn, holder, seen, stepStatus, audit>>

Refusals ==
  {"OPERATION_NOT_PERMITTED", "INVALID_ADDITIONAL_COST", "OBJECT_NOT_FOUND",
   "INVALID_MITIGATION_PLAN_STATE", "INVALID_PURCHASE_ORDER_STATE",
   "PURCHASE_ORDER_ALREADY_EXPEDITED", "INVALID_EXPECTED_DELIVERY_DATE",
   "PURCHASE_ORDER_HAS_NO_OPEN_QUANTITY", "INVALID_MITIGATION_STEP",
   "INVALID_MITIGATION_STEP_STATE", "PURCHASE_ORDER_PART_NOT_OPEN", "ACTION_EXECUTION_FAILED"}
Finished == Refusals \union {"expedited"}

LockedRows == ({"purchase"} \X DOMAIN db.purchase) \union ({"plan"} \X DOMAIN PlanStatus)
Unseen == [status |-> "none"]

ExpediteInit ==
  /\ turn \in [ExpediteCalls -> {"called", "absent"}]
  /\ holder = [row \in LockedRows |-> Nobody]
  /\ seen = [c \in ExpediteCalls |-> Unseen]
  /\ stepStatus = [s \in DOMAIN StepOf |-> StepOf[s].status]
  /\ audit = {}

OrderOf(c) == CallOf[c].purchase
PlanOf(c) == CallOf[c].plan
Free(row) == holder[row] = Nobody
Freed(c) == [row \in LockedRows |-> IF holder[row] = c THEN Nobody ELSE holder[row]]

(* Mutant of Leave: the transaction stays open.                            *)
LeaveOpen(c, outcome) ==
  /\ turn' = [turn EXCEPT ![c] = outcome]
  /\ UNCHANGED <<db, holder, seen, stepStatus, audit>>

(* An error leaves the handler: the transaction rolls back.                *)
Leave(c, outcome) ==
  /\ turn' = [turn EXCEPT ![c] = outcome]
  /\ holder' = Freed(c)
  /\ UNCHANGED <<db, seen, stepStatus, audit>>

-----------------------------------------------------------------------------
(* _validate_child_action_context, then the cost. *)
CallProblem(c) ==
  CASE ~CallOf[c].child   -> "OPERATION_NOT_PERMITTED"
    [] CallOf[c].child /\ CallOf[c].cost < 0 -> "INVALID_ADDITIONAL_COST"
    [] OTHER              -> "ok"

Enter(c) ==
  /\ turn[c] = "called"
  /\ IF CallProblem(c) # "ok" THEN Leave(c, CallProblem(c))
     ELSE /\ turn' = [turn EXCEPT ![c] = "purchase"]
          /\ UNCHANGED <<db, holder, seen, stepStatus, audit>>

(* Mutant of LockPurchase: the SELECT is not FOR UPDATE.                   *)
ReadPurchase(c) ==
  /\ turn[c] = "purchase"
  /\ OrderOf(c) \in DOMAIN db.purchase
  /\ seen' = [seen EXCEPT ![c] = db.purchase[OrderOf(c)]]
  /\ turn' = [turn EXCEPT ![c] = "plan"]
  /\ UNCHANGED <<db, holder, stepStatus, audit>>

LockPurchase(c) ==
  /\ turn[c] = "purchase"
  /\ OrderOf(c) \in DOMAIN db.purchase
  /\ Free(<<"purchase", OrderOf(c)>>)
  /\ holder' = [holder EXCEPT ![<<"purchase", OrderOf(c)>>] = c]
  /\ seen' = [seen EXCEPT ![c] = db.purchase[OrderOf(c)]]
  /\ turn' = [turn EXCEPT ![c] = "plan"]
  /\ UNCHANGED <<db, stepStatus, audit>>

LockExpeditedPlan(c) ==
  /\ turn[c] = "plan"
  /\ PlanOf(c) \in DOMAIN PlanStatus
  /\ Free(<<"plan", PlanOf(c)>>)
  /\ holder' = [holder EXCEPT ![<<"plan", PlanOf(c)>>] = c]
  /\ turn' = [turn EXCEPT ![c] = "decide"]
  /\ UNCHANGED <<db, seen, stepStatus, audit>>

RowMissing(c) ==
  /\ \/ turn[c] = "purchase" /\ OrderOf(c) \notin DOMAIN db.purchase
     \/ turn[c] = "plan" /\ PlanOf(c) \notin DOMAIN PlanStatus
  /\ Leave(c, "OBJECT_NOT_FOUND")

-----------------------------------------------------------------------------
(* The frozen step: the first in step order whose notes say what the call  *)
(* asks for.  Notes that cannot be read end the search with an error.      *)
Usable(s) == StepOf[s].notes.usable
Frozen(s, c) ==
  /\ Usable(s)
  /\ StepOf[s].notes.purchase = OrderOf(c)
  /\ StepOf[s].notes.date = CallOf[c].date
  /\ StepOf[s].notes.cost = CallOf[c].cost

StepsFor(c) ==
  {s \in DOMAIN StepOf : StepOf[s].plan = PlanOf(c) /\ StepOf[s].purchase = OrderOf(c)}
Decisive(c) == {s \in StepsFor(c) : ~Usable(s) \/ Frozen(s, c)}
StepFor(c) ==
  CHOOSE s \in Decisive(c) : \A t \in Decisive(c) : StepOf[s].order <= StepOf[t].order

StepProblem(c) ==
  IF StepsFor(c) = {} THEN "OBJECT_NOT_FOUND"
  ELSE IF Decisive(c) = {} \/ ~Usable(StepFor(c)) THEN "INVALID_MITIGATION_STEP"
  ELSE IF stepStatus[StepFor(c)] # "pending" THEN "INVALID_MITIGATION_STEP_STATE"
  ELSE "ok"

AnyPart == 0

(* The order's items; AnyPart where the step froze none.                *)
OpenItemsOf(o, part) ==
  {i \in DOMAIN db.item : /\ db.item[i].purchase = o
                          /\ part \in {AnyPart, db.item[i].part}
                          /\ OpenQuantity(i) > 0}

PurchaseProblem(c) ==
  IF PlanStatus[PlanOf(c)] # "executing" THEN "INVALID_MITIGATION_PLAN_STATE"
  ELSE IF seen[c].status # "open" THEN "INVALID_PURCHASE_ORDER_STATE"
  ELSE IF seen[c].expedited THEN "PURCHASE_ORDER_ALREADY_EXPEDITED"
  ELSE IF \/ seen[c].expected = NoDate
          \/ CallOf[c].date \notin ExecutedOn..(seen[c].expected - 1)
       THEN "INVALID_EXPECTED_DELIVERY_DATE"
  ELSE IF OpenItemsOf(OrderOf(c), AnyPart) = {} THEN "PURCHASE_ORDER_HAS_NO_OPEN_QUANTITY"
  ELSE "ok"

Problem(c) ==
  IF PurchaseProblem(c) # "ok" THEN PurchaseProblem(c)
  ELSE IF StepProblem(c) # "ok" THEN StepProblem(c)
  ELSE IF OpenItemsOf(OrderOf(c), StepOf[StepFor(c)].notes.part) = {}
       THEN "PURCHASE_ORDER_PART_NOT_OPEN"
  ELSE "ok"

RefuseExpedite(c) ==
  /\ turn[c] = "decide"
  /\ Problem(c) # "ok"
  /\ Leave(c, Problem(c))

CommitExpedite(c) ==
  LET o == OrderOf(c)
  IN /\ turn[c] = "decide"
     /\ Problem(c) = "ok"
     /\ db' = [db EXCEPT !.purchase[o].expected = CallOf[c].date,
                         !.purchase[o].expedited = TRUE,
                         !.purchase[o].cost = CallOf[c].cost]
     /\ stepStatus' = [stepStatus EXCEPT ![StepFor(c)] = "executed"]
     /\ audit' = audit \union {[call |-> c, purchase |-> o, step |-> StepFor(c),
                                before |-> seen[c].expected, after |-> CallOf[c].date]}
     /\ turn' = [turn EXCEPT ![c] = "expedited"]
     /\ holder' = Freed(c)
     /\ UNCHANGED seen

(* The database fails a statement or the commit.                           *)
ExpediteFault(c) ==
  /\ turn[c] \in {"purchase", "plan", "decide"}
  /\ Leave(c, "ACTION_EXECUTION_FAILED")

ExpediteStep ==
  \E c \in ExpediteCalls :
    \/ Enter(c) \/ LockPurchase(c) \/ LockExpeditedPlan(c) \/ RowMissing(c)
    \/ RefuseExpedite(c) \/ CommitExpedite(c) \/ ExpediteFault(c)
==============================================================================
