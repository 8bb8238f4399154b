------------------------------ MODULE SupplyFlow ------------------------------
(***************************************************************************)
(* The recommendation function reading the supply-chain tables while       *)
(* transactions that expedite purchase orders and reallocate stock commit. *)
(***************************************************************************)
EXTENDS MitigationRecommendation, ExpeditePurchaseOrder

CONSTANTS
  Worlds,       \* contents of the tables when the function is called alone
  BusyWorlds    \* contents of the tables when every expedite call is under way

ASSUME WorldAssumption ==
  \A world \in Worlds \union BusyWorlds :
    /\ TablesOK(world)
    /\ \A o \in DOMAIN world.purchase :
         {"expected", "expedited", "cost"} \subseteq DOMAIN world.purchase[o]

supplyVars == <<db, recommendVars, expediteVars>>

SupplyInit ==
  /\ \/ db \in Worlds /\ turn = [c \in ExpediteCalls |-> "absent"]
     \/ db \in BusyWorlds /\ turn = [c \in ExpediteCalls |-> "called"]
  /\ RecommendInit
  /\ ExpediteInit

Reads == (RecommendStep \/ StockMoves) /\ UNCHANGED expediteVars

Counted == commits' = IF db' = db THEN commits ELSE commits + 1

Expediting == ExpediteStep /\ UNCHANGED callVars /\ Counted

SupplyNext == Reads \/ Expediting

ExpediteProgress(c) ==
  /\ \/ Enter(c) \/ LockPurchase(c) \/ LockExpeditedPlan(c) \/ RowMissing(c)
     \/ RefuseExpedite(c) \/ CommitExpedite(c)
  /\ UNCHANGED callVars
  /\ Counted

SupplySafety == SupplyInit /\ [][SupplyNext]_supplyVars

(* The database serves every transaction sooner or later.                  *)
SupplySpec ==
  SupplySafety /\ \A c \in ExpediteCalls : WF_supplyVars(ExpediteProgress(c))

-----------------------------------------------------------------------------
(* A supplier's delay never helps: the longer it is, the shorter every     *)
(* part of the supplier, and no order that a delay leaves short gets more  *)
(* when the delay is longer (impacts.py, baseline and delayed scenario).   *)
(* Of orders this is so among delays that hit parts of the same products:  *)
(* another product brings its own warehouses, whose stock counts for the   *)
(* other parts from then on (_build_part_projections, demand_warehouses).  *)
DelayNeverHelps ==
  pc = "find" /\ EventProblem = "ok" =>
    LET longer == Projections(PartsOfSupplier, Delay)
        hit == ImpactedOrders(Delay)
        Products(d) == ProductsUsing(ImpactedParts(d))
    IN \A d \in 0..Delay :
         /\ LET shorter == Projections(PartsOfSupplier, d)
            IN \A p \in PartsOfSupplier : shorter[p].shortage <= longer[p].shortage
         /\ Products(d) = Products(Delay) =>
              \A e \in ImpactedOrders(d) :
                \E f \in hit : e.order = f.order /\ e.shortage <= f.shortage

(* What can be built of a product goes to its order lines in order of      *)
(* urgency: nothing is given twice, nothing is kept while someone is short,*)
(* and no line gets anything while a more urgent order's line is short.    *)
UrgentOrdersAreServedFirst ==
  pc = "find" /\ EventProblem = "ok" =>
    \A e \in ImpactedProducts(Delay) :
      LET lines == OrderLines({e.product})
          Got(l) == Allocation(l, e.delayed)
      IN /\ Total(lines, Got) = Least(e.delayed, Total(lines, Unfulfilled))
         /\ \A k, l \in lines :
              /\ Order(k).priority > Order(l).priority
              /\ Got(k) < Unfulfilled(k)
              => Got(l) = 0

(* The recommended quantities and the shortage left over are the whole     *)
(* shortage: nothing is covered twice and nothing is lost between the two  *)
(* sources (recommend_mitigation_plan, the loop and its three sums).  And  *)
(* a strategy that names a single remedy, on which a generated plan is     *)
(* built, resolves all of it.                                              *)
RecommendationAddsUp ==
  pc = "answered" =>
    /\ answer.unresolved + Total(DOMAIN steps, LAMBDA k : steps[k].quantity) = total
    /\ answer.strategy \in {"REALLOCATE_INVENTORY", "EXPEDITE_PURCHASE_ORDER"} =>
          answer.unresolved = 0

(* While no one else changes the stock, the transfers recommended out of   *)
(* one warehouse never exceed what it can give away and keep its safety    *)
(* stock, however many orders want them (transfer_claims).                 *)
NothingPromisedTwice ==
  pc = "answered" /\ commits = 0 =>
    \A k \in DOMAIN db.inventory :
      LET taken == {n \in DOMAIN steps : /\ steps[n].type = "REALLOCATE_INVENTORY"
                                        /\ <<steps[n].part, steps[n].from>> = k}
      IN taken # {} =>
           Total(taken, LAMBDA n : steps[n].quantity)
             <= Transferable(k[1], k[2], Max({e.required : e \in found}))

(* A purchase order is expedited once, whatever plans and steps ask for it *)
(* at the same time: to an earlier date, the date that is in its row, by a *)
(* step that is executed (expedite_purchase_order.py, the row locks).      *)
ExpeditedOnce ==
  /\ \A a, b \in audit : a.purchase = b.purchase => a = b
  /\ \A a \in audit : /\ a.after < a.before
                      /\ db.purchase[a.purchase].expected = a.after
                      /\ stepStatus[a.step] = "executed"

(* Calls that wait for each other's purchase orders and plans all end: the *)
(* purchase order is locked before the plan by every call.                 *)
EveryExpediteEnds ==
  \A c \in ExpediteCalls : turn[c] = "called" ~> turn[c] \in Finished
==============================================================================
