--------------------------- MODULE MCPlanGeneration --------------------------
(***************************************************************************)
(* Instances of PlanGeneration for TLC: deliveries d1, d2, d3, request ids *)
(* x, y, z, risk events e1, e2 and e4, which may have plans, and e3, which *)
(* is resolved.                                                            *)
(***************************************************************************)
EXTENDS PlanGeneration, TLC

CONSTANTS d1, d2, d3, x, y, z, e1, e2, e3, e4, none

Two == {d1, d2}
Three == {d1, d2, d3}
Ids == {x, y, z}
RiskEvents == {e1, e2, e3, e4}
RiskStatus == e1 :> "open" @@ e2 :> "investigating" @@ e3 :> "resolved" @@ e4 :> "open"
Codes == GenerationCodes \union {"INVALID_ACTION_INPUT"}
NoDelivery == {}
NoFaults == {}
AllFaults == {"crash", "db_error", "lost_ack"}

Generation(i, e) == [id |-> i, action |-> "generateMitigationPlan", event |-> e]
Approval(i, c) == [id |-> i, action |-> "approveMitigationPlan", target |-> c]

Reallocation(n) ==
  [number |-> n, type |-> "reallocate_inventory", complete |-> TRUE, valid |-> TRUE]
Expedition(n) == [Reallocation(n) EXCEPT !.type = "expedite_purchase_order"]
Shipment(n) == [Reallocation(n) EXCEPT !.type = "prioritize_shipment"]

Steps(s) == [kind |-> "steps", steps |-> s]
Registered == [kind |-> "recommendations"]
Feasible == Steps(<<Reallocation(1), Expedition(2)>>)

(* Every way a recommendation can end a generation.                        *)
OddRecommendations ==
  {[kind |-> "error", code |-> "RISK_EVENT_NOT_FOUND"], Registered, Feasible,
   Steps(<<>>),
   Steps(<<Reallocation(1), [Reallocation(2) EXCEPT !.type = "other"]>>),
   Steps(<<Expedition(1), [Expedition(2) EXCEPT !.complete = FALSE]>>),
   Steps(<<Reallocation(1), [Reallocation(2) EXCEPT !.valid = FALSE], Shipment(3)>>),
   Steps(<<Shipment(1)>>),
   Steps(<<Reallocation(1), Expedition(1)>>)}
OddOnFourth == [e \in RiskEvents |-> IF e = e4 THEN OddRecommendations ELSE {Feasible}]
FeasibleOnly == [e \in RiskEvents |-> {Feasible}]

(* What the registered function returns for impacted orders.               *)
RegisteredOnly == [e \in RiskEvents |-> {Registered}]

-----------------------------------------------------------------------------
(* Three deliveries under one, two or three ids, each of which generates a *)
(* plan for e1 or e2 or approves the first plan that is made.  Deliveries  *)
(* of one id are in the order of Rank, and so are all of them if no id is  *)
(* repeated: any other order is one of these by another name.              *)
Competitors == {Generation(x, e1), Generation(x, e2), Approval(x, FirstCode)}
Under(c, i) == [c EXCEPT !.id = i]
Deliveries(a, b, c) == d1 :> a @@ d2 :> b @@ d3 :> c

Rank(c) ==
  CASE c.action = "approveMitigationPlan" -> 3
    [] c.action = "generateMitigationPlan" /\ c.event = e2 -> 2
    [] OTHER -> 1

Competition ==
  {Deliveries(Under(a, i[1]), Under(b, i[2]), Under(c, i[3])) :
     <<a, b, c, i>> \in {w \in Competitors \X Competitors \X Competitors
                              \X {<<x, y, z>>, <<x, x, y>>, <<x, x, x>>} :
                          /\ Rank(w[1]) <= Rank(w[2])
                          /\ w[4] # <<x, x, y>> => Rank(w[2]) <= Rank(w[3])}}

(* A generation for e1 and one for e4 beside a call that is refused; two   *)
(* for e4, and an approval or a repeated id.                               *)
Refusals == {Generation(z, e3), Generation(z, none), Approval(z, FirstCode + 1)}
Oddities ==
  {Deliveries(Generation(x, e1), Generation(y, e4), c) : c \in Refusals} \union
  {Deliveries(Generation(x, e4), Generation(y, e4), c) :
     c \in {Approval(z, FirstCode), Generation(x, e1)}}

AnyCall ==
  {Under(c, i) : c \in Competitors, i \in Ids} \union Refusals
    \union {Generation(i, e4) : i \in Ids}
MCInit == GenerationInit /\ call \in Competition \union Oddities
MCSpec == MCInit /\ [][Next]_vars /\ GenerationFairness

GenerationsOnly == {Generation(i, e) : i \in Ids, e \in {e1, e2}}
==============================================================================
