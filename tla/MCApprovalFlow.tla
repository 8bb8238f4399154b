---------------------------- MODULE MCApprovalFlow ----------------------------
(***************************************************************************)
(* Instances of ApprovalFlow for TLC: deliveries d1, d2, d3, request ids x,*)
(* y and z, plans whose transfers compete for the stock of three           *)
(* warehouses, and plans whose approval ends early.                        *)
(***************************************************************************)
EXTENDS ApprovalFlow, TLC

CONSTANTS d1, d2, d3, x, y, z, w1, w2, w3, w4,
          p1, p2, p3, p4, p5, p6, p7, p8, p9, p10, none

Actor(type, roles, source) == [type |-> type, roles |-> roles, source |-> source]

(* The only identity the human API gives an operations manager, and the    *)
(* one that the policies of approval and reallocation both accept.         *)
ApiManager == Actor("human", {"OperationsManager"}, "api")
InternalManager == Actor("human", {"OperationsManager"}, "internal")
ApiPlanner == Actor("human", {"Planner"}, "api")

Approval(id, actor, target) ==
  [id |-> id, action |-> "approveMitigationPlan", actor |-> actor,
   plan |-> target, wellFormed |-> TRUE]

Two == {d1, d2}
Three == {d1, d2, d3}
Ids == {x, y, z}
Warehouses == {w1, w2, w3}

Move(from, to, quantity) == [from |-> from, to |-> to, quantity |-> quantity]

-----------------------------------------------------------------------------
(* p1 and p2 want the same five units of w1, p3 goes the other way.  p4    *)
(* transfers to a warehouse without an inventory row, p5 more than the     *)
(* column of its destination holds, p6 is typed as a reallocation but has  *)
(* no step, p7 asks for nothing, p8 needs no transfer, p9 has no usable    *)
(* notes, p10 transfers from a warehouse to itself.                        *)
CompetingPlans == {p1, p2, p3}
OddPlans == {p4, p5, p6, p7, p8, p9, p10}
AllPlans == CompetingPlans \union OddPlans
TypedPlans == {p1, p3, p6, p9}
PlansWithStep == AllPlans \ {p6, p8}
FrozenPlans == PlansWithStep \ {p9}
Transfers ==
  p1 :> Move(w1, w2, 3) @@ p2 :> Move(w1, w3, 3) @@ p3 :> Move(w2, w1, 2)
    @@ p4 :> Move(w1, w4, 1) @@ p5 :> Move(w1, w2, 5) @@ p7 :> Move(w1, w2, 0)
    @@ p10 :> Move(w1, w1, 1)
ReservedStock == w1 :> 1 @@ w2 :> 1 @@ w3 :> 0
OnHandStock == w1 :> 6 @@ w2 :> 6 @@ w3 :> 0

-----------------------------------------------------------------------------
(* Three deliveries that compete, under one, two or three ids.  Deliveries *)
(* of one id are in the order of their plans, and so are all of them if no *)
(* id is repeated: any other order is one of these by another name.        *)
Deliveries(a, b, c) == d1 :> a @@ d2 :> b @@ d3 :> c

Competition ==
  LET nth == <<p1, p2, p3>>
  IN {Deliveries(Approval(w[4][1], InternalManager, nth[w[1]]),
                 Approval(w[4][2], InternalManager, nth[w[2]]),
                 Approval(w[4][3], InternalManager, nth[w[3]])) :
        w \in {v \in (1..3) \X (1..3) \X (1..3)
                       \X {<<x, y, z>>, <<x, x, y>>, <<x, x, x>>} :
                 /\ v[1] <= v[2]
                 /\ v[4] # <<x, x, y>> => v[2] <= v[3]}}

(* An approval that ends early, delivered twice, beside one that goes      *)
(* through; and one that is delivered twice beside a call that is refused. *)
Refusals ==
  {Approval(y, ApiPlanner, p8), Approval(y, ApiManager, p7), Approval(y, ApiManager, p8),
   [Approval(y, InternalManager, p8) EXCEPT !.wellFormed = FALSE],
   [Approval(y, InternalManager, p8) EXCEPT !.action = "reallocateInventory"]}
Twice(a, b) == Deliveries(a, b, a)
Oddities ==
  {Twice(Approval(x, InternalManager, p), Approval(y, InternalManager, p3)) :
     p \in OddPlans \union {none}}
    \union {Twice(Approval(x, InternalManager, p1), b) : b \in Refusals}

AnyCall ==
  {Approval(i, InternalManager, p) : i \in Ids, p \in AllPlans \union {none}}
    \union Refusals
MCInit == FlowInit /\ call \in Competition \union Oddities
MCSpec == MCInit /\ [][Next]_vars /\ FlowFairness

-----------------------------------------------------------------------------
(* An operations manager approves over the API.                            *)
ApiCalls == {Approval(i, ApiManager, p) : i \in Ids, p \in CompetingPlans}

-----------------------------------------------------------------------------
NoFaults == {}
AllFaults == {"crash", "db_error", "lost_ack"}
NoDelivery == {}
Exact(n) == n

(* Quantities in halves of the column's unit; halves are rounded up.       *)
RoundedUp(n) == ((n + 1) \div 2) * 2
HalfUnitTransfers ==
  p1 :> Move(w1, w2, 3) @@ p2 :> Move(w1, w3, 2) @@ p3 :> Move(w2, w1, 2)
HalfUnitReserved == w1 :> 2 @@ w2 :> 0 @@ w3 :> 0
HalfUnitCalls == {Approval(i, InternalManager, p) : i \in Ids, p \in CompetingPlans}
==============================================================================
