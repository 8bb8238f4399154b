----------------------------- MODULE MCSupplyFlow -----------------------------
(***************************************************************************)
(* Instances of SupplyFlow for TLC: two parts of supplier 1, two products, *)
(* three orders, four warehouses in two countries, three purchase orders.  *)
(***************************************************************************)
EXTENDS SupplyFlow, TLC

CONSTANTS c1, c2, c3

Place(country, region, active) == [country |-> country, region |-> region, active |-> active]
Stock(onHand, reserved, safety) == [onHand |-> onHand, reserved |-> reserved, safety |-> safety]
CustomerOrder(priority, required, placed, status) ==
  [priority |-> priority, required |-> required, placed |-> placed, status |-> status]
Line(order, product, ordered) ==
  [order |-> order, product |-> product, ordered |-> ordered, allocated |-> 0]
Bound(order, warehouse, status) == [order |-> order, warehouse |-> warehouse, status |-> status]
PurchaseRow(supplier, expected, status) ==
  [supplier |-> supplier, expected |-> expected, status |-> status,
   expedited |-> FALSE, cost |-> 0]
Item(purchase, part, ordered) ==
  [purchase |-> purchase, part |-> part, ordered |-> ordered, received |-> 1, cost |-> 2]
Required(product, part, quantity) == [product |-> product, part |-> part, required |-> quantity]

(* delay: of the supplier; spare: stock of the other warehouses; due: date *)
(* of the first order, overdue if before Today; bound: destination of the  *)
(* second; late: when supplier 1 was to deliver.                           *)
World(delay, spare, due, bound, late) ==
  [event |-> [type |-> "supplier_delay", supplier |-> 1, delay |-> delay],
   suppliers |-> {1, 2},
   activeParts |-> {1, 2}, criticality |-> <<3, 0>>, activeProducts |-> {1, 2},
   supplierPart |-> {[supplier |-> 1, part |-> 1, active |-> TRUE],
                     [supplier |-> 1, part |-> 2, active |-> TRUE]},
   bom |-> {Required(1, 1, 2), Required(1, 2, 1), Required(2, 1, 1)},
   warehouse |-> <<Place("A", "n", TRUE), Place("A", "n", TRUE), Place("B", "n", TRUE),
                   Place("A", "s", FALSE)>>,
   inventory |-> <<1, 1>> :> Stock(3, 1, 1) @@ <<1, 2>> :> Stock(spare, 0, 1)
                   @@ <<1, 3>> :> Stock(spare, 1, 0) @@ <<2, 1>> :> Stock(4, 0, 2)
                   @@ <<1, 4>> :> Stock(9, 0, 0),
   transfer |-> {},
   order |-> <<CustomerOrder(1, due, 1, "open"), CustomerOrder(3, 12, 2, "delayed"),
               CustomerOrder(1, 9, 3, "allocated"), CustomerOrder(3, 9, 3, "shipped")>>,
   line |-> <<Line(1, 1, 2), Line(2, 2, 3), Line(3, 2, 2), Line(2, 1, 1), Line(4, 1, 5)>>,
   shipment |-> <<Bound(1, 1, "planned"), Bound(2, bound, "planned"),
                  Bound(2, NoWarehouse, "delivered"), Bound(3, 1, "in_transit")>>,
   purchase |-> <<PurchaseRow(1, late, "confirmed"), PurchaseRow(1, 11, "delayed"),
                  PurchaseRow(2, 8, "open"), PurchaseRow(2, 8, "partially_received")>>,
   item |-> <<Item(1, 1, 7), Item(2, 2, 3), Item(3, 1, 5), Item(4, 1, 2), Item(2, 1, 4)>>]

Unsupported == [type |-> "weather", supplier |-> 1, delay |-> 1]

(* One order only, of a product that takes one part; the same with no      *)
(* other warehouse to help; two orders for more than one warehouse, part of*)
(* whose stock is promised, can give; and two orders, one of them for two  *)
(* products, that want more than there is.                                 *)
Alone(world) == [world EXCEPT !.line = <<Line(1, 2, 7)>>]
Helpless(world) ==
  [world EXCEPT !.line = <<Line(1, 2, 12)>>, !.item = <<Item(1, 1, 13)>>,
                !.inventory = <<1, 1>> :> Stock(3, 1, 1)]
Contested(world) ==
  [world EXCEPT !.line = <<Line(1, 2, 7), Line(2, 2, 7)>>, !.item = <<Item(1, 1, 13)>>,
                !.transfer = {[status |-> "approved", part |-> 1, source |-> 2, quantity |-> 4]}]
Crowded(world) ==
  [world EXCEPT !.line = <<Line(1, 1, 3), Line(2, 2, 9), Line(2, 1, 4)>>]

(* Of two products one has its orders at a warehouse that also stocks the  *)
(* part of the other; only the longest delays hit both.                    *)
Apart(world) ==
  [world EXCEPT !.bom = {Required(1, 1, 1), Required(2, 2, 1)},
                !.inventory = <<1, 2>> :> Stock(5, 0, 0),
                !.order[1].required = 12,
                !.line = <<Line(1, 1, 10), Line(3, 2, 5)>>,
                !.shipment[4].warehouse = 2,
                !.purchase = <<PurchaseRow(1, 12, "confirmed"), PurchaseRow(1, 7, "confirmed")>>,
                !.item = <<Item(1, 1, 7), Item(2, 2, 6)>>]

AnalysisWorlds ==
  {World(0, 2, 8, 1, 7), Alone(World(9, 20, 12, 1, 7)), Helpless(World(9, 2, 12, 1, 7)),
   Contested(World(9, 2, 12, 1, 7)), Apart(World(9, 5, 12, 1, 7)),
   Crowded(World(9, 5, 12, 1, 7)), Crowded(World(9, 5, 4, 2, 7))}
  \union
  {World(d, s, due, b, late) : d \in {2, 9}, s \in {2, 5}, due \in {4, 8, 12},
                               b \in {NoWarehouse, 1, 2}, late \in {7, NoDate}}
  \union {[World(2, 2, 8, 1, 7) EXCEPT !.event = e] :
            e \in {Unsupported,
                   [type |-> "missing", supplier |-> 1, delay |-> 0],
                   [type |-> "supplier_delay", supplier |-> 9, delay |-> 1]}}

-----------------------------------------------------------------------------
(* Two plans want purchase order 3, one of them purchase order 5 as well,  *)
(* which may be gone.                                                      *)
ThreeCalls == {c1, c2, c3}
Ask(purchase, plan, date) ==
  [purchase |-> purchase, plan |-> plan, date |-> date, cost |-> 1, child |-> TRUE]
Asked == c1 :> Ask(3, 1, 6) @@ c2 :> Ask(3, 2, 7) @@ c3 :> Ask(5, 1, 7)
Plans == <<"executing", "executing">>
Step(plan, purchase, order, date, part) ==
  [plan |-> plan, purchase |-> purchase, order |-> order, status |-> "pending",
   notes |-> [usable |-> TRUE, purchase |-> purchase, date |-> date, cost |-> 1, part |-> part]]
ExpediteSteps == <<Step(1, 3, 1, 6, 1), Step(2, 3, 1, 7, AnyPart), Step(1, 5, 2, 7, 2)>>

Whole ==
  [World(2, 5, 8, 1, 7) EXCEPT !.purchase = Append(@, PurchaseRow(2, 9, "open")),
                               !.item = Append(@, Item(5, 2, 2))]
CompetingWorlds == {Whole, [World(2, 5, 8, 1, 7) EXCEPT !.event = Unsupported]}
==============================================================================
