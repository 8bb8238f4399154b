----------------------------- MODULE SupplyTables -----------------------------
(***************************************************************************)
(* The supply-chain tables and the read-only queries that the ontology's   *)
(* functions run on them (repositories/function_repository.py).  db maps   *)
(* each table to its rows, by code; codes, quantities and dates are        *)
(* numbers, and the order of codes is the order of numbers.                *)
(***************************************************************************)
EXTENDS Integers, FiniteSets, Sequences, FiniteSetsExt, SequencesExt

VARIABLE db

NoDate == 9999       \* NULL; date.max where a missing date is sorted
NoWarehouse == 0     \* NULL

OpenOrderStatuses == {"open", "allocated", "partially_allocated", "delayed"}
OpenPurchaseStatuses == {"confirmed", "partially_received", "delayed"}
OpenShipmentStatuses == {"planned", "allocated", "in_transit", "delayed"}

AtLeastZero(n) == IF n > 0 THEN n ELSE 0
Least(m, n) == IF m <= n THEN m ELSE n
Total(S, Value(_)) == SumFunctionOnSet([x \in S |-> Value(x)], S)

(* Lexicographic order of the tuples of numbers that lists are sorted by.  *)
Precedes(a, b) ==
  \E i \in DOMAIN a : /\ a[i] < b[i]
                      /\ \A j \in 1..(i - 1) : a[j] = b[j]

(* S as a sequence, the member with the least key first; keys differ.      *)
Sorted(S, key) ==
  [k \in 1..Cardinality(S) |->
     CHOOSE x \in S : Cardinality({y \in S : Precedes(key[y], key[x])}) = k - 1]

SortedBy(S, Key(_)) == Sorted(S, [x \in S |-> Key(x)])

-----------------------------------------------------------------------------
(* What the columns, the foreign keys and the CHECK constraints admit.     *)
Coded == {"warehouse", "order", "line", "shipment", "purchase", "item"}
Tables ==
  Coded \union {"event", "suppliers", "activeParts", "criticality", "activeProducts",
                "supplierPart", "bom", "inventory", "transfer"}

TablesOK(tables) ==
  /\ Tables \subseteq DOMAIN tables
  /\ \A t \in Coded : DOMAIN tables[t] \subseteq Int /\ IsFiniteSet(DOMAIN tables[t])
  /\ tables.event.delay \in Int
  /\ IsFiniteSet(tables.bom) /\ IsFiniteSet(tables.transfer)
  /\ \A r \in tables.bom : r.part \in Int /\ r.required \in Nat \ {0}
  /\ \A t \in tables.transfer : t.quantity \in Int
  /\ DOMAIN tables.inventory \subseteq Int \X DOMAIN tables.warehouse
  /\ \A k \in DOMAIN tables.inventory :
       tables.inventory[k] \in [onHand : Nat, reserved : Nat, safety : Nat]
  /\ \A o \in DOMAIN tables.order :
       LET order == tables.order[o]
       IN order.priority \in Int /\ order.required \in Int /\ order.placed \in Int
  /\ \A l \in DOMAIN tables.line :
       LET line == tables.line[l]
       IN line.order \in DOMAIN tables.order /\ line.ordered \in Nat /\ line.allocated \in Nat
  /\ \A o \in DOMAIN tables.purchase : tables.purchase[o].expected \in Int
  /\ \A i \in DOMAIN tables.item :
       LET item == tables.item[i]
       IN item.purchase \in DOMAIN tables.purchase /\ item.ordered \in Nat /\ item.received \in Nat

-----------------------------------------------------------------------------
(* Stock.                                                                  *)
Stocked(p) == {w \in DOMAIN db.warehouse : <<p, w>> \in DOMAIN db.inventory}
Active(w) == db.warehouse[w].active

Available(p, w) ==
  LET row == db.inventory[<<p, w>>] IN AtLeastZero(row.onHand - row.reserved)

(* get_inventory_availability *)
Availability(p) == [w \in {v \in Stocked(p) : Active(v)} |-> Available(p, w)]

(* get_part_inventory_position; a warehouse without a row has nothing.     *)
Position(p, w) ==
  IF w \in Stocked(p)
  THEN [available |-> Available(p, w), safety |-> db.inventory[<<p, w>>].safety]
  ELSE [available |-> 0, safety |-> 0]

(* get_source_inventory_positions_for_part *)
Sources(p, destination) == {w \in Stocked(p) : Active(w)} \ {destination}

(* get_committed_outgoing_transfer_quantities_for_part *)
Committed(p, w) ==
  Total({t \in db.transfer : /\ t.status \in {"approved", "executing"}
                             /\ t.part = p /\ t.source = w},
        LAMBDA t : t.quantity)

-----------------------------------------------------------------------------
(* Purchase orders.  No row says which warehouse an order is bound for.    *)
OpenQuantity(i) == db.item[i].ordered - db.item[i].received
Purchase(i) == db.purchase[db.item[i].purchase]

(* get_open_purchase_orders_for_parts, one part at a time *)
OpenItems(p) ==
  {i \in DOMAIN db.item : /\ db.item[i].part = p
                          /\ Purchase(i).status \in OpenPurchaseStatuses
                          /\ OpenQuantity(i) > 0}

(* get_open_inbound_purchase_orders_for_part_warehouse: the join with the  *)
(* part's inventory rows gives every stocking warehouse the whole order.   *)
Inbound(p, w, horizon) ==
  {i \in OpenItems(p) : /\ Purchase(i).expected # NoDate
                        /\ Purchase(i).expected <= horizon
                        /\ w \in Stocked(p)}

(* get_expeditable_purchase_orders_for_part: the outer join with the       *)
(* part's inventory rows repeats each item once per stocking warehouse.    *)
Copies(p) == IF Stocked(p) = {} THEN 1 ELSE Cardinality(Stocked(p))

Expeditable(p, supplier) ==
  LET items == {i \in OpenItems(p) : /\ Purchase(i).expected # NoDate
                                     /\ Purchase(i).supplier = supplier}
      Of(o) == {i \in items : db.item[i].purchase = o}
  IN {[purchase |-> o,
       expected |-> db.purchase[o].expected,
       destination |-> IF Stocked(p) = {} THEN NoWarehouse ELSE Min(Stocked(p)),
       open |-> Copies(p) * Total(Of(o), OpenQuantity),
       value |-> Copies(p) * Total(Of(o), LAMBDA i : OpenQuantity(i) * db.item[i].cost)]
      : o \in {db.item[i].purchase : i \in items}}

-----------------------------------------------------------------------------
(* Demand.  A line counts once per open shipment of its order.             *)
Order(l) == db.order[db.line[l].order]
Unfulfilled(l) == db.line[l].ordered - db.line[l].allocated

OpenLines ==
  {l \in DOMAIN db.line : /\ Order(l).status \in OpenOrderStatuses
                          /\ db.line[l].product \in db.activeProducts
                          /\ Unfulfilled(l) > 0}

Shipments(l) == {s \in DOMAIN db.shipment : db.shipment[s].order = db.line[l].order}
OpenShipments(l) == {s \in Shipments(l) : db.shipment[s].status \in OpenShipmentStatuses}

Demand(l, s, r) ==
  [line |-> l, shipment |-> s, part |-> r.part, warehouse |-> db.shipment[s].warehouse,
   date |-> Order(l).required, quantity |-> Unfulfilled(l) * r.required]

Demands(parts) ==
  UNION {{Demand(l, s, r) :
            s \in {t \in OpenShipments(l) : db.shipment[t].warehouse # NoWarehouse},
            r \in {b \in db.bom : b.product = db.line[l].product /\ b.part \in parts}}
         : l \in OpenLines}

(* get_open_part_demands *)
PartDemands(parts) == {d \in Demands(parts) : Active(d.warehouse)}

(* get_open_part_demands_for_warehouse *)
WarehouseDemands(p, w, horizon) ==
  {d \in Demands({p} \intersect db.activeParts) : d.warehouse = w /\ d.date <= horizon}

(* get_open_product_demands *)
ProductDemand(product) ==
  Total({l \in OpenLines : db.line[l].product = product},
        LAMBDA l : Unfulfilled(l) * Cardinality(OpenShipments(l)))

(* get_open_order_lines_for_products: any shipment, whatever its status,   *)
(* names the destination; of several the least code.                       *)
OrderLines(products) == {l \in OpenLines : db.line[l].product \in products}

Destination(l) ==
  LET bound == {db.shipment[s].warehouse : s \in Shipments(l)} \ {NoWarehouse}
  IN IF bound = {} THEN NoWarehouse ELSE Min(bound)

-----------------------------------------------------------------------------
(* Catalogue.                                                              *)

(* get_active_supplier_parts *)
SupplierParts(supplier) ==
  {r.part : r \in {q \in db.supplierPart : q.supplier = supplier /\ q.active}}
    \intersect db.activeParts

(* get_candidate_products_for_parts *)
ProductsUsing(parts) ==
  {r.product : r \in {b \in db.bom : b.part \in parts \intersect db.activeParts}}
    \intersect db.activeProducts

(* get_active_product_bom_requirements of one product: part |-> quantity   *)
Bom(product) ==
  LET rows == {r \in db.bom : r.product = product /\ r.part \in db.activeParts}
  IN [p \in {r.part : r \in rows} |-> (CHOOSE r \in rows : r.part = p).required]
==============================================================================
