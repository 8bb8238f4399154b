--------------------------- MODULE InventoryAnalysis ---------------------------
(***************************************************************************)
(* The functions of functions/inventory.py: the stock-out ledger of one    *)
(* part in one warehouse, the warehouses that could supply another, the    *)
(* purchase orders that could come sooner.                                 *)
(***************************************************************************)
EXTENDS ImpactAnalysis

(* _LedgerMovement: inbound before demand on the same day. *)
Movements(p, w, horizon) ==
  {[key |-> <<Purchase(i).expected, 0, db.item[i].purchase, i, 0>>,
    quantity |-> OpenQuantity(i)] : i \in Inbound(p, w, horizon)}
  \union
  {[key |-> <<d.date, 1, db.line[d.line].order, d.line, d.shipment>>,
    quantity |-> -d.quantity] : d \in WarehouseDemands(p, w, horizon)}

(* What a ledger of movements makes of a position.                         *)
Outlook(position, ledger) ==
  LET Running(k) == position.available + Total(1..k, LAMBDA j : ledger[j].quantity)
      FirstDate(K) == IF K = {} THEN NoDate ELSE ledger[Min(K)].key[1]
      ending == Running(Len(ledger))
  IN [stockout |-> FirstDate({k \in DOMAIN ledger : Running(k) <= 0}),
      breach   |-> FirstDate({k \in DOMAIN ledger : Running(k) < position.safety}),
      ending   |-> ending,
      shortage |-> AtLeastZero(-ending),
      calm     |-> ending >= 0 /\ ending >= position.safety]

(* calculate_stockout_risk; its callers keep horizon from the past.        *)
StockoutRisk(p, w, horizon) ==
  Outlook(Position(p, w), SortedBy(Movements(p, w, horizon), LAMBDA m : m.key))

-----------------------------------------------------------------------------
(* _estimate_transfer_days; an unknown region or country matches nothing.  *)
TransferDays(v, w) ==
  LET from == db.warehouse[v]
      to == db.warehouse[w]
      abroad == from.country # to.country \/ from.country = "unknown"
  IN IF abroad THEN 5
     ELSE IF from.region = to.region /\ from.region # "unknown" THEN 1 ELSE 2

(* What v can give away if it ships in time: its stock above the safety    *)
(* stock, and what arrives at it by the day of departure.                  *)
Transferable(p, v, latest) ==
  AtLeastZero(Available(p, v) + Total(Inbound(p, v, latest), OpenQuantity)
                - db.inventory[<<p, v>>].safety - Committed(p, v))

(* find_alternative_warehouses *)
AlternativeWarehouses(p, w, by) ==
  {a \in {[warehouse |-> v, arrival |-> Today + TransferDays(v, w),
           transferable |-> Transferable(p, v, by - TransferDays(v, w))] : v \in Sources(p, w)} :
     a.arrival <= by /\ a.transferable > 0}

-----------------------------------------------------------------------------
(* 40% off the remaining lead time, a day at least.                        *)
PossibleDate(expected) ==
  LET days == AtLeastZero(expected - Today)
  IN Today + Max({1, days - ((days * 40) \div 100)})

(* find_expeditable_purchase_orders *)
ExpeditableOrders(p, supplier, by) ==
  {[purchase |-> e.purchase, destination |-> e.destination, open |-> e.open,
    date |-> PossibleDate(e.expected), feasible |-> PossibleDate(e.expected) <= by]
   : e \in Expeditable(p, supplier)}
==============================================================================
