---------------------------- MODULE ImpactAnalysis ----------------------------
(***************************************************************************)
(* The impact functions of functions/impacts.py: which parts, products and *)
(* customer orders the delay of a supplier hits, and how urgent each order *)
(* is.  A list the code sorts is a set here until its order matters.       *)
(***************************************************************************)
EXTENDS SupplyTables

CONSTANTS
  Today,        \* date of the call
  HorizonDays   \* DEFAULT_IMPACT_ANALYSIS_HORIZON_DAYS

ASSUME TodayAssumption == Today \in Nat /\ HorizonDays \in Nat

(* risk event |-> what makes the analysis fail, or "ok"                    *)
EventProblem ==
  CASE db.event.type = "missing"             -> "RISK_EVENT_NOT_FOUND"
    [] db.event.type \notin {"missing", "supplier_delay"}
                                             -> "UNSUPPORTED_RISK_EVENT_TYPE"
    [] /\ db.event.type = "supplier_delay"
       /\ db.event.supplier \notin db.suppliers -> "RISK_EVENT_SUPPLIER_NOT_FOUND"
    [] OTHER                                 -> "ok"

Delay == AtLeastZero(db.event.delay)

-----------------------------------------------------------------------------
(* _build_part_projections: the demands of all the parts looked at together*)
(* set the horizon and choose the warehouses whose stock counts.           *)
Horizon(demands) ==
  IF demands = {} THEN Today + HorizonDays
  ELSE Least(Max({d.date : d \in demands}), Today + HorizonDays)

(* Mutant of Arrival: an early delivery in place of a late one.            *)
ArrivalEarly(i, delay) ==
  Purchase(i).expected - (IF Purchase(i).supplier = db.event.supplier THEN delay ELSE 0)

Arrival(i, delay) ==
  Purchase(i).expected + (IF Purchase(i).supplier = db.event.supplier THEN delay ELSE 0)

(* _project_shortage: the balance at the horizon decides, whatever it was  *)
(* before.  All that is on order counts as available, whenever it comes.   *)
Projection(start, mine, items, delay, horizon) ==
  LET inbound == {i \in items : /\ Purchase(i).expected # NoDate
                                /\ Arrival(i, delay) <= horizon}
      Balance(date) ==
        start + Total({i \in inbound : Arrival(i, delay) <= date}, OpenQuantity)
              - Total({d \in mine : d.date <= date}, LAMBDA d : d.quantity)
      short == {t \in {Arrival(i, delay) : i \in inbound} \union {d.date : d \in mine} :
                  Balance(t) < 0}
      shortage == AtLeastZero(-Balance(horizon))
  IN [shortage  |-> shortage,
      first     |-> IF short = {} THEN NoDate ELSE Min(short),
      available |-> AtLeastZero(start + Total(items, OpenQuantity) - shortage)]

Projections(parts, delay) ==
  LET demands == PartDemands(parts)
      horizon == Horizon(demands)
      due == {d \in demands : d.date <= horizon}
      Start(p) == Total({d.warehouse : d \in due} \intersect Stocked(p),
                        LAMBDA w : Available(p, w))
  IN [p \in parts |->
        Projection(Start(p), {d \in due : d.part = p}, OpenItems(p), delay, horizon)]

PartsOfSupplier == SupplierParts(db.event.supplier)

(* find_impacted_parts *)
ImpactedParts(delay) ==
  LET baseline == Projections(PartsOfSupplier, 0)
      delayed == Projections(PartsOfSupplier, delay)
  IN {p \in PartsOfSupplier : delayed[p].shortage > baseline[p].shortage}

-----------------------------------------------------------------------------
(* find_impacted_products.                                                 *)
Buildable(bom, projections) ==
  Min({projections[p].available \div bom[p] : p \in DOMAIN bom})

ProductImpact(product, impacted, baseline, delayed) ==
  LET bom == Bom(product)
      demand == ProductDemand(product)
      before == Buildable(bom, baseline)
      after == Buildable(bom, delayed)
  IN [product |-> product, parts |-> DOMAIN bom \intersect impacted,
      required |-> bom, baseline |-> before, delayed |-> after,
      baselineShortfall |-> AtLeastZero(demand - before),
      delayedShortfall |-> AtLeastZero(demand - after)]

ProductsHit(impacted, delay) ==
  LET candidates == ProductsUsing(impacted)
      parts == UNION {DOMAIN Bom(c) : c \in candidates}
      baseline == Projections(parts, 0)
      delayed == Projections(parts, delay)
  IN {e \in {ProductImpact(c, impacted, baseline, delayed) : c \in candidates} :
        \/ e.delayed < e.baseline
        \/ e.delayedShortfall > e.baselineShortfall}

ImpactedProducts(delay) == ProductsHit(ImpactedParts(delay), delay)

-----------------------------------------------------------------------------
(* find_impacted_orders: the lines of a product share what can be built.   *)

(* _order_line_allocation_sort_key; the query's order breaks the last tie. *)
AllocationKey(l) ==
  <<-Order(l).priority, Order(l).required, Order(l).placed, db.line[l].order, l>>

(* Mutant of Allocation: lines are served first come, first served.        *)
AllocationByAge(l, available) ==
  LET before == {k \in OrderLines({db.line[l].product}) : k < l}
  IN Least(Unfulfilled(l), AtLeastZero(available - Total(before, Unfulfilled)))

(* _allocate_product_quantity: what the lines before this one leave.       *)
Allocation(l, available) ==
  LET before == {k \in OrderLines({db.line[l].product}) :
                   Precedes(AllocationKey(k), AllocationKey(l))}
  IN Least(Unfulfilled(l), AtLeastZero(available - Total(before, Unfulfilled)))

LineImpact(l, products, delay) ==
  LET e == CHOOSE q \in products : q.product = db.line[l].product
      delayed == Allocation(l, e.delayed)
  IN [line |-> l, product |-> e.product, parts |-> e.parts,
      required |-> Unfulfilled(l), baseline |-> Allocation(l, e.baseline), delayed |-> delayed,
      shortage |-> Unfulfilled(l) - delayed]

Hit(i, delay) == \/ i.delayed < i.baseline
                 \/ i.shortage > 0 /\ delay > 0

OrderImpact(o, hits, delay) ==
  [order |-> o, priority |-> db.order[o].priority, required |-> db.order[o].required,
   destination |-> Destination((CHOOSE i \in hits : TRUE).line),
   products |-> {[line |-> i.line, product |-> i.product, shortage |-> i.shortage] : i \in hits},
   parts |-> UNION {i.parts : i \in hits},
   wanted |-> Total(hits, LAMBDA i : i.required),
   shortage |-> Total(hits, LAMBDA i : i.shortage),
   delay |-> IF \E i \in hits : i.shortage > 0 THEN delay ELSE 0]

OrdersHit(products, delay) ==
  LET hits == {i \in {LineImpact(l, products, delay) :
                        l \in OrderLines({e.product : e \in products})} : Hit(i, delay)}
      Of(o) == {i \in hits : db.line[i.line].order = o}
  IN {e \in {OrderImpact(o, Of(o), delay) : o \in {db.line[i.line].order : i \in hits}} :
        e.shortage > 0}

ImpactedOrders(delay) == OrdersHit(ImpactedProducts(delay), delay)

-----------------------------------------------------------------------------
(* rank_impacted_orders.  Scores are percentages; a ratio stays a fraction *)
(* of the wanted quantity until the total is rounded, half up.             *)
PriorityScore(e) == 25 * (e.priority + 1)

UrgencyScore(e) ==
  LET days == e.required - Today
  IN CASE days <= 0 -> 100 [] days \in 1..2 -> 90 [] days \in 3..5 -> 75
       [] days \in 6..10 -> 50 [] days \in 11..20 -> 25 [] OTHER -> 10

DelayScore(e) == Least(10 * e.delay, 100)

(* No order line carries a value: the score of an order's value is least.  *)
ValueScore == 20

(* The most critical of the impacted parts, "low" where none is found.     *)
CriticalityScore(e) ==
  LET built == UNION {DOMAIN Bom(i.product) : i \in e.products}
      ranks == {db.criticality[p] : p \in e.parts \intersect built}
  IN 25 * (1 + (IF ranks = {} THEN 0 ELSE Max(ranks)))

RiskScore(e) ==
  LET whole == 25 * PriorityScore(e) + 20 * UrgencyScore(e) + 15 * DelayScore(e)
                 + 10 * ValueScore + 10 * CriticalityScore(e)
      total == whole * e.wanted + 20 * 100 * e.shortage   \* in 1/(100 * wanted)
  IN (2 * total + 100 * e.wanted) \div (200 * e.wanted)

Attention(score) ==
  CASE score <= 24 -> "monitor" [] score \in 25..49 -> "review"
    [] score \in 50..74 -> "urgent" [] OTHER -> "immediate"

RankKey(e) == <<-RiskScore(e), e.required, -e.shortage, db.order[e.order].placed, e.order>>

(* Order codes, the most urgent order first.                               *)
Codes(sorted) == [k \in DOMAIN sorted |-> sorted[k].order]
Ranking(orders) == Codes(SortedBy(orders, RankKey))
==============================================================================
