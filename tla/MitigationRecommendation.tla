----------------------- MODULE MitigationRecommendation -----------------------
(***************************************************************************)
(* recommend_mitigation_plan: finds the impacted orders, ranks them,       *)
(* derives the parts they lack and covers them, the most urgent first, by  *)
(* transfers and expedited purchase orders.  Its SELECTs are statements of *)
(* one READ COMMITTED transaction, so what other transactions commit shows *)
(* between any two of them; each step below reads the tables as they are.  *)
(***************************************************************************)
EXTENDS InventoryAnalysis

CONSTANT MaxCommits     \* commits of other transactions during the call
ASSUME CommitsAssumption == MaxCommits \in Nat

VARIABLES
  pc,          \* what the function does next
  found,       \* the impacted orders
  ranked,      \* their order codes, the most urgent first
  todo,        \* shortages of parts still to be covered
  total,       \* quantity short over all of them
  moved,       \* transfer_claims: quantity claimed from each <<part, warehouse>>
  expedited,   \* expedite_claims: quantity claimed from each purchase order
  transferred, \* transfer_covered, over all requirements
  hastened,    \* expedite_covered
  unresolved,  \* unresolved_shortage
  steps,       \* recommendations so far
  answer,      \* strategy and unresolved shortage, or the error
  commits      \* commits of other transactions so far

sums == <<transferred, hastened, unresolved>>
claims == <<todo, total, moved, expedited, sums, steps>>
callVars == <<pc, found, ranked, claims, answer>>
recommendVars == <<callVars, commits>>

NoAnswer == [strategy |-> "none", unresolved |-> 0]
Failed(code) == [strategy |-> code, unresolved |-> 0]
Ended == {"answered", "failed"}

RecommendInit ==
  /\ pc = "find"
  /\ found = {}
  /\ ranked = <<>>
  /\ todo = <<>>
  /\ total = 0
  /\ moved = [k \in DOMAIN db.inventory |-> 0]
  /\ expedited = [o \in DOMAIN db.purchase |-> 0]
  /\ transferred = 0
  /\ hastened = 0
  /\ unresolved = 0
  /\ steps = <<>>
  /\ answer = NoAnswer
  /\ commits = 0

Refused ==
  /\ pc = "find"
  /\ EventProblem # "ok"
  /\ pc' = "failed"
  /\ answer' = Failed(EventProblem)
  /\ UNCHANGED <<db, commits, found, ranked, claims>>

FindOrders ==
  /\ pc = "find"
  /\ EventProblem = "ok"
  /\ found' = ImpactedOrders(Delay)
  /\ pc' = "rank"
  /\ UNCHANGED <<db, commits, ranked, claims, answer>>

(* rank_impacted_orders analyses the event again.                          *)
RankOrders ==
  /\ pc = "rank"
  /\ ranked' = Ranking(ImpactedOrders(Delay))
  /\ pc' = "products"
  /\ UNCHANGED <<db, commits, found, claims, answer>>

-----------------------------------------------------------------------------
(* ordered_impacted_orders: the ranks of the orders found.                 *)
Known == {k \in DOMAIN ranked : \E e \in found : e.order = ranked[k]}
Found(k) == CHOOSE e \in found : e.order = ranked[k]

(* _build_part_shortage_requirements: every part of a product's bill is    *)
(* wanted for what cannot be built of it.                                  *)
Shortages(k, products) ==
  LET e == Found(k)
      Needed(p) ==
        Total({i \in e.products : \E q \in products : q.product = i.product /\ p \in DOMAIN q.required},
              LAMBDA i : i.shortage * (CHOOSE q \in products : q.product = i.product).required[p])
      parts == {p \in UNION {DOMAIN q.required : q \in products} : Needed(p) > 0}
  IN {[rank |-> k, part |-> p, destination |-> e.destination, by |-> e.required,
       shortage |-> Needed(p)] : p \in parts}

(* Order by order, part by part.                                           *)
AllShortages(products) ==
  SortedBy(UNION {Shortages(k, products) : k \in Known}, LAMBDA q : <<q.rank, q.part>>)

Nothing ==
  /\ pc = "products"
  /\ Known = {}
  /\ pc' = "answered"
  /\ answer' = Failed("MANUAL_INTERVENTION")
  /\ UNCHANGED <<db, commits, found, ranked, claims>>

FindProducts ==
  /\ pc = "products"
  /\ Known # {}
  /\ todo' = AllShortages(ImpactedProducts(Delay))
  /\ total' = Total(DOMAIN todo', LAMBDA k : todo'[k].shortage)
  /\ unresolved' = total'
  /\ pc' = "cover"
  /\ UNCHANGED <<db, commits, found, ranked, moved, expedited, transferred, hastened,
                 steps, answer>>

-----------------------------------------------------------------------------
(* The loop over part_shortages, one requirement at a time.                *)
Assigned(q) == q.destination # NoWarehouse

(* What arrives after the destination has run out is too late.             *)
Latest(q) ==
  IF Assigned(q) THEN Least(q.by, StockoutRisk(q.part, q.destination, q.by).stockout) ELSE q.by

(* Mutant of Transfers: what earlier requirements claimed is offered again.*)
TransfersUnclaimed(q) ==
  IF ~Assigned(q) THEN {}
  ELSE {[source |-> a.warehouse, arrival |-> a.arrival,
         quantity |-> Least(q.shortage, a.transferable)]
        : a \in {b \in AlternativeWarehouses(q.part, q.destination, q.by) : b.arrival <= Latest(q)}}

Transfers(q) ==
  LET Left(a) == a.transferable - moved[<<q.part, a.warehouse>>]
  IN IF ~Assigned(q) THEN {}
     ELSE {[source |-> a.warehouse, arrival |-> a.arrival, quantity |-> Least(q.shortage, Left(a))]
           : a \in {b \in AlternativeWarehouses(q.part, q.destination, q.by) :
                      Left(b) > 0 /\ b.arrival <= Latest(q)}}

Expedites(q) ==
  LET Left(e) == e.open - expedited[e.purchase]
  IN {[purchase |-> e.purchase, date |-> e.date, quantity |-> Least(q.shortage, Left(e))]
      : e \in {f \in ExpeditableOrders(q.part, db.event.supplier, q.by) :
                 f.feasible /\ f.date <= Latest(q) /\ Left(f) > 0}}

BestTransfer(T) == SortedBy(T, LAMBDA t : <<-t.quantity, t.arrival, t.source>>)[1]
BestExpedite(E) == SortedBy(E, LAMBDA e : <<-e.quantity, e.date, e.purchase>>)[1]

Transfer(q, t) ==
  [type |-> "REALLOCATE_INVENTORY", part |-> q.part, from |-> t.source, quantity |-> t.quantity]
Expedite(q, e, quantity) ==
  [type |-> "EXPEDITE_PURCHASE_ORDER", part |-> q.part, from |-> e.purchase, quantity |-> quantity]

(* Mutant of Rest: the expedite covers the whole requirement again.        *)
RestAll(q, carried) == q.shortage

(* remaining_requirement once the chosen transfer, if any, has its part.   *)
Rest(q, carried) == q.shortage - carried

(* Requirement q is covered by the best of the transfers T and, for what   *)
(* that leaves, by the best of the purchase orders E.                      *)
CoverBy(q, T, E) ==
  LET carried == IF T = {} THEN 0 ELSE BestTransfer(T).quantity
      rest == Rest(q, carried)
      helped == IF E = {} \/ carried >= q.shortage THEN 0
                ELSE Least(rest, BestExpedite(E).quantity)
  IN /\ moved' = IF carried = 0 THEN moved
                 ELSE [moved EXCEPT ![<<q.part, BestTransfer(T).source>>] = @ + carried]
     /\ expedited' = IF helped = 0 THEN expedited
                     ELSE [expedited EXCEPT ![BestExpedite(E).purchase] = @ + helped]
     /\ transferred' = transferred + carried
     /\ hastened' = hastened + helped
     /\ unresolved' = unresolved - carried - helped
     /\ steps' = steps
          \o (IF carried = 0 THEN <<>> ELSE <<Transfer(q, BestTransfer(T))>>)
          \o (IF helped = 0 THEN <<>> ELSE <<Expedite(q, BestExpedite(E), helped)>>)

Cover ==
  /\ pc = "cover"
  /\ todo # <<>>
  /\ Assigned(Head(todo)) => Head(todo).by >= Today
  /\ CoverBy(Head(todo), Transfers(Head(todo)), Expedites(Head(todo)))
  /\ todo' = Tail(todo)
  /\ UNCHANGED <<db, commits, pc, found, ranked, total, answer>>

(* calculate_stockout_risk refuses a horizon that lies in the past, and    *)
(* with it the whole recommendation.                                       *)
Overdue ==
  /\ pc = "cover"
  /\ todo # <<>>
  /\ Assigned(Head(todo))
  /\ Head(todo).by < Today
  /\ pc' = "failed"
  /\ answer' = Failed("INVALID_HORIZON_DATE")
  /\ UNCHANGED <<db, commits, found, ranked, claims>>

-----------------------------------------------------------------------------
Strategy ==
  CASE total = 0 -> "MANUAL_INTERVENTION"
    [] total > 0 /\ transferred >= total -> "REALLOCATE_INVENTORY"
    [] total > 0 /\ transferred = 0 /\ hastened >= total -> "EXPEDITE_PURCHASE_ORDER"
    [] total > transferred /\ transferred > 0 /\ hastened > 0 -> "COMBINED_MITIGATION"
    [] OTHER -> "MANUAL_INTERVENTION"

Conclude ==
  /\ pc = "cover"
  /\ todo = <<>>
  /\ pc' = "answered"
  /\ answer' = [strategy |-> Strategy, unresolved |-> AtLeastZero(unresolved)]
  /\ UNCHANGED <<db, commits, found, ranked, claims>>

(* A reallocation that another transaction commits meanwhile.              *)
StockMoves ==
  /\ pc \notin Ended
  /\ commits < MaxCommits
  /\ commits' = commits + 1
  /\ \E from, to \in DOMAIN db.inventory :
       /\ from[1] = to[1] /\ from # to
       /\ Available(from[1], from[2]) > db.inventory[from].safety
       /\ db' = [db EXCEPT !.inventory[from].onHand = @ - 1, !.inventory[to].onHand = @ + 1]
  /\ UNCHANGED callVars

RecommendStep ==
  \/ Refused \/ FindOrders \/ RankOrders
  \/ Nothing \/ FindProducts \/ Cover \/ Overdue \/ Conclude

=============================================================================
