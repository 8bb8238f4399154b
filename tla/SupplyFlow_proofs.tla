--------------------------- MODULE SupplyFlow_proofs ---------------------------
(*****************************************************************************)
(* What holds of the supply analyses and of the calls that act on them, for  *)
(* any calls, plans, steps, tables, event and delay.                         *)
(*                                                                           *)
(* A purchase order is expedited once. What makes it so is the lock: a       *)
(* transaction that has read a purchase order holds its row until it ends,   *)
(* so that the row is still the one it has read when it decides.             *)
(*                                                                           *)
(* A recommendation adds up and promises nothing twice, while the handlers   *)
(* it recommends commit between its queries. CoverInv says so of every       *)
(* point of its run: the tables are in shape, what is promised is in the     *)
(* steps, and what is still short is in the list of shortages to cover.      *)
(*                                                                           *)
(* Capacity is shared in urgency order, and a longer delay of the same       *)
(* arrival helps nobody: facts about the tables a query reads, with no       *)
(* state in between.                                                         *)
(*                                                                           *)
(* The order of the module: expediting; sorting; the shape of the tables;    *)
(* projections; products and orders; part shortages; transfers and           *)
(* expedites; the recommendation's sums; sharing; the longer delay.          *)
(*****************************************************************************)
EXTENDS SupplyFlow, FiniteSums

Purchases == DOMAIN db.purchase

(* The tables keep the columns the handler writes.                         *)
TablesShaped ==
  /\ {"inventory", "purchase"} \subseteq DOMAIN db
  /\ \A o \in Purchases :
       /\ {"expected", "expedited", "cost"} \subseteq DOMAIN db.purchase[o]
       /\ db.purchase[o].expected \in Int

CallsShaped ==
  /\ DOMAIN turn = ExpediteCalls
  /\ DOMAIN seen = ExpediteCalls
  /\ DOMAIN holder = LockedRows
  /\ DOMAIN stepStatus = DOMAIN StepOf

(* It holds the purchase order, and the row is as it has read it.          *)
KnowsPurchase(c) ==
  turn[c] \in {"plan", "decide"} =>
    /\ OrderOf(c) \in Purchases
    /\ holder[<<"purchase", OrderOf(c)>>] = c
    /\ seen[c] = db.purchase[OrderOf(c)]

PurchasesKnown == \A c \in ExpediteCalls : KnowsPurchase(c)

(* What the audit tells of an order is in its row, for good.               *)
AuditBacked ==
  \A a \in audit :
    /\ a.purchase \in Purchases
    /\ db.purchase[a.purchase].expedited = TRUE
    /\ db.purchase[a.purchase].expected = a.after
    /\ a.after < a.before
    /\ a.step \in DOMAIN StepOf
    /\ stepStatus[a.step] = "executed"

AuditUnique == \A a, b \in audit : a.purchase = b.purchase => a = b

SupplyInv ==
  TablesShaped /\ CallsShaped /\ PurchasesKnown /\ AuditBacked /\ AuditUnique

-----------------------------------------------------------------------------
(* The step that decides about a call is one of its plan's.                *)
LEMMA StepForExists ==
  ASSUME NEW c, Decisive(c) # {}
  PROVE  StepFor(c) \in Decisive(c) /\ StepFor(c) \in DOMAIN StepOf
<1> DEFINE Numbers == {StepOf[s].order : s \in Decisive(c)}
<1>1. Decisive(c) \subseteq DOMAIN StepOf
  BY DEF Decisive, StepsFor
<1>2. Numbers \subseteq Nat /\ Numbers # {}
  BY <1>1, StepOrderAssumption
<1>3. PICK m \in Numbers : \A n \in Numbers : m <= n
  BY <1>2, LeastNumber
<1>4. \E s \in Decisive(c) : \A t \in Decisive(c) : StepOf[s].order <= StepOf[t].order
  BY <1>3
<1> QED
  BY <1>1, <1>4 DEF StepFor

-----------------------------------------------------------------------------

(* Every seeded world satisfies the invariant before any call is made.     *)
LEMMA SupplyInitially == SupplyInit => SupplyInv
<1> SUFFICES ASSUME SupplyInit PROVE SupplyInv
  OBVIOUS
<1>1. TablesShaped
  BY WorldAssumption DEF SupplyInit, TablesShaped, Purchases, TablesOK, Tables, Coded
<1>2. CallsShaped
  BY DEF SupplyInit, ExpediteInit, CallsShaped
<1>3. PurchasesKnown
  BY DEF SupplyInit, ExpediteInit, PurchasesKnown, KnowsPurchase
<1>4. AuditBacked /\ AuditUnique
  BY DEF SupplyInit, ExpediteInit, AuditBacked, AuditUnique
<1> QED
  BY <1>1, <1>2, <1>3, <1>4 DEF SupplyInv

-----------------------------------------------------------------------------
(* Steps of the recommendation, transfers and stuttering leave the purchase*)
(* orders and the transactions that expedite them alone.                   *)
LEMMA ElsewhereKeeps ==
  ASSUME SupplyInv, UNCHANGED expediteVars,
         DOMAIN db' = DOMAIN db, db'.purchase = db.purchase
  PROVE  SupplyInv'
<1>1. Purchases' = Purchases /\ LockedRows' = LockedRows
  BY DEF Purchases, LockedRows
<1>2. TablesShaped'
  BY <1>1 DEF SupplyInv, TablesShaped
<1>3. CallsShaped'
  BY <1>1 DEF SupplyInv, CallsShaped, expediteVars
<1>4. PurchasesKnown'
  BY <1>1 DEF SupplyInv, PurchasesKnown, KnowsPurchase, expediteVars, OrderOf
<1>5. AuditBacked' /\ AuditUnique'
  BY <1>1 DEF SupplyInv, AuditBacked, AuditUnique, expediteVars
<1> QED
  BY <1>2, <1>3, <1>4, <1>5 DEF SupplyInv

(* The recommendation, the transfers and an ending call write no purchase  *)
(* row.                                                                    *)
LEMMA ReadsKeep ==
  ASSUME SupplyInv, Reads
  PROVE  SupplyInv'
<1>1. CASE RecommendStep
  BY <1>1, ElsewhereKeeps
     DEF Reads, RecommendStep, Refused, FindOrders, RankOrders, Nothing, FindProducts,
         Cover, Overdue, Conclude
<1>2. CASE StockMoves
  <2>1. DOMAIN db' = DOMAIN db /\ db'.purchase = db.purchase
    BY <1>2 DEF StockMoves, SupplyInv, TablesShaped
  <2> QED
    BY <2>1, ElsewhereKeeps DEF Reads
<1> QED
  BY <1>1, <1>2 DEF Reads

-----------------------------------------------------------------------------
(* A call that leaves lets its own locks go and no one else's.             *)
LEMMA LeaveKeeps ==
  ASSUME SupplyInv, NEW c \in ExpediteCalls, NEW outcome \in Finished, Leave(c, outcome)
  PROVE  SupplyInv'
<1>1. Purchases' = Purchases /\ LockedRows' = LockedRows
  BY DEF Purchases, LockedRows, Leave
<1>2. TablesShaped'
  BY <1>1 DEF SupplyInv, TablesShaped, Leave
<1>3. CallsShaped'
  BY <1>1 DEF SupplyInv, CallsShaped, Leave, Freed
<1>4. PurchasesKnown'
  <2> SUFFICES ASSUME NEW d \in ExpediteCalls PROVE KnowsPurchase(d)'
    BY DEF PurchasesKnown
  <2>1. CASE d = c
    BY <2>1 DEF KnowsPurchase, Leave, SupplyInv, CallsShaped, Finished, Refusals
  <2>2. CASE d # c
    <3> SUFFICES ASSUME turn[d] \in {"plan", "decide"} PROVE KnowsPurchase(d)'
      BY <2>2 DEF KnowsPurchase, Leave, SupplyInv, CallsShaped
    <3>1. KnowsPurchase(d)
      BY DEF SupplyInv, PurchasesKnown
    <3>2. <<"purchase", OrderOf(d)>> \in LockedRows
      BY <3>1 DEF KnowsPurchase, LockedRows, Purchases
    <3>3. holder'[<<"purchase", OrderOf(d)>>] = d
      BY <2>2, <3>1, <3>2 DEF KnowsPurchase, Leave, Freed
    <3> QED
      BY <1>1, <3>1, <3>3 DEF KnowsPurchase, Leave, OrderOf
  <2> QED
    BY <2>1, <2>2
<1>5. AuditBacked' /\ AuditUnique'
  BY <1>1 DEF SupplyInv, AuditBacked, AuditUnique, Leave
<1> QED
  BY <1>2, <1>3, <1>4, <1>5 DEF SupplyInv

(* A call that goes on with no lock more and nothing read.                 *)
LEMMA EnterKeeps ==
  ASSUME SupplyInv, NEW c \in ExpediteCalls, Enter(c)
  PROVE  SupplyInv'
<1>1. CASE CallProblem(c) # "ok"
  <2>1. CallProblem(c) \in Finished
    BY <1>1 DEF CallProblem, Finished, Refusals
  <2> QED
    BY <1>1, <2>1, LeaveKeeps DEF Enter
<1>2. CASE CallProblem(c) = "ok"
  <2>1. Purchases' = Purchases /\ LockedRows' = LockedRows
    BY <1>2 DEF Purchases, LockedRows, Enter
  <2>2. TablesShaped' /\ CallsShaped' /\ AuditBacked' /\ AuditUnique'
    BY <1>2, <2>1 DEF SupplyInv, TablesShaped, CallsShaped, AuditBacked, AuditUnique, Enter
  <2>3. PurchasesKnown'
    <3> SUFFICES ASSUME NEW d \in ExpediteCalls, turn'[d] \in {"plan", "decide"}
                 PROVE KnowsPurchase(d)'
      BY DEF PurchasesKnown, KnowsPurchase
    <3>1. turn[d] = turn'[d]
      BY <1>2 DEF Enter, SupplyInv, CallsShaped
    <3> QED
      BY <1>2, <2>1, <3>1 DEF SupplyInv, PurchasesKnown, KnowsPurchase, Enter, OrderOf
  <2> QED
    BY <2>2, <2>3 DEF SupplyInv
<1> QED
  BY <1>1, <1>2

(* The lock on a purchase order is given when no one has it.               *)
LEMMA LockPurchaseKeeps ==
  ASSUME SupplyInv, NEW c \in ExpediteCalls, LockPurchase(c)
  PROVE  SupplyInv'
<1>1. Purchases' = Purchases /\ LockedRows' = LockedRows
  BY DEF Purchases, LockedRows, LockPurchase
<1>2. TablesShaped' /\ CallsShaped' /\ AuditBacked' /\ AuditUnique'
  BY <1>1 DEF SupplyInv, TablesShaped, CallsShaped, AuditBacked, AuditUnique, LockPurchase
<1>3. PurchasesKnown'
  <2> SUFFICES ASSUME NEW d \in ExpediteCalls, turn'[d] \in {"plan", "decide"}
               PROVE KnowsPurchase(d)'
    BY DEF PurchasesKnown, KnowsPurchase
  <2>1. <<"purchase", OrderOf(c)>> \in LockedRows /\ OrderOf(c) \in Purchases
    BY DEF LockPurchase, LockedRows, Purchases
  <2>2. CASE d = c
    BY <1>1, <2>1, <2>2 DEF KnowsPurchase, LockPurchase, SupplyInv, CallsShaped, OrderOf
  <2>3. CASE d # c
    <3>1. turn[d] = turn'[d] /\ seen[d] = seen'[d]
      BY <2>3 DEF LockPurchase, SupplyInv, CallsShaped
    <3>2. KnowsPurchase(d) /\ turn[d] \in {"plan", "decide"}
      BY <3>1 DEF SupplyInv, PurchasesKnown
    <3>3. OrderOf(d) # OrderOf(c)
      BY <3>2, NobodyAssumption DEF KnowsPurchase, LockPurchase, Free
    <3>4. holder'[<<"purchase", OrderOf(d)>>] = d
      BY <2>1, <3>2, <3>3
         DEF KnowsPurchase, LockPurchase, SupplyInv, CallsShaped, LockedRows, Purchases
    <3> QED
      BY <1>1, <3>1, <3>2, <3>4 DEF KnowsPurchase, LockPurchase, OrderOf
  <2> QED
    BY <2>2, <2>3
<1> QED
  BY <1>2, <1>3 DEF SupplyInv

(* Locking the plan changes no table and no purchase lock.                 *)
LEMMA LockPlanKeeps ==
  ASSUME SupplyInv, NEW c \in ExpediteCalls, LockExpeditedPlan(c)
  PROVE  SupplyInv'
<1>1. Purchases' = Purchases /\ LockedRows' = LockedRows
  BY DEF Purchases, LockedRows, LockExpeditedPlan
<1>2. TablesShaped' /\ CallsShaped' /\ AuditBacked' /\ AuditUnique'
  BY <1>1
     DEF SupplyInv, TablesShaped, CallsShaped, AuditBacked, AuditUnique, LockExpeditedPlan
<1>3. PurchasesKnown'
  <2> SUFFICES ASSUME NEW d \in ExpediteCalls, turn'[d] \in {"plan", "decide"}
               PROVE KnowsPurchase(d)'
    BY DEF PurchasesKnown, KnowsPurchase
  <2>1. turn[d] \in {"plan", "decide"}
    BY DEF LockExpeditedPlan, SupplyInv, CallsShaped
  <2>2. KnowsPurchase(d)
    BY <2>1 DEF SupplyInv, PurchasesKnown
  <2>3. holder'[<<"purchase", OrderOf(d)>>] = holder[<<"purchase", OrderOf(d)>>]
    BY <2>1, <2>2 DEF KnowsPurchase, LockExpeditedPlan, SupplyInv, CallsShaped
  <2> QED
    BY <1>1, <2>1, <2>2, <2>3 DEF KnowsPurchase, LockExpeditedPlan, OrderOf
<1> QED
  BY <1>2, <1>3 DEF SupplyInv

-----------------------------------------------------------------------------
(* What a call that has no problem knows of its order and its step.        *)
LEMMA NoProblem ==
  ASSUME SupplyInv, NEW c \in ExpediteCalls, turn[c] = "decide", Problem(c) = "ok"
  PROVE  LET o == OrderOf(c)
         IN /\ o \in Purchases
            /\ db.purchase[o].expedited # TRUE
            /\ seen[c] = db.purchase[o]
            /\ CallOf[c].date \in Int
            /\ CallOf[c].date < db.purchase[o].expected
            /\ StepFor(c) \in DOMAIN StepOf
            /\ stepStatus[StepFor(c)] = "pending"
<1>1. OrderOf(c) \in Purchases /\ seen[c] = db.purchase[OrderOf(c)]
  BY DEF SupplyInv, PurchasesKnown, KnowsPurchase
<1>2. PurchaseProblem(c) = "ok" /\ StepProblem(c) = "ok"
  BY DEF Problem
<1>3. seen[c].expedited # TRUE /\ CallOf[c].date \in ExecutedOn..(seen[c].expected - 1)
  BY <1>2 DEF PurchaseProblem
<1>4. seen[c].expected \in Int
  BY <1>1 DEF SupplyInv, TablesShaped
<1>5. CallOf[c].date \in Int /\ CallOf[c].date < seen[c].expected
  BY <1>3, <1>4, ExecutedOnAssumption
<1>6. Decisive(c) # {} /\ stepStatus[StepFor(c)] = "pending"
  BY <1>2 DEF StepProblem
<1>7. StepFor(c) \in DOMAIN StepOf
  BY <1>6, StepForExists
<1> QED
  BY <1>1, <1>3, <1>5, <1>6, <1>7

(* The row that is rewritten is no one else's, and no audit tells of it.   *)
LEMMA CommitKeeps ==
  ASSUME SupplyInv, NEW c \in ExpediteCalls, CommitExpedite(c)
  PROVE  SupplyInv'
<1> DEFINE o == OrderOf(c)
           row == [db.purchase[o] EXCEPT !.expected = CallOf[c].date,
                                         !.expedited = TRUE, !.cost = CallOf[c].cost]
<1>1. /\ o \in Purchases
      /\ db.purchase[o].expedited # TRUE
      /\ seen[c] = db.purchase[o]
      /\ CallOf[c].date \in Int
      /\ CallOf[c].date < db.purchase[o].expected
      /\ StepFor(c) \in DOMAIN StepOf
  BY NoProblem DEF CommitExpedite
<1>2. /\ DOMAIN db' = DOMAIN db
      /\ DOMAIN db'.purchase = Purchases
      /\ db'.purchase[o] = row
      /\ \A p \in Purchases \ {o} : db'.purchase[p] = db.purchase[p]
  BY <1>1 DEF CommitExpedite, SupplyInv, TablesShaped, Purchases
<1>3. /\ row.expected = CallOf[c].date
      /\ row.expedited = TRUE
      /\ DOMAIN row = DOMAIN db.purchase[o]
  BY <1>1 DEF SupplyInv, TablesShaped
<1> HIDE DEF row
<1>4. Purchases' = Purchases /\ LockedRows' = LockedRows
  BY <1>2 DEF Purchases, LockedRows
<1>5. TablesShaped'
  BY <1>1, <1>2, <1>3, <1>4 DEF SupplyInv, TablesShaped
<1>6. CallsShaped'
  BY <1>4 DEF SupplyInv, CallsShaped, CommitExpedite, Freed
<1>7. PurchasesKnown'
  <2> SUFFICES ASSUME NEW d \in ExpediteCalls, turn'[d] \in {"plan", "decide"}
               PROVE KnowsPurchase(d)'
    BY DEF PurchasesKnown, KnowsPurchase
  <2>1. d # c /\ turn[d] \in {"plan", "decide"}
    BY DEF CommitExpedite, SupplyInv, CallsShaped
  <2>2. KnowsPurchase(d) /\ KnowsPurchase(c) /\ turn[c] = "decide"
    BY DEF SupplyInv, PurchasesKnown, CommitExpedite
  <2>3. OrderOf(d) # o
    BY <2>1, <2>2 DEF KnowsPurchase
  <2>4. <<"purchase", OrderOf(d)>> \in LockedRows
    BY <2>1, <2>2 DEF KnowsPurchase, LockedRows, Purchases
  <2>5. holder'[<<"purchase", OrderOf(d)>>] = d
    BY <2>1, <2>2, <2>4 DEF KnowsPurchase, CommitExpedite, Freed
  <2>6. seen'[d] = seen[d] /\ turn'[d] = turn[d]
    BY <2>1 DEF CommitExpedite, SupplyInv, CallsShaped
  <2> QED
    BY <1>2, <1>4, <2>1, <2>2, <2>3, <2>5, <2>6 DEF KnowsPurchase, OrderOf
<1> DEFINE new == [call |-> c, purchase |-> o, step |-> StepFor(c),
                   before |-> seen[c].expected, after |-> CallOf[c].date]
<1>8. audit' = audit \union {new}
  BY DEF CommitExpedite
<1>9. \A a \in audit : a.purchase # o /\ a.purchase \in Purchases
  BY <1>1 DEF SupplyInv, AuditBacked
<1>10. AuditUnique'
  BY <1>8, <1>9 DEF SupplyInv, AuditUnique
<1>11. AuditBacked'
  <2>1. stepStatus' = [stepStatus EXCEPT ![StepFor(c)] = "executed"]
    BY DEF CommitExpedite
  <2>2. ASSUME NEW a \in audit
        PROVE /\ a.purchase \in Purchases
              /\ db'.purchase[a.purchase].expedited = TRUE
              /\ db'.purchase[a.purchase].expected = a.after
              /\ a.after < a.before
              /\ a.step \in DOMAIN StepOf
              /\ stepStatus'[a.step] = "executed"
    BY <1>2, <1>9, <2>1 DEF SupplyInv, AuditBacked, CallsShaped
  <2>3. /\ new.purchase \in Purchases
        /\ db'.purchase[new.purchase].expedited = TRUE
        /\ db'.purchase[new.purchase].expected = new.after
        /\ new.after < new.before
        /\ new.step \in DOMAIN StepOf
        /\ stepStatus'[new.step] = "executed"
    BY <1>1, <1>2, <1>3, <2>1 DEF SupplyInv, CallsShaped
  <2> HIDE DEF new
  <2> QED
    BY <1>4, <1>8, <2>2, <2>3 DEF AuditBacked
<1> QED
  BY <1>5, <1>6, <1>7, <1>10, <1>11 DEF SupplyInv

-----------------------------------------------------------------------------

(* Every step of an expedite call keeps the invariant.                     *)
LEMMA ExpeditingKeeps ==
  ASSUME SupplyInv, Expediting
  PROVE  SupplyInv'
<1> PICK c \in ExpediteCalls :
      \/ Enter(c) \/ LockPurchase(c) \/ LockExpeditedPlan(c) \/ RowMissing(c)
      \/ RefuseExpedite(c) \/ CommitExpedite(c) \/ ExpediteFault(c)
  BY DEF Expediting, ExpediteStep
<1>1. CASE Enter(c)
  BY <1>1, EnterKeeps
<1>2. CASE LockPurchase(c)
  BY <1>2, LockPurchaseKeeps
<1>3. CASE LockExpeditedPlan(c)
  BY <1>3, LockPlanKeeps
<1>4. CASE RowMissing(c)
  BY <1>4, LeaveKeeps DEF RowMissing, Finished, Refusals
<1>5. CASE RefuseExpedite(c)
  <2>1. PurchaseProblem(c) \in Refusals \union {"ok"}
    BY DEF PurchaseProblem, Refusals
  <2>2. StepProblem(c) \in Refusals \union {"ok"}
    BY DEF StepProblem, Refusals
  <2>3. Problem(c) \in Finished
    BY <1>5, <2>1, <2>2 DEF Problem, RefuseExpedite, Finished, Refusals
  <2> QED
    BY <1>5, <2>3, LeaveKeeps DEF RefuseExpedite
<1>6. CASE CommitExpedite(c)
  BY <1>6, CommitKeeps
<1>7. CASE ExpediteFault(c)
  BY <1>7, LeaveKeeps DEF ExpediteFault, Finished, Refusals
<1> QED
  BY <1>1, <1>2, <1>3, <1>4, <1>5, <1>6, <1>7

LEMMA SupplyStepKeeps == SupplyInv /\ [SupplyNext]_supplyVars => SupplyInv'
<1> SUFFICES ASSUME SupplyInv, [SupplyNext]_supplyVars PROVE SupplyInv'
  OBVIOUS
<1>1. CASE Reads
  BY <1>1, ReadsKeep
<1>2. CASE Expediting
  BY <1>2, ExpeditingKeeps
<1>3. CASE UNCHANGED supplyVars
  BY <1>3, ElsewhereKeeps DEF supplyVars
<1> QED
  BY <1>1, <1>2, <1>3 DEF SupplyNext

(* In every behaviour the tables, the locks and the audit fit together.    *)
THEOREM SupplyInvariance == SupplySafety => []SupplyInv
<1> QED
  BY SupplyInitially, SupplyStepKeeps, PTL DEF SupplySafety

(* A purchase order is expedited once, to an earlier date that stays in its*)
(* row, by a step that is executed: for every set of calls, plans, steps   *)
(* and tables, whatever the order in which the transactions interleave.    *)
THEOREM PurchasesExpeditedOnce == SupplySafety => []ExpeditedOnce
<1>1. SupplyInv => ExpeditedOnce
  BY DEF SupplyInv, AuditBacked, AuditUnique, ExpeditedOnce
<1> QED
  BY <1>1, SupplyInvariance, PTL

-----------------------------------------------------------------------------
Tuples(n) == [1..n -> Int]

(* No sort key precedes itself.                                            *)
LEMMA PrecedesOnce ==
  ASSUME NEW n \in Nat, NEW a \in Tuples(n), NEW b \in Tuples(n), Precedes(a, b)
  PROVE  a # b
BY DEF Precedes, Tuples

(* The order of the sort keys is transitive.                               *)
LEMMA PrecedesOnward ==
  ASSUME NEW n \in Nat, NEW a \in Tuples(n), NEW b \in Tuples(n), NEW c \in Tuples(n),
         Precedes(a, b), Precedes(b, c)
  PROVE  Precedes(a, c)
<1>1. PICK i \in 1..n : a[i] < b[i] /\ \A j \in 1..(i - 1) : a[j] = b[j]
  BY DEF Precedes, Tuples
<1>2. PICK k \in 1..n : b[k] < c[k] /\ \A j \in 1..(k - 1) : b[j] = c[j]
  BY DEF Precedes, Tuples
<1>3. \A j \in 1..n : a[j] \in Int /\ b[j] \in Int /\ c[j] \in Int
  BY DEF Tuples
<1>4. DOMAIN a = 1..n
  BY DEF Tuples
<1>5. CASE i <= k
  <2>1. a[i] < c[i]
    BY <1>1, <1>2, <1>3, <1>5
  <2>2. \A j \in 1..(i - 1) : a[j] = c[j]
    BY <1>1, <1>2, <1>5
  <2> QED
    BY <1>4, <2>1, <2>2 DEF Precedes
<1>6. CASE k < i
  <2>1. a[k] < c[k]
    BY <1>1, <1>2, <1>3, <1>6
  <2>2. \A j \in 1..(k - 1) : a[j] = c[j]
    BY <1>1, <1>2, <1>6
  <2> QED
    BY <1>4, <2>1, <2>2 DEF Precedes
<1> QED
  BY <1>5, <1>6

(* Two different sort keys of one width are ordered one way or the other.  *)
LEMMA PrecedesOneWay ==
  ASSUME NEW n \in Nat, NEW a \in Tuples(n), NEW b \in Tuples(n), a # b
  PROVE  Precedes(a, b) \/ Precedes(b, a)
<1> DEFINE Differ == {i \in 1..n : a[i] # b[i]}
<1>1. Differ # {} /\ Differ \subseteq Nat
  BY DEF Tuples
<1>2. PICK i \in Differ : \A j \in Differ : i <= j
  <2> HIDE DEF Differ
  <2> QED
    BY <1>1, LeastNumber
<1>3. \A j \in 1..(i - 1) : a[j] = b[j]
  BY <1>2
<1>4. a[i] < b[i] \/ b[i] < a[i]
  BY DEF Tuples
<1> QED
  BY <1>3, <1>4 DEF Precedes, Tuples

(* Sorting by keys that differ loses nothing and adds nothing.             *)
LEMMA SortedIsOf ==
  ASSUME NEW S, IsFiniteSet(S), NEW n \in Nat, NEW key \in [S -> Tuples(n)],
         \A x, y \in S : key[x] = key[y] => x = y
  PROVE  Sorted(S, key) \in [1..Cardinality(S) -> S]
<1> DEFINE R == {e \in S \X S : Precedes(key[e[1]], key[e[2]])}
           place == [x \in S |-> Cardinality({y \in S : <<y, x>> \in R}) + 1]
<1>1. \A x, y \in S : <<x, y>> \in R <=> Precedes(key[x], key[y])
  OBVIOUS
<1>2. \A x \in S : <<x, x>> \notin R
  BY <1>1, PrecedesOnce
<1>3. \A x, y, z \in S : <<x, y>> \in R /\ <<y, z>> \in R => <<x, z>> \in R
  BY <1>1, PrecedesOnward
<1>4. \A x, y \in S : x = y \/ <<x, y>> \in R \/ <<y, x>> \in R
  <2> SUFFICES ASSUME NEW x \in S, NEW y \in S, x # y
               PROVE  <<x, y>> \in R \/ <<y, x>> \in R
    OBVIOUS
  <2>1. key[x] \in Tuples(n) /\ key[y] \in Tuples(n) /\ key[x] # key[y]
    OBVIOUS
  <2>2. Precedes(key[x], key[y]) \/ Precedes(key[y], key[x])
    BY <2>1, PrecedesOneWay
  <2> QED
    BY <1>1, <2>2
<1>5. ASSUME NEW x \in S
      PROVE  /\ {y \in S : <<y, x>> \in R} = {y \in S : Precedes(key[y], key[x])}
             /\ Cardinality({y \in S : <<y, x>> \in R}) \in Nat
  <2>1. {y \in S : <<y, x>> \in R} = {y \in S : Precedes(key[y], key[x])}
    BY <1>1
  <2>2. IsFiniteSet({y \in S : <<y, x>> \in R})
    <3> HIDE DEF R
    <3> QED
      BY FS_Subset
  <2> HIDE DEF R
  <2> QED
    BY <2>1, <2>2, FS_CardinalityType
<1>6. place \in Bijection(S, 1..Cardinality(S))
  <2> HIDE DEF R
  <2> QED
    BY <1>2, <1>3, <1>4, PlacesFill
<1>7. ASSUME NEW k \in 1..Cardinality(S) PROVE Sorted(S, key)[k] \in S
  <2>1. \E x \in S : place[x] = k
    <3> HIDE DEF place
    <3> QED
      BY <1>6 DEF Bijection, Surjection
  <2>2. \E x \in S : Cardinality({y \in S : <<y, x>> \in R}) + 1 = k
    <3> HIDE DEF R
    <3> QED
      BY <2>1
  <2>3. \E x \in S : Cardinality({y \in S : Precedes(key[y], key[x])}) = k - 1
    <3>1. PICK x \in S : Cardinality({y \in S : <<y, x>> \in R}) + 1 = k
      BY <2>2
    <3> DEFINE n1 == Cardinality({y \in S : <<y, x>> \in R})
    <3>2. n1 \in Nat /\ n1 + 1 = k /\ n1 = Cardinality({y \in S : Precedes(key[y], key[x])})
      BY <1>5, <3>1
    <3>3. n1 = k - 1
      <4> HIDE DEF n1
      <4> QED
        BY <3>2
    <3> QED
      BY <3>2, <3>3
  <2>4. Sorted(S, key)[k]
          = CHOOSE x \in S : Cardinality({y \in S : Precedes(key[y], key[x])}) = k - 1
    BY DEF Sorted
  <2> QED
    BY <2>3, <2>4
<1> QED
  BY <1>7 DEF Sorted

(* The keys the code sorts by, of one to five columns, are such tuples.    *)
LEMMA TuplesAre ==
  /\ \A a \in Int : <<a>> \in Tuples(1)
  /\ \A a, b \in Int : <<a, b>> \in Tuples(2)
  /\ \A a, b, c \in Int : <<a, b, c>> \in Tuples(3)
  /\ \A a, b, c, d, e \in Int : <<a, b, c, d, e>> \in Tuples(5)
BY DEF Tuples

-----------------------------------------------------------------------------

(* The codes of the rows are integers, and there are finitely many.        *)
LEMMA CodesOK ==
  ASSUME TablesOK(db)
  PROVE  /\ DOMAIN db.warehouse \subseteq Int /\ IsFiniteSet(DOMAIN db.warehouse)
         /\ DOMAIN db.order \subseteq Int /\ IsFiniteSet(DOMAIN db.order)
         /\ DOMAIN db.line \subseteq Int /\ IsFiniteSet(DOMAIN db.line)
         /\ DOMAIN db.shipment \subseteq Int /\ IsFiniteSet(DOMAIN db.shipment)
         /\ DOMAIN db.purchase \subseteq Int /\ IsFiniteSet(DOMAIN db.purchase)
         /\ DOMAIN db.item \subseteq Int /\ IsFiniteSet(DOMAIN db.item)
<1>1. /\ "warehouse" \in Coded /\ "order" \in Coded /\ "line" \in Coded
      /\ "shipment" \in Coded /\ "purchase" \in Coded /\ "item" \in Coded
  BY DEF Coded
<1>2. \A t \in Coded : DOMAIN db[t] \subseteq Int /\ IsFiniteSet(DOMAIN db[t])
  BY DEF TablesOK
<1> QED
  BY <1>1, <1>2

(* What a warehouse can give of a part is a natural number.                *)
LEMMA StockOK ==
  ASSUME TablesOK(db), NEW p, NEW w \in Stocked(p)
  PROVE  Available(p, w) \in Nat /\ db.inventory[<<p, w>>].safety \in Nat
<1>1. db.inventory[<<p, w>>] \in [onHand : Nat, reserved : Nat, safety : Nat]
  BY DEF TablesOK, Stocked
<1> QED
  BY <1>1 DEF Available, AtLeastZero

(* What purchase items still owe is a natural number, and so are their     *)
(* sums.                                                                   *)
LEMMA ItemsOK ==
  ASSUME TablesOK(db)
  PROVE  /\ \A i \in DOMAIN db.item : OpenQuantity(i) \in Int /\ Purchase(i).expected \in Int
         /\ \A p : IsFiniteSet(OpenItems(p)) /\ OpenItems(p) \subseteq DOMAIN db.item
         /\ \A p : \A i \in OpenItems(p) : OpenQuantity(i) \in Nat
<1>1. \A i \in DOMAIN db.item : OpenQuantity(i) \in Int /\ Purchase(i).expected \in Int
  BY DEF TablesOK, OpenQuantity, Purchase
<1>2. \A p : OpenItems(p) \subseteq DOMAIN db.item
  BY DEF OpenItems
<1>3. \A p : \A i \in OpenItems(p) : OpenQuantity(i) \in Nat
  BY <1>1 DEF OpenItems
<1>4. \A p : IsFiniteSet(OpenItems(p))
  BY <1>2, CodesOK, FS_Subset
<1> QED
  BY <1>1, <1>2, <1>3, <1>4

(* An open line wants at least one unit of an order with whole priority    *)
(* and dates.                                                              *)
LEMMA LinesOK ==
  ASSUME TablesOK(db)
  PROVE  /\ IsFiniteSet(OpenLines) /\ OpenLines \subseteq DOMAIN db.line
         /\ \A l \in OpenLines :
              /\ Unfulfilled(l) \in Nat \ {0}
              /\ db.line[l].order \in Int
              /\ Order(l).priority \in Int /\ Order(l).required \in Int /\ Order(l).placed \in Int
         /\ \A products : IsFiniteSet(OrderLines(products))
<1>1. OpenLines \subseteq DOMAIN db.line /\ \A products : OrderLines(products) \subseteq OpenLines
  BY DEF OpenLines, OrderLines
<1>2. IsFiniteSet(OpenLines)
  BY <1>1, CodesOK, FS_Subset
<1>3. \A products : IsFiniteSet(OrderLines(products))
  BY <1>1, <1>2, FS_Subset
<1>4. ASSUME NEW l \in OpenLines
      PROVE  /\ Unfulfilled(l) \in Nat \ {0}
             /\ db.line[l].order \in Int
             /\ Order(l).priority \in Int /\ Order(l).required \in Int /\ Order(l).placed \in Int
  <2>1. /\ db.line[l].order \in DOMAIN db.order
        /\ db.line[l].ordered \in Nat /\ db.line[l].allocated \in Nat
    BY <1>1 DEF TablesOK
  <2>2. Unfulfilled(l) > 0
    BY DEF OpenLines
  <2> QED
    BY <2>1, <2>2, CodesOK DEF TablesOK, Order, Unfulfilled
<1> QED
  BY <1>1, <1>2, <1>3, <1>4

(* Demand for parts is finite, and of whole quantities on known days.      *)
LEMMA DemandsOK ==
  ASSUME TablesOK(db), NEW parts
  PROVE  /\ IsFiniteSet(PartDemands(parts))
         /\ \A d \in PartDemands(parts) : d.quantity \in Nat /\ d.date \in Int
<1> DEFINE rows == (OpenLines \X DOMAIN db.shipment) \X db.bom
           of == [x \in rows |-> Demand(x[1][1], x[1][2], x[2])]
<1>1. \A d \in PartDemands(parts) :
        \E l \in OpenLines, s \in DOMAIN db.shipment, r \in db.bom : d = Demand(l, s, r)
  BY DEF PartDemands, Demands, OpenShipments, Shipments
<1>2. ASSUME NEW d \in PartDemands(parts) PROVE d.quantity \in Nat /\ d.date \in Int
  <2>1. PICK l \in OpenLines, s \in DOMAIN db.shipment, r \in db.bom : d = Demand(l, s, r)
    BY <1>1
  <2>2. Unfulfilled(l) \in Nat /\ Order(l).required \in Int
    BY LinesOK
  <2>3. r.required \in Nat
    BY DEF TablesOK
  <2> QED
    BY <2>1, <2>2, <2>3 DEF Demand
<1>3. IsFiniteSet(rows)
  <2>1. IsFiniteSet(OpenLines) /\ IsFiniteSet(DOMAIN db.shipment) /\ IsFiniteSet(db.bom)
    BY LinesOK, CodesOK DEF TablesOK
  <2> QED
    BY <2>1, FS_Product
<1>4. IsFiniteSet({of[x] : x \in rows})
  <2> HIDE DEF of, rows
  <2> QED
    BY <1>3, FiniteImage
<1>5. PartDemands(parts) \subseteq {of[x] : x \in rows}
  <2> SUFFICES ASSUME NEW d \in PartDemands(parts) PROVE \E x \in rows : d = of[x]
    OBVIOUS
  <2>1. PICK l \in OpenLines, s \in DOMAIN db.shipment, r \in db.bom : d = Demand(l, s, r)
    BY <1>1
  <2>2. <<<<l, s>>, r>> \in rows /\ of[<<<<l, s>>, r>>] = d
    BY <2>1
  <2> HIDE DEF of, rows
  <2> QED
    BY <2>2
<1>6. IsFiniteSet(PartDemands(parts))
  <2> HIDE DEF of, rows
  <2> QED
    BY <1>4, <1>5, FS_Subset
<1> QED
  BY <1>2, <1>6

-----------------------------------------------------------------------------
(* A finite set of numbers that is not empty has a greatest and a least.   *)
LEMMA GreatestNumber ==
  ASSUME NEW S, IsFiniteSet(S)
  PROVE  S \subseteq Int /\ S # {} => \E m \in S : \A n \in S : n <= m
<1> DEFINE Off == {T \in SUBSET S : T # {} /\ ~\E m \in T : \A n \in T : n <= m}
<1>1. Off # {} => \E T \in Off : \A U \in Off : ~(U \subseteq T /\ U # T)
  <2>1. Off \in SUBSET (SUBSET S)
    OBVIOUS
  <2> HIDE DEF Off
  <2> QED
    BY <2>1, LeastSubset
<1> SUFFICES ASSUME S \subseteq Int, S # {}, Off # {} PROVE FALSE
  BY Zenon
<1>2. PICK T \in Off : \A U \in Off : ~(U \subseteq T /\ U # T)
  BY <1>1
<1>3. PICK x \in T : TRUE
  OBVIOUS
<1> DEFINE R == T \ {x}
<1>4. R \notin Off /\ R \in SUBSET S
  BY <1>2, <1>3
<1>5. CASE R = {}
  <2>1. T = {x} /\ x \in Int
    BY <1>3, <1>5
  <2> QED
    BY <2>1
<1>6. CASE R # {}
  <2>1. PICK m \in R : \A n \in R : n <= m
    BY <1>4, <1>6
  <2>2. x \in Int /\ m \in Int /\ \A n \in T : n \in Int /\ (n = x \/ n \in R)
    BY <1>4
  <2>3. CASE x <= m
    BY <2>1, <2>2, <2>3
  <2>4. CASE m < x
    <3>1. \A n \in T : n <= x
      BY <2>1, <2>2, <2>4
    <3> QED
      BY <1>3, <3>1
  <2> QED
    BY <2>2, <2>3, <2>4
<1> QED
  BY <1>5, <1>6

(* The greatest element of a finite set of integers is one.                *)
LEMMA MaxOK ==
  ASSUME NEW S, IsFiniteSet(S), S \subseteq Int, S # {}
  PROVE  Max(S) \in S /\ \A n \in S : n <= Max(S)
<1>1. PICK m \in S : \A n \in S : n <= m
  BY GreatestNumber
<1>2. \A n \in S : m >= n
  BY <1>1
<1>3. Max(S) \in S /\ \A n \in S : Max(S) >= n
  BY <1>2 DEF Max
<1> QED
  BY <1>3

(* The least element of a finite set of integers is one.                   *)
LEMMA MinOK ==
  ASSUME NEW S, IsFiniteSet(S), S \subseteq Int, S # {}
  PROVE  Min(S) \in S /\ \A n \in S : Min(S) <= n
<1> DEFINE minus == [n \in S |-> -n]
           negated == {minus[n] : n \in S}
<1>1. IsFiniteSet(negated)
  <2> HIDE DEF minus
  <2> QED
    BY FiniteImage
<1>2. negated \subseteq Int /\ negated # {}
  <2>1. \A n \in S : minus[n] \in Int
    OBVIOUS
  <2> HIDE DEF minus
  <2> QED
    BY <2>1
<1>3. Max(negated) \in negated /\ \A n \in negated : n <= Max(negated)
  <2> HIDE DEF negated
  <2> QED
    BY <1>1, <1>2, MaxOK
<1>4. PICK m \in S : Max(negated) = -m
  BY <1>3
<1>5. \A n \in S : m <= n
  <2> SUFFICES ASSUME NEW n \in S PROVE m <= n
    OBVIOUS
  <2>1. -n <= -m
    <3>1. minus[n] \in negated /\ minus[n] = -n
      OBVIOUS
    <3> QED
      BY <1>3, <1>4, <3>1
  <2> QED
    BY <2>1
<1> QED
  BY <1>5 DEF Min
-----------------------------------------------------------------------------
(* Projections of parts come to whole numbers.                             *)
Arriving(items, delay, horizon) ==
  {i \in items : Purchase(i).expected # NoDate /\ Arrival(i, delay) <= horizon}

OnOrder(items) == Total(items, OpenQuantity)
Wanting(mine, horizon) == Total({d \in mine : d.date <= horizon}, LAMBDA d : d.quantity)

(* A part's projection, with the arrivals that matter to it named.         *)
LEMMA ProjectionIs ==
  ASSUME NEW start, NEW mine, NEW items, NEW delay, NEW horizon
  PROVE  LET p == Projection(start, mine, items, delay, horizon)
         IN /\ p.shortage = AtLeastZero(-(start + OnOrder(Arriving(items, delay, horizon))
                                                - Wanting(mine, horizon)))
            /\ p.available = AtLeastZero(start + OnOrder(items) - p.shortage)
<1>1. {i \in Arriving(items, delay, horizon) : Arrival(i, delay) <= horizon}
        = Arriving(items, delay, horizon)
  BY DEF Arriving
<1> QED
  BY <1>1 DEF Projection, Arriving, OnOrder, Wanting

(* Fewer items owe no more.                                                *)
LEMMA OnOrderOK ==
  ASSUME TablesOK(db), NEW items, IsFiniteSet(items), \A i \in items : OpenQuantity(i) \in Nat
  PROVE  /\ OnOrder(items) \in Nat
         /\ \A some \in SUBSET items : OnOrder(some) \in Nat /\ OnOrder(some) <= OnOrder(items)
<1>1. OnOrder(items) \in Nat
  <2> DEFINE f == [x \in items |-> OpenQuantity(x)]
  <2>1. \A x \in items : f[x] \in Nat
    OBVIOUS
  <2> HIDE DEF f
  <2>2. SumFunctionOnSet(f, items) \in Nat
    BY <2>1, SumIsNat
  <2> QED
    BY <2>2 DEF f, OnOrder, Total
<1>2. ASSUME NEW some \in SUBSET items
      PROVE  OnOrder(some) \in Nat /\ OnOrder(some) <= OnOrder(items)
  <2> DEFINE f == [x \in some |-> OpenQuantity(x)]
             g == [x \in items |-> OpenQuantity(x)]
  <2>1. (\A x \in some : f[x] \in Nat /\ f[x] = g[x]) /\ \A x \in items : g[x] \in Nat
    OBVIOUS
  <2>2. IsFiniteSet(some)
    BY FS_Subset
  <2> HIDE DEF f, g
  <2>3. SumFunctionOnSet(f, some) \in Nat
    BY <2>1, <2>2, SumIsNat
  <2>4. SumFunctionOnSet(f, some) <= SumFunctionOnSet(g, items)
    BY <2>1, SumOfMore
  <2> QED
    BY <2>3, <2>4 DEF f, g, OnOrder, Total
<1> QED
  BY <1>1, <1>2

(* What is wanted by the horizon is a natural number.                      *)
LEMMA WantingOK ==
  ASSUME NEW mine, IsFiniteSet(mine), \A d \in mine : d.quantity \in Nat, NEW horizon
  PROVE  Wanting(mine, horizon) \in Nat
<1> DEFINE S == {d \in mine : d.date <= horizon}
           f == [d \in S |-> d.quantity]
<1>1. IsFiniteSet(S) /\ \A d \in S : f[d] \in Nat
  BY FS_Subset
<1>2. SumFunctionOnSet(f, S) \in Nat
  <2> HIDE DEF f, S
  <2> QED
    BY <1>1, SumIsNat
<1> QED
  BY <1>2 DEF Wanting, Total

(* A part is short of, and has, a natural number of units.                 *)
LEMMA ProjectionOK ==
  ASSUME TablesOK(db), NEW start \in Int, NEW delay, NEW horizon,
         NEW mine, IsFiniteSet(mine), \A d \in mine : d.quantity \in Nat,
         NEW items, IsFiniteSet(items), \A i \in items : OpenQuantity(i) \in Nat
  PROVE  /\ Projection(start, mine, items, delay, horizon).shortage \in Nat
         /\ Projection(start, mine, items, delay, horizon).available \in Nat
<1> DEFINE a == OnOrder(Arriving(items, delay, horizon))
           b == Wanting(mine, horizon)
           c == OnOrder(items)
           p == Projection(start, mine, items, delay, horizon)
<1>1. a \in Int /\ b \in Int /\ c \in Int
  BY OnOrderOK, WantingOK DEF Arriving
<1>2. /\ p.shortage = AtLeastZero(-(start + a - b))
      /\ p.available = AtLeastZero(start + c - p.shortage)
  BY ProjectionIs
<1> HIDE DEF a, b, c, p
<1>3. p.shortage \in Nat
  BY <1>1, <1>2 DEF AtLeastZero
<1>4. p.available \in Nat
  BY <1>1, <1>2, <1>3 DEF AtLeastZero
<1> QED
  BY <1>3, <1>4 DEF p

(* What one part has in the warehouses looked at.                          *)
StartOf(parts, p) ==
  LET due == {d \in PartDemands(parts) : d.date <= Horizon(PartDemands(parts))}
  IN Total({d.warehouse : d \in due} \intersect Stocked(p), LAMBDA w : Available(p, w))

MineOf(parts, p) ==
  {d \in PartDemands(parts) : d.date <= Horizon(PartDemands(parts)) /\ d.part = p}

(* The projection of one part among several, as its own arguments give it. *)
LEMMA ProjectionsAre ==
  ASSUME NEW parts, NEW delay, NEW p \in parts
  PROVE  Projections(parts, delay)[p] =
           Projection(StartOf(parts, p), MineOf(parts, p), OpenItems(p), delay,
                      Horizon(PartDemands(parts)))
<1>1. {d \in {e \in PartDemands(parts) : e.date <= Horizon(PartDemands(parts))} : d.part = p}
        = MineOf(parts, p)
  BY DEF MineOf
<1> QED
  BY <1>1 DEF Projections, StartOf

(* The stock a projection starts from is a natural number.                 *)
LEMMA StartOK ==
  ASSUME TablesOK(db), NEW parts, NEW p
  PROVE  StartOf(parts, p) \in Nat
<1> DEFINE due == {d \in PartDemands(parts) : d.date <= Horizon(PartDemands(parts))}
           S == {d.warehouse : d \in due} \intersect Stocked(p)
           f == [w \in S |-> Available(p, w)]
<1>1. IsFiniteSet(S)
  <2>1. S \subseteq DOMAIN db.warehouse
    BY DEF Stocked
  <2> QED
    BY <2>1, CodesOK, FS_Subset
<1>2. \A w \in S : f[w] \in Nat
  BY StockOK
<1>3. SumFunctionOnSet(f, S) \in Nat
  <2> HIDE DEF f, S
  <2> QED
    BY <1>1, <1>2, SumIsNat
<1> QED
  BY <1>3 DEF StartOf, Total

(* Every part of an analysis has a whole projection.                       *)
LEMMA ProjectionsOK ==
  ASSUME TablesOK(db), NEW parts, NEW delay
  PROVE  \A p \in parts : /\ Projections(parts, delay)[p].shortage \in Nat
                          /\ Projections(parts, delay)[p].available \in Nat
<1> SUFFICES ASSUME NEW p \in parts
             PROVE  /\ Projections(parts, delay)[p].shortage \in Nat
                    /\ Projections(parts, delay)[p].available \in Nat
  OBVIOUS
<1>1. IsFiniteSet(MineOf(parts, p)) /\ \A d \in MineOf(parts, p) : d.quantity \in Nat
  BY DemandsOK, FS_Subset DEF MineOf
<1>2. IsFiniteSet(OpenItems(p)) /\ \A i \in OpenItems(p) : OpenQuantity(i) \in Nat
  BY ItemsOK
<1>3. StartOf(parts, p) \in Int
  BY StartOK
<1> QED
  BY <1>1, <1>2, <1>3, ProjectionOK, ProjectionsAre

-----------------------------------------------------------------------------
(* The tables keep within their columns, foreign keys and checks.          *)
LEMMA TablesInitially == SupplyInit => TablesOK(db)
BY WorldAssumption DEF SupplyInit

(* A warehouse gives stock it has to spare.                                *)
LEMMA TransferKeepsTables ==
  ASSUME SupplyInv, TablesOK(db), StockMoves
  PROVE  TablesOK(db)'
<1> PICK from \in DOMAIN db.inventory, to \in DOMAIN db.inventory :
      /\ from # to /\ Available(from[1], from[2]) > db.inventory[from].safety
      /\ from[1] = to[1]
      /\ db' = [db EXCEPT !.inventory[from].onHand = @ - 1, !.inventory[to].onHand = @ + 1]
  BY DEF StockMoves
<1> DEFINE row == [onHand : Nat, reserved : Nat, safety : Nat]
           less == [db.inventory[from] EXCEPT !.onHand = @ - 1]
           more == [db.inventory[to] EXCEPT !.onHand = @ + 1]
<1>1. /\ DOMAIN db'.inventory = DOMAIN db.inventory
      /\ db'.inventory[from] = less /\ db'.inventory[to] = more
      /\ \A k \in DOMAIN db.inventory \ {from, to} : db'.inventory[k] = db.inventory[k]
      /\ \A t \in DOMAIN db \ {"inventory"} : db'[t] = db[t]
      /\ DOMAIN db' = DOMAIN db
  BY DEF SupplyInv, TablesShaped
<1>2. \A k \in DOMAIN db.inventory : db.inventory[k] \in row
  BY DEF TablesOK
<1>3. more \in row
  BY <1>2
<1>4. less \in row
  <2>1. from = <<from[1], from[2]>>
    BY DEF TablesOK
  <2>2. db.inventory[from] \in row
    BY <1>2
  <2>3. db.inventory[from].onHand > 0
    BY <2>1, <2>2 DEF Available, AtLeastZero
  <2> QED
    BY <2>2, <2>3
<1>5. \A k \in DOMAIN db'.inventory : db'.inventory[k] \in row
  <2> HIDE DEF row, less, more
  <2> QED
    BY <1>1, <1>2, <1>3, <1>4
<1>6. /\ \A t \in Coded : db'[t] = db[t]
      /\ db'.event = db.event /\ db'.bom = db.bom /\ db'.transfer = db.transfer
      /\ db'.order = db.order /\ db'.line = db.line /\ db'.purchase = db.purchase
      /\ db'.item = db.item /\ db'.warehouse = db.warehouse
  BY <1>1 DEF TablesOK, Tables, Coded
<1> QED
  BY <1>1, <1>5, <1>6 DEF TablesOK

(* An expedited purchase order gets another day.                           *)
LEMMA CommitKeepsTables ==
  ASSUME SupplyInv, TablesOK(db), NEW c \in ExpediteCalls, CommitExpedite(c)
  PROVE  TablesOK(db)'
<1> DEFINE o == OrderOf(c)
           row == [db.purchase[o] EXCEPT !.expected = CallOf[c].date,
                                         !.expedited = TRUE, !.cost = CallOf[c].cost]
<1>1. o \in Purchases /\ CallOf[c].date \in Int
  BY NoProblem DEF CommitExpedite
<1>2. /\ DOMAIN db' = DOMAIN db
      /\ DOMAIN db'.purchase = Purchases
      /\ db'.purchase[o] = row
      /\ \A p \in Purchases \ {o} : db'.purchase[p] = db.purchase[p]
      /\ \A t \in DOMAIN db \ {"purchase"} : db'[t] = db[t]
  BY <1>1 DEF CommitExpedite, SupplyInv, TablesShaped, Purchases
<1>3. row.expected = CallOf[c].date
  BY <1>1 DEF SupplyInv, TablesShaped
<1> HIDE DEF row
<1>4. /\ \A t \in Coded \ {"purchase"} : db'[t] = db[t]
      /\ db'.event = db.event /\ db'.bom = db.bom /\ db'.transfer = db.transfer
      /\ db'.order = db.order /\ db'.line = db.line /\ db'.inventory = db.inventory
      /\ db'.item = db.item /\ db'.warehouse = db.warehouse
  BY <1>2 DEF TablesOK, Tables, Coded
<1>5. \A p \in DOMAIN db'.purchase : db'.purchase[p].expected \in Int
  BY <1>1, <1>2, <1>3 DEF TablesOK, Purchases
<1>6. DOMAIN db'.purchase = DOMAIN db.purchase
  BY <1>2 DEF Purchases
<1>7. \A t \in Coded : DOMAIN db'[t] = DOMAIN db[t]
  <2> SUFFICES ASSUME NEW t \in Coded PROVE DOMAIN db'[t] = DOMAIN db[t]
    OBVIOUS
  <2>1. CASE t = "purchase"
    BY <1>6, <2>1
  <2>2. CASE t # "purchase"
    BY <1>4, <2>2
  <2> QED
    BY <2>1, <2>2
<1> QED
  BY <1>2, <1>4, <1>5, <1>6, <1>7 DEF TablesOK

TablesInv == SupplyInv /\ TablesOK(db)

(* No step of the system leaves a table out of shape.                      *)
LEMMA TablesKept == TablesInv /\ [SupplyNext]_supplyVars => TablesInv'
<1> SUFFICES ASSUME TablesInv, [SupplyNext]_supplyVars PROVE TablesOK(db)'
  BY SupplyStepKeeps DEF TablesInv
<1>1. CASE StockMoves
  BY <1>1, TransferKeepsTables DEF TablesInv
<1>2. ASSUME NEW c \in ExpediteCalls, CommitExpedite(c) PROVE TablesOK(db)'
  BY <1>2, CommitKeepsTables DEF TablesInv
<1>3. CASE RecommendStep
  BY <1>3 DEF TablesInv, RecommendStep, Refused, FindOrders, RankOrders, Nothing,
              FindProducts, Cover, Overdue, Conclude
<1>4. CASE db' = db
  BY <1>4 DEF TablesInv
<1>5. CASE Expediting
  <2>1. PICK c \in ExpediteCalls :
          \/ Enter(c) \/ LockPurchase(c) \/ LockExpeditedPlan(c) \/ RowMissing(c)
          \/ RefuseExpedite(c) \/ CommitExpedite(c) \/ ExpediteFault(c)
    BY <1>5 DEF Expediting, ExpediteStep
  <2>2. CommitExpedite(c) \/ db' = db
    BY <2>1 DEF Enter, LockPurchase, LockExpeditedPlan, RowMissing, RefuseExpedite,
                ExpediteFault, Leave
  <2> QED
    BY <1>2, <1>4, <2>2
<1> QED
  BY <1>1, <1>3, <1>4, <1>5 DEF SupplyNext, Reads, supplyVars

(* The tables stay in shape: the invariant under every later result.       *)
LEMMA TablesInvariance == SupplySafety => []TablesInv
<1>1. SupplyInit => TablesInv
  BY SupplyInitially, TablesInitially DEF TablesInv
<1> QED
  BY <1>1, TablesKept, PTL DEF SupplySafety

-----------------------------------------------------------------------------
(* Products and orders: what is built, given and short are whole numbers.  *)
LEMMA BomOK ==
  ASSUME TablesOK(db)
  PROVE  /\ \A product : IsFiniteSet(DOMAIN Bom(product)) /\ DOMAIN Bom(product) \subseteq Int
         /\ \A product : \A p \in DOMAIN Bom(product) : Bom(product)[p] \in Nat \ {0}
         /\ \A parts : \A product \in ProductsUsing(parts) : DOMAIN Bom(product) # {}
         /\ IsFiniteSet({r.part : r \in db.bom})
         /\ \A product : DOMAIN Bom(product) \subseteq {r.part : r \in db.bom}
<1> DEFINE part == [r \in db.bom |-> r.part]
<1>1. IsFiniteSet({part[r] : r \in db.bom})
  <2>1. IsFiniteSet(db.bom)
    BY DEF TablesOK
  <2> HIDE DEF part
  <2> QED
    BY <2>1, FiniteImage
<1>2. {part[r] : r \in db.bom} = {r.part : r \in db.bom}
  BY Zenon
<1>3. ASSUME NEW product
      PROVE  /\ DOMAIN Bom(product) \subseteq {r.part : r \in db.bom}
             /\ \A p \in DOMAIN Bom(product) : Bom(product)[p] \in Nat \ {0}
  <2> DEFINE rows == {r \in db.bom : r.product = product /\ r.part \in db.activeParts}
  <2>1. DOMAIN Bom(product) = {r.part : r \in rows}
    BY DEF Bom
  <2>2. ASSUME NEW p \in DOMAIN Bom(product) PROVE Bom(product)[p] \in Nat \ {0}
    <3>1. Bom(product)[p] = (CHOOSE r \in rows : r.part = p).required
      BY DEF Bom
    <3>2. \E r \in rows : r.part = p
      BY <2>1
    <3>3. (CHOOSE r \in rows : r.part = p) \in rows
      BY <3>2
    <3> QED
      BY <3>1, <3>3 DEF TablesOK
  <2> QED
    BY <2>1, <2>2
<1>4. {r.part : r \in db.bom} \subseteq Int
  BY DEF TablesOK
<1>5. ASSUME NEW parts, NEW product \in ProductsUsing(parts) PROVE DOMAIN Bom(product) # {}
  BY DEF ProductsUsing, Bom
<1>6. IsFiniteSet({r.part : r \in db.bom})
  BY <1>1, <1>2
<1>7. \A product : IsFiniteSet(DOMAIN Bom(product))
  BY <1>3, <1>6, FS_Subset
<1> QED
  BY <1>3, <1>4, <1>5, <1>6, <1>7

(* Of a product so much can be built as the scarcest of its parts allows.  *)
LEMMA BuildableOK ==
  ASSUME TablesOK(db), NEW bom, IsFiniteSet(DOMAIN bom), DOMAIN bom # {},
         \A p \in DOMAIN bom : bom[p] \in Nat \ {0},
         NEW projections, \A p \in DOMAIN bom : projections[p].available \in Nat
  PROVE  /\ Buildable(bom, projections) \in Nat
         /\ \E p \in DOMAIN bom : Buildable(bom, projections) = projections[p].available \div bom[p]
         /\ \A p \in DOMAIN bom :
              Buildable(bom, projections) <= projections[p].available \div bom[p]
<1> DEFINE f == [p \in DOMAIN bom |-> projections[p].available \div bom[p]]
           S == {f[p] : p \in DOMAIN bom}
<1>1. \A p \in DOMAIN bom : f[p] \in Nat
  BY SMT
<1>2. IsFiniteSet(S)
  <2> HIDE DEF f
  <2> QED
    BY FiniteImage
<1>3. S \subseteq Int /\ S # {}
  <2> HIDE DEF f
  <2> QED
    BY <1>1
<1>4. Min(S) \in S /\ \A n \in S : Min(S) <= n
  <2> HIDE DEF S
  <2> QED
    BY <1>2, <1>3, MinOK
<1>5. S = {projections[p].available \div bom[p] : p \in DOMAIN bom}
  BY Zenon
<1>6. Buildable(bom, projections) = Min(S)
  BY <1>5 DEF Buildable
<1>7. PICK p \in DOMAIN bom : Min(S) = f[p]
  BY <1>4
<1>8. \A q \in DOMAIN bom : Min(S) <= f[q]
  BY <1>4
<1> HIDE DEF S
<1>9. Min(S) \in Nat
  BY <1>1, <1>7
<1> QED
  BY <1>6, <1>7, <1>8, <1>9

PartsOf(products) == UNION {DOMAIN Bom(c) : c \in products}

(* A product that is hit builds a natural number of units, before and      *)
(* after the delay.                                                        *)
LEMMA ProductsHitOK ==
  ASSUME TablesOK(db), NEW impacted, NEW delay
  PROVE  \A e \in ProductsHit(impacted, delay) :
           /\ e.product \in ProductsUsing(impacted)
           /\ e.required = Bom(e.product)
           /\ e.baseline
                = Buildable(e.required, Projections(PartsOf(ProductsUsing(impacted)), 0))
           /\ e.delayed
                = Buildable(e.required, Projections(PartsOf(ProductsUsing(impacted)), delay))
           /\ e.baseline \in Nat /\ e.delayed \in Nat
           /\ \A f \in ProductsHit(impacted, delay) : e.product = f.product => e = f
<1> DEFINE candidates == ProductsUsing(impacted)
           parts == PartsOf(candidates)
           baseline == Projections(parts, 0)
           delayed == Projections(parts, delay)
<1>1. \A e \in ProductsHit(impacted, delay) :
        \E c \in candidates : e = ProductImpact(c, impacted, baseline, delayed)
  BY DEF ProductsHit, PartsOf
<1>2. \A c \in candidates :
        LET e == ProductImpact(c, impacted, baseline, delayed)
        IN /\ e.product = c /\ e.required = Bom(c)
           /\ e.baseline = Buildable(Bom(c), baseline) /\ e.delayed = Buildable(Bom(c), delayed)
  BY DEF ProductImpact
<1>3. ASSUME NEW c \in candidates
      PROVE  Buildable(Bom(c), baseline) \in Nat /\ Buildable(Bom(c), delayed) \in Nat
  <2>1. /\ IsFiniteSet(DOMAIN Bom(c)) /\ DOMAIN Bom(c) # {}
        /\ \A p \in DOMAIN Bom(c) : Bom(c)[p] \in Nat \ {0}
    BY BomOK
  <2>2. DOMAIN Bom(c) \subseteq parts
    BY DEF PartsOf
  <2>3. \A p \in DOMAIN Bom(c) : baseline[p].available \in Nat /\ delayed[p].available \in Nat
    BY <2>2, ProjectionsOK
  <2> HIDE DEF baseline, delayed
  <2> QED
    BY <2>1, <2>3, BuildableOK
<1> HIDE DEF candidates, parts, baseline, delayed
<1>4. SUFFICES ASSUME NEW e \in ProductsHit(impacted, delay)
               PROVE  /\ e.product \in candidates
                      /\ e.required = Bom(e.product)
                      /\ e.baseline = Buildable(e.required, baseline)
                      /\ e.delayed = Buildable(e.required, delayed)
                      /\ e.baseline \in Nat /\ e.delayed \in Nat
                      /\ \A f \in ProductsHit(impacted, delay) : e.product = f.product => e = f
  BY DEF candidates, parts, baseline, delayed
<1>5. PICK c \in candidates : e = ProductImpact(c, impacted, baseline, delayed)
  BY <1>1
<1>6. ASSUME NEW f \in ProductsHit(impacted, delay), e.product = f.product PROVE e = f
  <2>1. PICK d \in candidates : f = ProductImpact(d, impacted, baseline, delayed)
    BY <1>1
  <2> QED
    BY <1>2, <1>5, <1>6, <2>1
<1> QED
  BY <1>2, <1>3, <1>5, <1>6

(* A line gets no more than it lacks.                                      *)
LEMMA AllocationOK ==
  ASSUME TablesOK(db), NEW available \in Nat, NEW l \in OpenLines
  PROVE  Allocation(l, available) \in Nat /\ Allocation(l, available) <= Unfulfilled(l)
<1> DEFINE before == {k \in OrderLines({db.line[l].product}) :
                        Precedes(AllocationKey(k), AllocationKey(l))}
           f == [k \in before |-> Unfulfilled(k)]
<1>1. IsFiniteSet(before)
  BY LinesOK, FS_Subset
<1>2. \A k \in before : f[k] \in Nat
  BY LinesOK DEF OrderLines
<1>3. SumFunctionOnSet(f, before) \in Nat
  <2> HIDE DEF before, f
  <2> QED
    BY <1>1, <1>2, SumIsNat
<1>4. Allocation(l, available)
        = Least(Unfulfilled(l), AtLeastZero(available - SumFunctionOnSet(f, before)))
  BY DEF Allocation, Total
<1>5. Unfulfilled(l) \in Nat
  BY LinesOK
<1> HIDE DEF f, before
<1> QED
  BY <1>3, <1>4, <1>5 DEF Least, AtLeastZero

LinesHit(products, delay) ==
  {i \in {LineImpact(l, products, delay) : l \in OrderLines({e.product : e \in products})} :
     Hit(i, delay)}

(* A line that is hit lacks what its product cannot give it, a natural     *)
(* number of units.                                                        *)
LEMMA LinesHitOK ==
  ASSUME TablesOK(db), NEW delay
  PROVE  LET products == ImpactedProducts(delay)
             hits == LinesHit(products, delay)
         IN /\ IsFiniteSet(hits)
            /\ \A i \in hits :
                 /\ i.line \in OpenLines
                 /\ i = LineImpact(i.line, products, delay)
                 /\ \E e \in products : /\ e.product = db.line[i.line].product
                                        /\ i.product = e.product
                                        /\ i.shortage =
                                             Unfulfilled(i.line) - Allocation(i.line, e.delayed)
                 /\ i.shortage \in Nat
<1> DEFINE products == ImpactedProducts(delay)
           lines == OrderLines({e.product : e \in products})
           f == [l \in lines |-> LineImpact(l, products, delay)]
           hits == LinesHit(products, delay)
<1>1. IsFiniteSet(hits)
  <2>1. IsFiniteSet({f[l] : l \in lines})
    <3>1. IsFiniteSet(lines)
      BY LinesOK
    <3> HIDE DEF f, lines
    <3> QED
      BY <3>1, FiniteImage
  <2>2. hits \subseteq {f[l] : l \in lines}
    BY DEF LinesHit
  <2> HIDE DEF f, lines, hits
  <2> QED
    BY <2>1, <2>2, FS_Subset
<1>2. ASSUME NEW i \in hits
      PROVE  /\ i.line \in OpenLines
             /\ i = LineImpact(i.line, products, delay)
             /\ \E e \in products : /\ e.product = db.line[i.line].product
                                    /\ i.product = e.product
                                    /\ i.shortage =
                                         Unfulfilled(i.line) - Allocation(i.line, e.delayed)
             /\ i.shortage \in Nat
  <2>1. PICK l \in lines : i = LineImpact(l, products, delay)
    BY DEF LinesHit
  <2>2. l \in OpenLines /\ \E e \in products : e.product = db.line[l].product
    BY DEF OrderLines
  <2> DEFINE e == CHOOSE q \in products : q.product = db.line[l].product
  <2>3. e \in products /\ e.product = db.line[l].product
    BY <2>2
  <2>4. /\ i.line = l /\ i.product = e.product
        /\ i.shortage = Unfulfilled(l) - Allocation(l, e.delayed)
    BY <2>1 DEF LineImpact
  <2>5. e.delayed \in Nat
    BY <2>3, ProductsHitOK DEF ImpactedProducts
  <2> HIDE DEF e, products, lines
  <2>6. /\ Unfulfilled(l) \in Nat /\ Allocation(l, e.delayed) \in Nat
        /\ Allocation(l, e.delayed) <= Unfulfilled(l)
    BY <2>2, <2>5, LinesOK, AllocationOK
  <2>7. i.shortage \in Nat
    BY <2>4, <2>6
  <2> QED
    BY <2>1, <2>2, <2>3, <2>4, <2>7
<1> QED
  BY <1>1, <1>2

HitsOf(o, delay) == {i \in LinesHit(ImpactedProducts(delay), delay) : db.line[i.line].order = o}

(* What is known of an impacted order, wherever it is kept.                *)
OrderOK(e) ==
  /\ e.order \in Int
  /\ e.required \in Int
  /\ IsFiniteSet(e.products)
  /\ \A i \in e.products : i.shortage \in Nat

Brief(i) == [line |-> i.line, product |-> i.product, shortage |-> i.shortage]

(* An order's impact adds up the shortages of its lines.                   *)
LEMMA OrderImpactIs ==
  ASSUME NEW o, NEW hits, NEW delay
  PROVE  LET e == OrderImpact(o, hits, delay)
         IN /\ e.order = o
            /\ e.required = db.order[o].required
            /\ e.shortage = SumFunctionOnSet([i \in hits |-> i.shortage], hits)
BY DEF OrderImpact, Total

(* An order's impact has whole ranks and sums.                             *)
LEMMA OrderImpactOK ==
  ASSUME NEW o \in Int, db.order[o].required \in Int, NEW delay,
         NEW hits, IsFiniteSet(hits), \A i \in hits : i.shortage \in Nat
  PROVE  OrderOK(OrderImpact(o, hits, delay))
<1> DEFINE e == OrderImpact(o, hits, delay)
           brief == [i \in hits |-> Brief(i)]
<1>1. /\ e.order = o /\ e.required = db.order[o].required
      /\ e.products = {brief[i] : i \in hits}
  BY DEF OrderImpact, Brief
<1>2. IsFiniteSet(e.products)
  <2> HIDE DEF brief
  <2> QED
    BY <1>1, FiniteImage
<1>3. \A i \in hits : brief[i].shortage = i.shortage
  BY DEF Brief
<1> HIDE DEF e, brief
<1>4. \A k \in e.products : k.shortage \in Nat
  BY <1>1, <1>3
<1> QED
  BY <1>1, <1>2, <1>4 DEF OrderOK, e

(* An impacted order is one with lines that are short, and every such      *)
(* order is one.                                                           *)
LEMMA ImpactedOrdersAre ==
  ASSUME NEW delay
  PROVE  /\ \A e \in ImpactedOrders(delay) :
              \E i \in LinesHit(ImpactedProducts(delay), delay) :
                e = OrderImpact(db.line[i.line].order, HitsOf(db.line[i.line].order, delay), delay)
         /\ \A i \in LinesHit(ImpactedProducts(delay), delay) :
              LET e == OrderImpact(db.line[i.line].order,
                                   HitsOf(db.line[i.line].order, delay), delay)
              IN e.shortage > 0 => e \in ImpactedOrders(delay)
<1>1. ImpactedOrders(delay) =
        {e \in {OrderImpact(o, HitsOf(o, delay), delay) :
                  o \in {db.line[i.line].order : i \in LinesHit(ImpactedProducts(delay), delay)}} :
           e.shortage > 0}
  BY DEF ImpactedOrders, OrdersHit, LinesHit, HitsOf
<1> QED
  BY <1>1

(* There are finitely many impacted orders, each with whole ranks and      *)
(* sums.                                                                   *)
LEMMA ImpactedOrdersOK ==
  ASSUME TablesOK(db), NEW delay
  PROVE  /\ IsFiniteSet(ImpactedOrders(delay))
         /\ \A e \in ImpactedOrders(delay) : OrderOK(e)
<1> DEFINE hits == LinesHit(ImpactedProducts(delay), delay)
           f == [i \in hits |-> OrderImpact(db.line[i.line].order,
                                            HitsOf(db.line[i.line].order, delay), delay)]
<1>1. IsFiniteSet(hits)
  BY LinesHitOK
<1>2. \A e \in ImpactedOrders(delay) : \E i \in hits : e = f[i]
  BY ImpactedOrdersAre
<1>3. IsFiniteSet(ImpactedOrders(delay))
  <2> HIDE DEF f, hits
  <2>1. IsFiniteSet({f[i] : i \in hits})
    BY <1>1, FiniteImage
  <2>2. ImpactedOrders(delay) \subseteq {f[i] : i \in hits}
    BY <1>2
  <2> QED
    BY <2>1, <2>2, FS_Subset
<1>4. ASSUME NEW e \in ImpactedOrders(delay) PROVE OrderOK(e)
  <2>1. PICK i \in hits : e = f[i]
    BY <1>2
  <2> DEFINE o == db.line[i.line].order
             mine == HitsOf(o, delay)
  <2>2. i.line \in OpenLines
    BY LinesHitOK
  <2>3. o \in DOMAIN db.order
    BY <2>2, LinesOK DEF TablesOK
  <2>4. o \in Int /\ db.order[o].required \in Int
    BY <2>3, CodesOK DEF TablesOK
  <2>5. IsFiniteSet(mine) /\ \A j \in mine : j.shortage \in Nat
    BY <1>1, LinesHitOK, FS_Subset DEF HitsOf
  <2>6. e = OrderImpact(o, mine, delay)
    BY <2>1
  <2> HIDE DEF o, mine
  <2> QED
    BY <2>4, <2>5, <2>6, OrderImpactOK
<1> QED
  BY <1>3, <1>4

-----------------------------------------------------------------------------
(* The parts an impacted order lacks.                                      *)
Wanters(k, products, p) ==
  {i \in Found(k).products :
     \E q \in products : q.product = i.product /\ p \in DOMAIN q.required}

LackOf(k, products, p) ==
  [i \in Wanters(k, products, p) |->
     i.shortage * (CHOOSE q \in products : q.product = i.product).required[p]]

LackSum(k, products, p) == SumFunctionOnSet(LackOf(k, products, p), Wanters(k, products, p))

(* A part shortage is positive and belongs to the order of its rank.       *)
LEMMA ShortagesAre ==
  ASSUME NEW k, NEW products
  PROVE  \A s \in Shortages(k, products) :
           /\ s.rank = k
           /\ s.by = Found(k).required
           /\ \E q \in products : s.part \in DOMAIN q.required
           /\ s.shortage = LackSum(k, products, s.part)
           /\ s.shortage > 0
           /\ \A t \in Shortages(k, products) : s.part = t.part => s = t
<1>1. ASSUME NEW s \in Shortages(k, products)
      PROVE  \E p \in UNION {DOMAIN q.required : q \in products} :
               /\ LackSum(k, products, p) > 0
               /\ s = [rank |-> k, part |-> p, destination |-> Found(k).destination,
                       by |-> Found(k).required, shortage |-> LackSum(k, products, p)]
  BY DEF Shortages, LackSum, LackOf, Wanters, Total
<1> QED
  BY <1>1

(* An order has finitely many part shortages, each of at least one unit.   *)
LEMMA ShortagesOK ==
  ASSUME TablesOK(db), NEW k, OrderOK(Found(k)), NEW delay
  PROVE  LET products == ImpactedProducts(delay)
         IN /\ IsFiniteSet(Shortages(k, products))
            /\ \A s \in Shortages(k, products) : s.part \in Int /\ s.shortage \in Nat \ {0}
<1> DEFINE products == ImpactedProducts(delay)
           S == Shortages(k, products)
           codes == {r.part : r \in db.bom}
<1>1. \A q \in products :
        /\ q.required = Bom(q.product)
        /\ \A f \in products : q.product = f.product => q = f
  BY ProductsHitOK DEF ImpactedProducts
<1>2. \A s \in S : s.part \in codes
  <2>1. \A s \in S : \E q \in products : s.part \in DOMAIN q.required
    BY ShortagesAre
  <2> QED
    BY <1>1, <2>1, BomOK
<1>3. IsFiniteSet(codes) /\ codes \subseteq Int
  BY BomOK DEF TablesOK
<1>4. IsFiniteSet(S)
  <2> DEFINE part == [s \in S |-> s.part]
  <2>1. part \in Injection(S, codes)
    <3>1. part \in [S -> codes]
      BY <1>2
    <3>2. \A s, t \in S : part[s] = part[t] => s = t
      BY ShortagesAre
    <3> HIDE DEF part, S, codes
    <3> QED
      BY <3>1, <3>2 DEF Injection, IsInjective
  <2> HIDE DEF part, S, codes
  <2> QED
    BY <1>3, <2>1, FS_Injection
<1>5. ASSUME NEW s \in S PROVE s.shortage \in Nat \ {0}
  <2> DEFINE p == s.part
             W == Wanters(k, products, p)
             f == LackOf(k, products, p)
  <2>1. IsFiniteSet(W)
    BY FS_Subset DEF OrderOK, Wanters
  <2>2. ASSUME NEW i \in W PROVE f[i] \in Nat
    <3> DEFINE q == CHOOSE r \in products : r.product = i.product
    <3>1. PICK r \in products : r.product = i.product /\ p \in DOMAIN r.required
      BY DEF Wanters
    <3>2. q \in products /\ q.product = i.product
      BY <3>1
    <3>3. q = r
      BY <1>1, <3>1, <3>2
    <3>4. q.required[p] \in Nat
      BY <1>1, <3>1, <3>3, BomOK
    <3>5. i.shortage \in Nat
      BY DEF Wanters, OrderOK
    <3>6. f[i] = i.shortage * q.required[p]
      BY DEF LackOf
    <3> HIDE DEF q, f
    <3> QED
      BY <3>4, <3>5, <3>6
  <2>3. SumFunctionOnSet(f, W) \in Nat
    <3> HIDE DEF f, W
    <3> QED
      BY <2>1, <2>2, SumIsNat
  <2>4. s.shortage = SumFunctionOnSet(f, W) /\ s.shortage > 0
    BY ShortagesAre DEF LackSum
  <2> QED
    BY <2>3, <2>4
<1> QED
  BY <1>2, <1>3, <1>4, <1>5

(* What is kept of the orders found and of their ranks.                    *)
FoundOK ==
  /\ IsFiniteSet(found)
  /\ \A e \in found : OrderOK(e)

RankedOK == \E n \in Nat : DOMAIN ranked = 1..n

ShortageOK(q) == q.shortage \in Nat \ {0} /\ q.by \in {e.required : e \in found}

(* The list the recommendation covers holds whole, positive part           *)
(* shortages.                                                              *)
LEMMA AllShortagesOK ==
  ASSUME TablesOK(db), FoundOK, RankedOK, NEW delay
  PROVE  AllShortages(ImpactedProducts(delay))
           \in Seq({q \in UNION {Shortages(k, ImpactedProducts(delay)) : k \in Known} :
                      ShortageOK(q)})
<1> DEFINE products == ImpactedProducts(delay)
           of == [k \in Known |-> Shortages(k, products)]
           S == UNION {Shortages(k, products) : k \in Known}
           key == [q \in S |-> <<q.rank, q.part>>]
           good == {q \in S : ShortageOK(q)}
<1>1. \A k \in Known : Found(k) \in found /\ OrderOK(Found(k))
  BY DEF Known, Found, FoundOK
<1>2. IsFiniteSet(Known) /\ Known \subseteq Int
  <2>1. PICK n \in Nat : DOMAIN ranked = 1..n
    BY DEF RankedOK
  <2>2. IsFiniteSet(1..n)
    BY FS_Interval
  <2> QED
    BY <2>1, <2>2, FS_Subset DEF Known
<1>3. \A k \in Known : IsFiniteSet(of[k])
  BY <1>1, ShortagesOK
<1>4. IsFiniteSet(S)
  <2>1. IsFiniteSet({of[k] : k \in Known})
    <3> HIDE DEF of
    <3> QED
      BY <1>2, FiniteImage
  <2>2. IsFiniteSet(UNION {of[k] : k \in Known})
    <3> HIDE DEF of
    <3> QED
      BY <1>3, <2>1, FS_UNION
  <2>3. S = UNION {of[k] : k \in Known}
    OBVIOUS
  <2> QED
    BY <2>2, <2>3
<1>5. ASSUME NEW q \in S PROVE ShortageOK(q) /\ q.rank \in Int /\ q.part \in Int
  <2>1. PICK k \in Known : q \in Shortages(k, products)
    OBVIOUS
  <2>2. q.rank = k /\ q.by = Found(k).required
    BY <2>1, ShortagesAre
  <2>3. q.part \in Int /\ q.shortage \in Nat \ {0}
    BY <1>1, <2>1, ShortagesOK
  <2> QED
    BY <1>1, <1>2, <2>2, <2>3 DEF ShortageOK
<1>6. ASSUME NEW q \in S, NEW r \in S, q.rank = r.rank, q.part = r.part PROVE q = r
  <2>1. PICK k \in Known : q \in Shortages(k, products)
    OBVIOUS
  <2>2. PICK j \in Known : r \in Shortages(j, products)
    OBVIOUS
  <2>3. k = j
    BY <1>6, <2>1, <2>2, ShortagesAre
  <2> QED
    BY <1>6, <2>1, <2>2, <2>3, ShortagesAre
<1>7. key \in [S -> Tuples(2)]
  <2>1. \A q \in S : <<q.rank, q.part>> \in Tuples(2)
    BY <1>5, TuplesAre
  <2> HIDE DEF S
  <2> QED
    BY <2>1
<1>8. \A q, r \in S : key[q] = key[r] => q = r
  <2>1. \A q, r \in S : key[q] = key[r] => q.rank = r.rank /\ q.part = r.part
    <3> HIDE DEF S
    <3> QED
      OBVIOUS
  <2> HIDE DEF key, S
  <2> QED
    BY <1>6, <2>1
<1>9. Sorted(S, key) \in [1..Cardinality(S) -> S]
  <2> HIDE DEF key, S
  <2> QED
    BY <1>4, <1>7, <1>8, SortedIsOf
<1>10. AllShortages(products) = Sorted(S, key)
  BY DEF AllShortages, SortedBy
<1>11. S = good
  BY <1>5
<1>12. Cardinality(S) \in Nat
  BY <1>4, FS_CardinalityType
<1> HIDE DEF S, key, good
<1>13. Sorted(S, key) \in Seq(good)
  BY <1>9, <1>11, <1>12
<1> QED
  BY <1>10, <1>13 DEF S, good

-----------------------------------------------------------------------------
(* Transfers and expedited purchase orders that could cover a shortage.    *)
Pairs == DOMAIN db.inventory

(* What is claimed is counted, for each place and each purchase order.     *)
ClaimsOK ==
  /\ DOMAIN moved = Pairs /\ \A k \in Pairs : moved[k] \in Nat
  /\ DOMAIN expedited = Purchases /\ \A o \in Purchases : expedited[o] \in Nat

(* The first element of a sorted, non-empty set is one of its elements.    *)
LEMMA FirstIsOf ==
  ASSUME NEW S, IsFiniteSet(S), S # {}, NEW n \in Nat, NEW key \in [S -> Tuples(n)],
         \A x, y \in S : key[x] = key[y] => x = y
  PROVE  Sorted(S, key)[1] \in S
<1>1. Sorted(S, key) \in [1..Cardinality(S) -> S]
  BY SortedIsOf
<1>2. Cardinality(S) \in Nat /\ Cardinality(S) # 0
  BY FS_CardinalityType, FS_EmptySet
<1> QED
  BY <1>1, <1>2

(* What a warehouse can give grows with the day it may leave.              *)
LEMMA TransferableOK ==
  ASSUME TablesOK(db), NEW p, NEW w \in Stocked(p)
  PROVE  /\ \A h : Transferable(p, w, h) \in Nat
         /\ \A g, h \in Int : g <= h => Transferable(p, w, g) <= Transferable(p, w, h)
<1>1. Committed(p, w) \in Int
  <2> DEFINE S == {t \in db.transfer : /\ t.status \in {"approved", "executing"}
                                       /\ t.part = p /\ t.source = w}
             f == [t \in S |-> t.quantity]
  <2>1. IsFiniteSet(S) /\ \A t \in S : f[t] \in Int
    BY FS_Subset DEF TablesOK
  <2>2. SumFunctionOnSet(f, S) \in Int
    <3> HIDE DEF f, S
    <3> QED
      BY <2>1, SumIsInt
  <2> QED
    BY <2>2 DEF Committed, Total
<1>2. Available(p, w) \in Nat /\ db.inventory[<<p, w>>].safety \in Nat
  BY StockOK
<1>3. \A h : Inbound(p, w, h) \subseteq OpenItems(p)
  BY DEF Inbound
<1>4. IsFiniteSet(OpenItems(p)) /\ \A i \in OpenItems(p) : OpenQuantity(i) \in Nat
  BY ItemsOK
<1>5. \A h : /\ OnOrder(Inbound(p, w, h)) \in Nat /\ IsFiniteSet(Inbound(p, w, h))
             /\ \A i \in Inbound(p, w, h) : OpenQuantity(i) \in Nat
  <2> SUFFICES ASSUME NEW h
               PROVE  /\ OnOrder(Inbound(p, w, h)) \in Nat /\ IsFiniteSet(Inbound(p, w, h))
                      /\ \A i \in Inbound(p, w, h) : OpenQuantity(i) \in Nat
    OBVIOUS
  <2>1. IsFiniteSet(Inbound(p, w, h)) /\ \A i \in Inbound(p, w, h) : OpenQuantity(i) \in Nat
    BY <1>3, <1>4, FS_Subset
  <2>2. OnOrder(Inbound(p, w, h)) \in Nat
    BY <2>1, OnOrderOK
  <2> QED
    BY <2>1, <2>2
<1>6. ASSUME NEW g \in Int, NEW h \in Int, g <= h
      PROVE  OnOrder(Inbound(p, w, g)) <= OnOrder(Inbound(p, w, h))
  <2>1. Inbound(p, w, g) \in SUBSET Inbound(p, w, h)
    <3>1. \A i \in OpenItems(p) : Purchase(i).expected \in Int
      BY ItemsOK
    <3> QED
      BY <1>6, <3>1 DEF Inbound
  <2>2. /\ IsFiniteSet(Inbound(p, w, h))
        /\ \A i \in Inbound(p, w, h) : OpenQuantity(i) \in Nat
    BY <1>5
  <2> QED
    BY <2>1, <2>2, OnOrderOK
<1>7. \A h : Transferable(p, w, h) =
               AtLeastZero(Available(p, w) + OnOrder(Inbound(p, w, h))
                             - db.inventory[<<p, w>>].safety - Committed(p, w))
  BY DEF Transferable, OnOrder
<1> DEFINE a == Available(p, w) - db.inventory[<<p, w>>].safety - Committed(p, w)
<1>8. a \in Int
  BY <1>1, <1>2
<1>9. \A h : Transferable(p, w, h) = AtLeastZero(OnOrder(Inbound(p, w, h)) + a)
  BY <1>1, <1>2, <1>5, <1>7 DEF AtLeastZero
<1> HIDE DEF a
<1> QED
  BY <1>5, <1>6, <1>8, <1>9 DEF AtLeastZero

(* The smaller of two integers.                                            *)
LEMMA LeastIs ==
  ASSUME NEW m \in Int, NEW n \in Int
  PROVE  Least(m, n) \in Int /\ Least(m, n) <= m /\ Least(m, n) <= n /\ Least(m, n) \in {m, n}
BY DEF Least

(* A transfer takes no more than the shortage, nor than its warehouse has  *)
(* left to promise.                                                        *)
LEMMA TransfersOK ==
  ASSUME TablesOK(db), ClaimsOK, NEW q, q.shortage \in Nat \ {0}, q.by \in Int
  PROVE  /\ \A t \in Transfers(q) :
              /\ t.source \in Stocked(q.part)
              /\ <<q.part, t.source>> \in Pairs
              /\ t.quantity \in Nat \ {0}
              /\ t.quantity <= q.shortage
              /\ t.quantity + moved[<<q.part, t.source>>] <= Transferable(q.part, t.source, q.by)
         /\ Transfers(q) # {} => BestTransfer(Transfers(q)) \in Transfers(q)
<1> DEFINE Days(v) == TransferDays(v, q.destination)
           Left(v) == Transferable(q.part, v, q.by - Days(v)) - moved[<<q.part, v>>]
           V == Sources(q.part, q.destination)
           f == [v \in V |-> [source |-> v, arrival |-> Today + Days(v),
                              quantity |-> Least(q.shortage, Left(v))]]
           T == Transfers(q)
<1>1. \A t \in T : \E v \in V : t = f[v] /\ Left(v) > 0
  <2> SUFFICES ASSUME NEW t \in T PROVE \E v \in V : t = f[v] /\ Left(v) > 0
    OBVIOUS
  <2>1. PICK a \in AlternativeWarehouses(q.part, q.destination, q.by) :
          LET left == a.transferable - moved[<<q.part, a.warehouse>>]
          IN /\ left > 0
             /\ t = [source |-> a.warehouse, arrival |-> a.arrival,
                     quantity |-> Least(q.shortage, left)]
    BY DEF Transfers
  <2>2. PICK v \in V :
          a = [warehouse |-> v, arrival |-> Today + Days(v),
               transferable |-> Transferable(q.part, v, q.by - Days(v))]
    BY DEF AlternativeWarehouses
  <2>3. a.warehouse = v /\ a.arrival = Today + Days(v)
        /\ a.transferable = Transferable(q.part, v, q.by - Days(v))
    BY <2>2
  <2>4. t = f[v] /\ Left(v) > 0
    <3> HIDE DEF Days, V
    <3> QED
      BY <2>1, <2>3
  <2> QED
    BY <2>4
<1>2. V \subseteq Stocked(q.part) /\ Stocked(q.part) \subseteq DOMAIN db.warehouse
  BY DEF Sources, Stocked
<1>3. \A v \in V : Days(v) \in {1, 2, 5}
  BY DEF TransferDays
<1>4. ASSUME NEW v \in V
      PROVE  /\ <<q.part, v>> \in Pairs /\ moved[<<q.part, v>>] \in Nat
             /\ Left(v) \in Int
             /\ Left(v) + moved[<<q.part, v>>] <= Transferable(q.part, v, q.by)
  <2>1. <<q.part, v>> \in Pairs /\ moved[<<q.part, v>>] \in Nat
    BY <1>2 DEF Stocked, Pairs, ClaimsOK
  <2>2. q.by - Days(v) \in Int /\ q.by - Days(v) <= q.by
    BY <1>3
  <2>3. v \in Stocked(q.part)
    BY <1>2
  <2> HIDE DEF Days
  <2>4. /\ Transferable(q.part, v, q.by - Days(v)) \in Nat /\ Transferable(q.part, v, q.by) \in Nat
        /\ Transferable(q.part, v, q.by - Days(v)) <= Transferable(q.part, v, q.by)
    BY <2>2, <2>3, TransferableOK
  <2> QED
    BY <2>1, <2>4
<1>5. ASSUME NEW t \in T
      PROVE  /\ t.source \in V /\ t = f[t.source]
             /\ t.source \in Stocked(q.part)
             /\ <<q.part, t.source>> \in Pairs
             /\ t.quantity \in Nat \ {0}
             /\ t.quantity <= q.shortage
             /\ t.quantity + moved[<<q.part, t.source>>] <= Transferable(q.part, t.source, q.by)
             /\ t.arrival \in Int
  <2>1. PICK v \in V : t = f[v] /\ Left(v) > 0
    BY <1>1
  <2>2. t.source = v /\ t.quantity = Least(q.shortage, Left(v)) /\ t.arrival = Today + Days(v)
    BY <2>1
  <2>3. /\ Left(v) \in Int /\ moved[<<q.part, v>>] \in Nat /\ <<q.part, v>> \in Pairs
        /\ Left(v) + moved[<<q.part, v>>] <= Transferable(q.part, v, q.by)
    BY <1>4
  <2>4. v \in Stocked(q.part) /\ Transferable(q.part, v, q.by) \in Nat
    BY <1>2, TransferableOK
  <2>5. Days(v) \in Int /\ Today \in Int
    BY <1>3, TodayAssumption
  <2> HIDE DEF Left, Days
  <2>6. /\ Least(q.shortage, Left(v)) \in Int
        /\ Least(q.shortage, Left(v)) <= q.shortage
        /\ Least(q.shortage, Left(v)) <= Left(v)
        /\ Least(q.shortage, Left(v)) \in {q.shortage, Left(v)}
    <3>1. q.shortage \in Int
      OBVIOUS
    <3> HIDE DEF T, V, f
    <3> QED
      BY <2>3, <3>1 DEF Least
  <2>7. t.quantity > 0 /\ t.quantity \in Int
    BY <2>1, <2>2, <2>3, <2>6
  <2>8. t.quantity + moved[<<q.part, v>>] <= Transferable(q.part, v, q.by)
    BY <2>2, <2>3, <2>4, <2>6
  <2>9. t.arrival \in Int
    BY <2>2, <2>5
  <2>10. t = f[t.source]
    BY <2>1, <2>2
  <2> HIDE DEF f
  <2> QED
    BY <2>2, <2>3, <2>4, <2>6, <2>7, <2>8, <2>9, <2>10
<1>6. ASSUME T # {} PROVE BestTransfer(T) \in T
  <2> DEFINE key == [t \in T |-> <<-t.quantity, t.arrival, t.source>>]
  <2>1. IsFiniteSet(T)
    <3>1. IsFiniteSet(V)
      BY <1>2, CodesOK, FS_Subset
    <3>2. T \subseteq {f[v] : v \in V}
      BY <1>1
    <3> HIDE DEF T, V, f
    <3>3. IsFiniteSet({f[v] : v \in V})
      BY <3>1, FiniteImage
    <3> QED
      BY <3>2, <3>3, FS_Subset
  <2>2. V \subseteq Int
    BY <1>2, CodesOK
  <2>3. key \in [T -> Tuples(3)]
    <3>1. \A t \in T : -t.quantity \in Int /\ t.arrival \in Int /\ t.source \in Int
      <4> HIDE DEF T, V, f
      <4>1. \A t \in T : t.quantity \in Nat \ {0} /\ t.arrival \in Int /\ t.source \in V
        BY <1>5
      <4>2. \A n \in Nat \ {0} : -n \in Int
        OBVIOUS
      <4> QED
        BY <2>2, <4>1, <4>2, Zenon
    <3>2. \A t \in T : <<-t.quantity, t.arrival, t.source>> \in Tuples(3)
      BY <3>1, TuplesAre
    <3> HIDE DEF T
    <3> QED
      BY <3>2
  <2>4. \A t, u \in T : key[t] = key[u] => t = u
    <3>1. \A t, u \in T : key[t] = key[u] => t.source = u.source
      <4> HIDE DEF T
      <4> QED
        OBVIOUS
    <3> HIDE DEF key, T, f
    <3> QED
      BY <1>5, <3>1
  <2>5. BestTransfer(T) = Sorted(T, key)[1]
    BY DEF BestTransfer, SortedBy
  <2> HIDE DEF key, T
  <2> QED
    BY <1>6, <2>1, <2>3, <2>4, <2>5, FirstIsOf
<1> QED
  BY <1>5, <1>6

(* An expedited arrival is a date.                                         *)
LEMMA PossibleDateOK == ASSUME NEW expected \in Int PROVE PossibleDate(expected) \in Int
<1> DEFINE days == AtLeastZero(expected - Today)
           x == days - ((days * 40) \div 100)
<1>1. days \in Int
  BY TodayAssumption DEF AtLeastZero
<1>2. x \in Int
  <2> HIDE DEF days
  <2> QED
    BY <1>1
<1> HIDE DEF x
<1>3. IsFiniteSet({1, x})
  <2>1. IsFiniteSet({1} \union {x})
    BY FS_Singleton, FS_Union
  <2>2. {1, x} = {1} \union {x}
    OBVIOUS
  <2> QED
    BY <2>1, <2>2
<1>4. Max({1, x}) \in {1, x}
  <2> DEFINE S == {1, x}
  <2>1. S \subseteq Int /\ S # {} /\ IsFiniteSet(S)
    BY <1>2, <1>3
  <2> HIDE DEF S
  <2>2. Max(S) \in S
    BY <2>1, MaxOK
  <2> QED
    BY <2>2 DEF S
<1>5. PossibleDate(expected) = Today + Max({1, x})
  BY DEF PossibleDate, x
<1> QED
  BY <1>2, <1>4, <1>5, TodayAssumption

(* There are finitely many orders to expedite, and each is listed once.    *)
LEMMA ExpeditableOK ==
  ASSUME TablesOK(db), NEW p, NEW supplier, NEW by
  PROVE  /\ IsFiniteSet(ExpeditableOrders(p, supplier, by))
         /\ \A e \in ExpeditableOrders(p, supplier, by) :
              /\ e.purchase \in Purchases /\ e.open \in Int /\ e.date \in Int
              /\ \A f \in ExpeditableOrders(p, supplier, by) : e.purchase = f.purchase => e = f
<1> DEFINE E == ExpeditableOrders(p, supplier, by)
           items == {i \in OpenItems(p) : /\ Purchase(i).expected # NoDate
                                          /\ Purchase(i).supplier = supplier}
           Of(o) == {i \in items : db.item[i].purchase = o}
           row == [o \in Purchases |->
                    [purchase |-> o,
                     destination |-> IF Stocked(p) = {} THEN NoWarehouse ELSE Min(Stocked(p)),
                     open |-> Copies(p) * Total(Of(o), OpenQuantity),
                     date |-> PossibleDate(db.purchase[o].expected),
                     feasible |-> PossibleDate(db.purchase[o].expected) <= by]]
<1>1. \A i \in items : db.item[i].purchase \in Purchases
  BY ItemsOK DEF TablesOK, Purchases
<1>2. ASSUME NEW e \in E PROVE e.purchase \in Purchases /\ e = row[e.purchase]
  <2>1. PICK r \in Expeditable(p, supplier) :
          e = [purchase |-> r.purchase, destination |-> r.destination, open |-> r.open,
               date |-> PossibleDate(r.expected), feasible |-> PossibleDate(r.expected) <= by]
    BY DEF ExpeditableOrders
  <2>2. PICK o \in {db.item[i].purchase : i \in items} :
          r = [purchase |-> o,
               expected |-> db.purchase[o].expected,
               destination |-> IF Stocked(p) = {} THEN NoWarehouse ELSE Min(Stocked(p)),
               open |-> Copies(p) * Total(Of(o), OpenQuantity),
               value |-> Copies(p) * Total(Of(o), LAMBDA i : OpenQuantity(i) * db.item[i].cost)]
    BY DEF Expeditable
  <2>3. o \in Purchases
    BY <1>1
  <2>4. /\ r.purchase = o /\ r.expected = db.purchase[o].expected
        /\ r.destination = IF Stocked(p) = {} THEN NoWarehouse ELSE Min(Stocked(p))
        /\ r.open = Copies(p) * Total(Of(o), OpenQuantity)
    BY <2>2
  <2> HIDE DEF items
  <2> QED
    BY <2>1, <2>3, <2>4
<1>3. ASSUME NEW o \in Purchases
      PROVE  row[o].purchase = o /\ row[o].open \in Int /\ row[o].date \in Int
  <2>1. IsFiniteSet(Of(o)) /\ \A i \in Of(o) : OpenQuantity(i) \in Nat
    BY ItemsOK, FS_Subset
  <2>2. OnOrder(Of(o)) \in Nat
    <3> HIDE DEF items
    <3> QED
      BY <2>1, OnOrderOK
  <2>3. Copies(p) \in Int
    <3>1. Stocked(p) \subseteq DOMAIN db.warehouse
      BY DEF Stocked
    <3>2. Cardinality(Stocked(p)) \in Nat
      BY <3>1, CodesOK, FS_Subset, FS_CardinalityType
    <3> QED
      BY <3>2 DEF Copies
  <2>4. PossibleDate(db.purchase[o].expected) \in Int
    BY PossibleDateOK DEF TablesOK, Purchases
  <2>5. /\ row[o].purchase = o /\ row[o].open = Copies(p) * OnOrder(Of(o))
        /\ row[o].date = PossibleDate(db.purchase[o].expected)
    BY DEF OnOrder
  <2> HIDE DEF row, items
  <2> QED
    BY <2>2, <2>3, <2>4, <2>5
<1>4. IsFiniteSet(E)
  <2>1. IsFiniteSet(Purchases)
    BY CodesOK DEF Purchases
  <2> HIDE DEF row, E
  <2>2. IsFiniteSet({row[o] : o \in Purchases})
    BY <2>1, FiniteImage
  <2>3. E \subseteq {row[o] : o \in Purchases}
    BY <1>2
  <2> QED
    BY <2>2, <2>3, FS_Subset
<1> HIDE DEF row, items
<1> QED
  BY <1>2, <1>3, <1>4

(* An expedite is of a known purchase order, for a natural number of       *)
(* units.                                                                  *)
LEMMA ExpeditesOK ==
  ASSUME TablesOK(db), ClaimsOK, NEW q, q.shortage \in Nat \ {0}
  PROVE  /\ \A e \in Expedites(q) : e.purchase \in Purchases /\ e.quantity \in Nat
         /\ Expedites(q) # {} => BestExpedite(Expedites(q)) \in Expedites(q)
<1> DEFINE F == ExpeditableOrders(q.part, db.event.supplier, q.by)
           E == Expedites(q)
           f == [g \in F |-> [purchase |-> g.purchase, date |-> g.date,
                              quantity |-> Least(q.shortage, g.open - expedited[g.purchase])]]
<1>1. \A e \in E : \E g \in F : e = f[g] /\ g.open - expedited[g.purchase] > 0
  BY DEF Expedites
<1>2. /\ IsFiniteSet(F)
      /\ \A g \in F : /\ g.purchase \in Purchases /\ g.open \in Int /\ g.date \in Int
                      /\ \A h \in F : g.purchase = h.purchase => g = h
  BY ExpeditableOK
<1> HIDE DEF F
<1>3. ASSUME NEW e \in E
      PROVE  /\ e.purchase \in Purchases /\ e.quantity \in Nat /\ e.date \in Int
             /\ \E g \in F : e = f[g] /\ g.purchase = e.purchase
  <2>1. PICK g \in F : e = f[g] /\ g.open - expedited[g.purchase] > 0
    BY <1>1
  <2>2. /\ e.purchase = g.purchase /\ e.date = g.date
        /\ e.quantity = Least(q.shortage, g.open - expedited[g.purchase])
    BY <2>1
  <2>3. /\ g.purchase \in Purchases /\ g.open \in Int /\ g.date \in Int
        /\ expedited[g.purchase] \in Nat /\ q.shortage \in Nat
    BY <1>2 DEF ClaimsOK
  <2> HIDE DEF f, E
  <2>4. Least(q.shortage, g.open - expedited[g.purchase]) \in Nat
    BY <2>1, <2>3 DEF Least
  <2> QED
    BY <2>1, <2>2, <2>3, <2>4
<1>4. ASSUME E # {} PROVE BestExpedite(E) \in E
  <2> DEFINE key == [e \in E |-> <<-e.quantity, e.date, e.purchase>>]
  <2> HIDE DEF E, f
  <2>1. IsFiniteSet(E)
    <3>1. IsFiniteSet({f[g] : g \in F})
      BY <1>2, FiniteImage
    <3>2. E \subseteq {f[g] : g \in F}
      BY <1>1
    <3> QED
      BY <3>1, <3>2, FS_Subset
  <2>2. key \in [E -> Tuples(3)]
    <3>1. \A n \in Nat : -n \in Int
      OBVIOUS
    <3>2. Purchases \subseteq Int
      BY CodesOK DEF Purchases
    <3>3. \A e \in E : -e.quantity \in Int /\ e.date \in Int /\ e.purchase \in Int
      BY <1>3, <3>1, <3>2, Zenon
    <3>4. \A e \in E : <<-e.quantity, e.date, e.purchase>> \in Tuples(3)
      BY <3>3, TuplesAre
    <3> QED
      BY <3>4
  <2>3. \A e, d \in E : key[e] = key[d] => e = d
    <3>1. \A e, d \in E : key[e] = key[d] => e.purchase = d.purchase
      OBVIOUS
    <3> HIDE DEF key
    <3> QED
      BY <1>2, <1>3, <3>1
  <2>4. BestExpedite(E) = Sorted(E, key)[1]
    BY DEF BestExpedite, SortedBy
  <2> HIDE DEF key
  <2> QED
    BY <1>4, <2>1, <2>2, <2>3, <2>4, FirstIsOf
<1> QED
  BY <1>3, <1>4

-----------------------------------------------------------------------------
(* The sums the loop keeps.                                                *)
Quantities(s, I) == SumFunctionOnSet([n \in I |-> s[n].quantity], I)
Lacking(s) == SumFunctionOnSet([n \in DOMAIN s |-> s[n].shortage], DOMAIN s)
Takes(s, k) ==
  {n \in DOMAIN s : s[n].type = "REALLOCATE_INVENTORY" /\ <<s[n].part, s[n].from>> = k}

StepsOK(s) == \E S : s \in Seq(S) /\ \A x \in S : x.quantity \in Nat
TodoOK(s) == \E S : s \in Seq(S) /\ \A q \in S : ShortageOK(q)

(* A step added to a plan adds its quantity to the plan and to what it     *)
(* takes from its place only.                                              *)
LEMMA StepsGrow ==
  ASSUME NEW s, StepsOK(s), NEW x, x.quantity \in Nat
  PROVE  LET t == s \o <<x>>
         IN /\ StepsOK(t)
            /\ Quantities(s, DOMAIN s) \in Nat
            /\ Quantities(t, DOMAIN t) = Quantities(s, DOMAIN s) + x.quantity
            /\ \A k : x.type = "REALLOCATE_INVENTORY" /\ <<x.part, x.from>> = k =>
                        Quantities(t, Takes(t, k)) = Quantities(s, Takes(s, k)) + x.quantity
            /\ \A k : ~(x.type = "REALLOCATE_INVENTORY" /\ <<x.part, x.from>> = k) =>
                        Quantities(t, Takes(t, k)) = Quantities(s, Takes(s, k))
<1> DEFINE t == s \o <<x>>
           last == Len(s) + 1
<1>1. PICK S : s \in Seq(S) /\ \A y \in S : y.quantity \in Nat
  BY DEF StepsOK
<1>2. t \in Seq(S \union {x}) /\ \A y \in S \union {x} : y.quantity \in Nat
  <2>1. s \in Seq(S \union {x}) /\ <<x>> \in Seq(S \union {x})
    BY <1>1
  <2> QED
    BY <1>1, <2>1
<1>3. /\ Len(s) \in Nat /\ DOMAIN s = 1..Len(s) /\ DOMAIN t = DOMAIN s \union {last}
      /\ last \notin DOMAIN s /\ t[last] = x
      /\ \A n \in DOMAIN s : t[n] = s[n] /\ s[n].quantity \in Nat
  <2>1. Len(t) = Len(s) + 1 /\ DOMAIN t = 1..Len(t) /\ DOMAIN s = 1..Len(s) /\ Len(s) \in Nat
    BY <1>1, <1>2
  <2>2. \A n \in 1..Len(s) : s[n] \in S
    BY <1>1
  <2>3. t[last] = x /\ \A n \in 1..Len(s) : t[n] = s[n]
    BY <1>1
  <2> HIDE DEF t
  <2> QED
    BY <1>1, <2>1, <2>2, <2>3
<1>4. IsFiniteSet(DOMAIN s)
  BY <1>3, FS_Interval
<1> HIDE DEF t, last
<1>5. ASSUME NEW I \in SUBSET DOMAIN s
      PROVE  /\ Quantities(s, I) \in Nat
             /\ Quantities(t, I) = Quantities(s, I)
             /\ Quantities(t, I \union {last}) = Quantities(s, I) + x.quantity
  <2> DEFINE J == I \union {last}
             f == [n \in I |-> s[n].quantity]
             g == [n \in I |-> t[n].quantity]
             h == [n \in J |-> t[n].quantity]
  <2>1. IsFiniteSet(I) /\ last \notin I
    BY <1>3, <1>4, FS_Subset
  <2>2. /\ \A n \in I : f[n] \in Nat /\ f[n] \in Int /\ g[n] = f[n] /\ h[n] = f[n]
        /\ h[last] = x.quantity /\ h[last] \in Int
    BY <1>3
  <2> HIDE DEF f, g, h
  <2>3. SumFunctionOnSet(f, I) \in Nat
    BY <2>1, <2>2, SumIsNat
  <2>4. SumFunctionOnSet(g, I) = SumFunctionOnSet(f, I)
    BY <2>1, <2>2, SumsAgree
  <2>5. SumFunctionOnSet(h, I \union {last}) = SumFunctionOnSet(f, I) + h[last]
    BY <2>1, <2>2, SumGrows
  <2> QED
    BY <2>2, <2>3, <2>4, <2>5 DEF Quantities, f, g, h
<1>6. StepsOK(t)
  BY <1>2 DEF StepsOK
<1>7. Quantities(s, DOMAIN s) \in Nat
      /\ Quantities(t, DOMAIN t) = Quantities(s, DOMAIN s) + x.quantity
  BY <1>3, <1>5
<1>8. ASSUME NEW k, x.type = "REALLOCATE_INVENTORY", <<x.part, x.from>> = k
      PROVE  Quantities(t, Takes(t, k)) = Quantities(s, Takes(s, k)) + x.quantity
  <2>1. Takes(t, k) = Takes(s, k) \union {last} /\ Takes(s, k) \in SUBSET DOMAIN s
    BY <1>3, <1>8 DEF Takes
  <2> QED
    BY <1>5, <2>1
<1>9. ASSUME NEW k, ~(x.type = "REALLOCATE_INVENTORY" /\ <<x.part, x.from>> = k)
      PROVE  Quantities(t, Takes(t, k)) = Quantities(s, Takes(s, k))
  <2>1. Takes(t, k) = Takes(s, k) /\ Takes(s, k) \in SUBSET DOMAIN s
    BY <1>3, <1>9 DEF Takes
  <2> QED
    BY <1>5, <2>1
<1> QED
  BY <1>6, <1>7, <1>8, <1>9 DEF t

(* Of what is lacking the first requirement is taken off.                  *)
LEMMA LackingFalls ==
  ASSUME NEW s, TodoOK(s), s # <<>>
  PROVE  /\ TodoOK(Tail(s)) /\ ShortageOK(Head(s))
         /\ Lacking(Tail(s)) \in Nat
         /\ Lacking(s) = Head(s).shortage + Lacking(Tail(s))
<1>1. PICK S : s \in Seq(S) /\ \A q \in S : ShortageOK(q)
  BY DEF TodoOK
<1> DEFINE t == Tail(s)
<1>2. /\ t \in Seq(S) /\ Head(s) \in S
      /\ Len(s) \in Nat \ {0} /\ DOMAIN s = 1..Len(s) /\ DOMAIN t = 1..(Len(s) - 1)
      /\ Head(s) = s[1] /\ \A n \in 1..(Len(s) - 1) : t[n] = s[n + 1]
  BY <1>1
<1>3. \A n \in DOMAIN s : s[n].shortage \in Nat
  BY <1>1, <1>2 DEF ShortageOK
<1> HIDE DEF t
<1> DEFINE f == [n \in DOMAIN s |-> s[n].shortage]
           g == [n \in DOMAIN t |-> t[n].shortage]
           b == [n \in DOMAIN t |-> n + 1]
           rest == DOMAIN s \ {1}
<1>4. IsFiniteSet(DOMAIN s) /\ IsFiniteSet(DOMAIN t) /\ 1 \in DOMAIN s
  BY <1>2, FS_Interval
<1>5. rest = {b[n] : n \in DOMAIN t}
  <2>1. ASSUME NEW m \in rest PROVE \E n \in DOMAIN t : m = b[n]
    <3>1. m - 1 \in DOMAIN t
      BY <1>2
    <3>2. b[m - 1] = m
      BY <1>2, <3>1
    <3> HIDE DEF b
    <3> QED
      BY <3>1, <3>2
  <2>2. ASSUME NEW n \in DOMAIN t PROVE b[n] \in rest
    BY <1>2
  <2> HIDE DEF b, rest
  <2> QED
    BY <2>1, <2>2
<1>6. \A n \in DOMAIN t : g[n] \in Nat /\ g[n] \in Int /\ f[b[n]] = g[n]
  BY <1>2, <1>3
<1>7. \A m, n \in DOMAIN t : b[m] = b[n] => m = n
  BY <1>2
<1>8. f[1] = Head(s).shortage /\ \A n \in DOMAIN s : f[n] \in Int
  BY <1>2, <1>3, <1>4
<1> HIDE DEF f, g, b, rest
<1>9. SumFunctionOnSet(f, {b[n] : n \in DOMAIN t}) = SumFunctionOnSet(g, DOMAIN t)
  BY <1>4, <1>6, <1>7, SumReindexes
<1>10. SumFunctionOnSet(f, DOMAIN s) = f[1] + SumFunctionOnSet(f, DOMAIN s \ {1})
  BY <1>4, <1>8, SumTakesOut
<1>11. SumFunctionOnSet(g, DOMAIN t) \in Nat
  BY <1>4, <1>6, SumIsNat
<1>12. Lacking(s) = SumFunctionOnSet(f, DOMAIN s) /\ Lacking(t) = SumFunctionOnSet(g, DOMAIN t)
  BY DEF Lacking, f, g
<1>13. Lacking(s) = Head(s).shortage + Lacking(t)
  BY <1>5, <1>8, <1>9, <1>10, <1>12 DEF rest
<1>14. TodoOK(t) /\ ShortageOK(Head(s))
  BY <1>1, <1>2 DEF TodoOK
<1> QED
  BY <1>11, <1>12, <1>13, <1>14 DEF t

(* A requirement that is covered: by what is carried and what is hastened. *)
Covered(q, carried, helped) ==
  /\ carried \in Nat /\ helped \in Nat /\ carried + helped <= q.shortage
  /\ transferred' = transferred + carried
  /\ hastened' = hastened + helped
  /\ unresolved' = unresolved - carried - helped
  /\ StepsOK(steps')
  /\ Quantities(steps', DOMAIN steps') = Quantities(steps, DOMAIN steps) + carried + helped
  /\ DOMAIN moved' = DOMAIN moved /\ DOMAIN expedited' = DOMAIN expedited
  /\ \A o \in Purchases : expedited'[o] \in Nat
  /\ \A k \in Pairs :
       \/ /\ moved'[k] = moved[k]
          /\ Quantities(steps', Takes(steps', k)) = Quantities(steps, Takes(steps, k))
       \/ /\ moved'[k] \in Nat
          /\ moved'[k] = moved[k] + carried
          /\ Quantities(steps', Takes(steps', k)) = Quantities(steps, Takes(steps, k)) + carried
          /\ k[2] \in Stocked(k[1])
          /\ moved'[k] <= Transferable(k[1], k[2], q.by)

(* Covering a shortage promises, moves and hastens what it says: Covered   *)
(* holds.                                                                  *)
LEMMA CoverByCovers ==
  ASSUME TablesOK(db), ClaimsOK, StepsOK(steps),
         NEW q, q.shortage \in Nat \ {0}, q.by \in Int,
         CoverBy(q, Transfers(q), Expedites(q))
  PROVE  \E carried, helped : Covered(q, carried, helped)
<1> DEFINE T == Transfers(q)
           E == Expedites(q)
           t == BestTransfer(T)
           e == BestExpedite(E)
           carried == IF T = {} THEN 0 ELSE t.quantity
           rest == q.shortage - carried
           helped == IF E = {} \/ carried >= q.shortage THEN 0 ELSE Least(rest, e.quantity)
           place == <<q.part, t.source>>
           x == Transfer(q, t)
           y == Expedite(q, e, helped)
           mid == IF carried = 0 THEN steps ELSE steps \o <<x>>
<1>1. T # {} => /\ t.source \in Stocked(q.part) /\ place \in Pairs
                /\ t.quantity \in Nat \ {0} /\ t.quantity <= q.shortage
                /\ t.quantity + moved[place] <= Transferable(q.part, t.source, q.by)
  BY TransfersOK
<1>2. E # {} => e.purchase \in Purchases /\ e.quantity \in Nat
  BY ExpeditesOK
<1>3. /\ moved' = IF carried = 0 THEN moved ELSE [moved EXCEPT ![place] = @ + carried]
      /\ expedited' = IF helped = 0 THEN expedited
                      ELSE [expedited EXCEPT ![e.purchase] = @ + helped]
      /\ transferred' = transferred + carried
      /\ hastened' = hastened + helped
      /\ unresolved' = unresolved - carried - helped
      /\ steps' = steps \o (IF carried = 0 THEN <<>> ELSE <<x>>)
                        \o (IF helped = 0 THEN <<>> ELSE <<y>>)
  BY Zenon DEF CoverBy, Rest
<1> HIDE DEF T, E, t, e
<1>4. carried \in Nat /\ carried <= q.shortage
  BY <1>1
<1>5. helped \in Nat /\ carried + helped <= q.shortage
  <2> HIDE DEF carried
  <2> QED
    BY <1>2, <1>4 DEF Least
<1>6. helped # 0 => E # {}
  OBVIOUS
<1>7. carried # 0 => T # {} /\ carried = t.quantity
  OBVIOUS
<1>8. /\ x.quantity = t.quantity /\ x.type = "REALLOCATE_INVENTORY"
      /\ x.part = q.part /\ x.from = t.source
      /\ y.quantity = helped /\ y.type # "REALLOCATE_INVENTORY"
  BY DEF Transfer, Expedite
<1> HIDE DEF carried, helped, x, y
<1>9. steps' = IF helped = 0 THEN mid ELSE mid \o <<y>>
  <2>1. PICK S : steps \in Seq(S)
    BY DEF StepsOK
  <2>2. steps \o <<>> = steps
    BY <2>1
  <2>3. mid \in Seq(S \union {x})
    <3>1. steps \in Seq(S \union {x}) /\ <<x>> \in Seq(S \union {x})
      BY <2>1
    <3>2. steps \o <<x>> \in Seq(S \union {x})
      BY <3>1
    <3> QED
      BY <3>1, <3>2
  <2>4. mid \o <<>> = mid
    <3> HIDE DEF mid
    <3> QED
      BY <2>3
  <2> QED
    BY <1>3, <2>2, <2>4
<1>10. /\ StepsOK(mid)
       /\ Quantities(mid, DOMAIN mid) = Quantities(steps, DOMAIN steps) + carried
       /\ Quantities(steps, DOMAIN steps) \in Nat
       /\ carried # 0 => Quantities(mid, Takes(mid, place))
                          = Quantities(steps, Takes(steps, place)) + carried
       /\ \A k : k # place \/ carried = 0 =>
                   Quantities(mid, Takes(mid, k)) = Quantities(steps, Takes(steps, k))
  <2>1. Quantities(steps, DOMAIN steps) \in Nat
    BY <1>5, <1>8, StepsGrow
  <2>2. CASE carried = 0
    BY <2>1, <2>2
  <2>3. CASE carried # 0
    <3>1. x.quantity = carried /\ <<x.part, x.from>> = place
      BY <1>7, <1>8, <2>3
    <3>2. mid = steps \o <<x>>
      BY <2>3
    <3> DEFINE u == steps \o <<x>>
    <3>3. /\ StepsOK(u)
          /\ Quantities(u, DOMAIN u) = Quantities(steps, DOMAIN steps) + x.quantity
          /\ \A k : x.type = "REALLOCATE_INVENTORY" /\ <<x.part, x.from>> = k =>
                      Quantities(u, Takes(u, k)) = Quantities(steps, Takes(steps, k)) + x.quantity
          /\ \A k : ~(x.type = "REALLOCATE_INVENTORY" /\ <<x.part, x.from>> = k) =>
                      Quantities(u, Takes(u, k)) = Quantities(steps, Takes(steps, k))
      BY <1>4, <3>1, StepsGrow
    <3> HIDE DEF mid, place, u
    <3>4. u = mid
      BY <3>2 DEF u
    <3> QED
      BY <1>8, <2>1, <2>3, <3>1, <3>3, <3>4
  <2> QED
    BY <2>2, <2>3
<1>11. /\ StepsOK(steps')
       /\ Quantities(steps', DOMAIN steps') = Quantities(mid, DOMAIN mid) + helped
       /\ \A k : Quantities(steps', Takes(steps', k)) = Quantities(mid, Takes(mid, k))
  <2> HIDE DEF mid
  <2>1. CASE helped = 0
    <3>1. Quantities(mid, DOMAIN mid) \in Nat
      BY <1>5, <1>8, <1>10, StepsGrow
    <3> QED
      BY <1>9, <1>10, <2>1, <3>1
  <2>2. CASE helped # 0
    <3> DEFINE u == mid \o <<y>>
    <3>1. /\ StepsOK(u)
          /\ Quantities(u, DOMAIN u) = Quantities(mid, DOMAIN mid) + y.quantity
          /\ \A k : ~(y.type = "REALLOCATE_INVENTORY" /\ <<y.part, y.from>> = k) =>
                      Quantities(u, Takes(u, k)) = Quantities(mid, Takes(mid, k))
      BY <1>5, <1>8, <1>10, StepsGrow
    <3>2. u = steps'
      BY <1>9, <2>2
    <3> HIDE DEF u
    <3> QED
      BY <1>8, <3>1, <3>2
  <2> QED
    BY <2>1, <2>2
<1> HIDE DEF mid
<1>12. DOMAIN moved' = DOMAIN moved /\ DOMAIN expedited' = DOMAIN expedited
  BY <1>3
<1>13. \A o \in Purchases : expedited'[o] \in Nat
  <2>1. \A o \in Purchases : expedited[o] \in Nat /\ o \in DOMAIN expedited
    BY DEF ClaimsOK
  <2>2. CASE helped = 0
    BY <1>3, <2>1, <2>2
  <2>3. CASE helped # 0
    <3>1. e.purchase \in Purchases
      BY <1>2, <1>6, <2>3
    <3>2. expedited' = [expedited EXCEPT ![e.purchase] = @ + helped]
      BY <1>3, <2>3
    <3> QED
      BY <1>5, <2>1, <3>1, <3>2
  <2> QED
    BY <2>2, <2>3
<1>14. ASSUME NEW k \in Pairs
       PROVE  \/ /\ moved'[k] = moved[k]
                 /\ Quantities(steps', Takes(steps', k)) = Quantities(steps, Takes(steps, k))
              \/ /\ moved'[k] \in Nat
                 /\ moved'[k] = moved[k] + carried
                 /\ Quantities(steps', Takes(steps', k))
                      = Quantities(steps, Takes(steps, k)) + carried
                 /\ k[2] \in Stocked(k[1])
                 /\ moved'[k] <= Transferable(k[1], k[2], q.by)
  <2>1. k \in DOMAIN moved /\ moved[k] \in Nat
    BY DEF ClaimsOK
  <2>2. CASE carried = 0
    BY <1>3, <1>10, <1>11, <2>2
  <2>3. CASE carried # 0 /\ k # place
    <3>1. moved' = [moved EXCEPT ![place] = @ + carried]
      BY <1>3, <2>3
    <3> HIDE DEF place
    <3>2. moved'[k] = moved[k]
      BY <2>3, <3>1
    <3> QED
      BY <1>10, <1>11, <2>3, <3>2
  <2>4. CASE carried # 0 /\ k = place
    <3>1. moved' = [moved EXCEPT ![place] = @ + carried]
      BY <1>3, <2>4
    <3>2. k[1] = q.part /\ k[2] = t.source
      BY <2>4
    <3>3. /\ t.source \in Stocked(q.part)
          /\ carried + moved[place] <= Transferable(q.part, t.source, q.by)
      BY <1>1, <1>7, <2>4
    <3> HIDE DEF place
    <3>4. moved'[k] = moved[k] + carried
      BY <2>1, <2>4, <3>1
    <3> QED
      BY <1>4, <1>10, <1>11, <2>1, <2>4, <3>2, <3>3, <3>4
  <2> QED
    BY <2>2, <2>3, <2>4
<1>15. Covered(q, carried, helped)
  BY <1>3, <1>4, <1>5, <1>10, <1>11, <1>12, <1>13, <1>14 DEF Covered
<1> QED
  BY <1>15

(* Until the shortages are known nothing is claimed or recommended.        *)
NothingYet ==
  pc \in {"find", "rank", "products"} =>
    /\ todo = <<>> /\ steps = <<>>
    /\ total = 0 /\ transferred = 0 /\ hastened = 0
    /\ \A k \in Pairs : moved[k] = 0

LatestWanted == Max({e.required : e \in found})

(* Every quantity that was recommended is in a sum, what is left of the    *)
(* total is enough for the shortages still to be covered, and what is      *)
(* claimed of a place is in the steps.                                     *)
SumsFit ==
  /\ transferred \in Nat /\ hastened \in Nat /\ total \in Nat
  /\ StepsOK(steps)
  /\ Quantities(steps, DOMAIN steps) = transferred + hastened
  /\ unresolved = total - transferred - hastened
  /\ TodoOK(todo)
  /\ Lacking(todo) \in Nat /\ Lacking(todo) <= unresolved
  /\ \A k \in Pairs : Quantities(steps, Takes(steps, k)) = moved[k]

(* Stock that no one else has moved is claimed while there is some left.   *)
ClaimsFit ==
  /\ commits \in Nat
  /\ commits = 0 =>
       \A k \in Pairs : moved[k] <= Transferable(k[1], k[2], LatestWanted)

CoverInv ==
  /\ TablesInv
  /\ ClaimsOK
  /\ FoundOK /\ RankedOK
  /\ NothingYet
  /\ SumsFit
  /\ ClaimsFit
  /\ RecommendationAddsUp

recommended == <<pc, found, ranked, todo, total, moved, expedited, transferred, hastened,
                 unresolved, steps, answer>>

(* A plan without steps promises nothing.                                  *)
LEMMA NoStepsSum ==
  /\ StepsOK(<<>>) /\ TodoOK(<<>>)
  /\ Quantities(<<>>, DOMAIN <<>>) = 0 /\ Lacking(<<>>) = 0
  /\ \A k : Quantities(<<>>, Takes(<<>>, k)) = 0
<1>1. DOMAIN <<>> = {} /\ \A k : Takes(<<>>, k) = {}
  BY DEF Takes
<1>2. \A s : Quantities(s, {}) = 0
  BY SumOfNone DEF Quantities
<1>3. Lacking(<<>>) = 0
  BY <1>1, SumOfNone DEF Lacking
<1>4. <<>> \in Seq({})
  OBVIOUS
<1> QED
  BY <1>1, <1>2, <1>3, <1>4 DEF StepsOK, TodoOK

(* A place of the stock table is a stocked warehouse.                      *)
LEMMA PairsStocked ==
  ASSUME TablesOK(db), NEW k \in Pairs
  PROVE  k = <<k[1], k[2]>> /\ k[2] \in Stocked(k[1])
BY DEF TablesOK, Pairs, Stocked

(* The invariant of the recommendation holds before it starts.             *)
LEMMA CoverInitially == SupplyInit => CoverInv
<1> SUFFICES ASSUME SupplyInit PROVE CoverInv
  OBVIOUS
<1> USE DEF SupplyInit, RecommendInit
<1>1. TablesInv
  BY SupplyInitially, TablesInitially DEF TablesInv
<1>2. ClaimsOK
  BY DEF ClaimsOK, Pairs, Purchases
<1>3. FoundOK
  BY FS_EmptySet DEF FoundOK
<1>4. RankedOK
  <2>1. DOMAIN ranked = 1..0
    OBVIOUS
  <2> QED
    BY <2>1 DEF RankedOK
<1>5. NothingYet
  BY DEF NothingYet, Pairs
<1>6. SumsFit
  BY <1>5, NoStepsSum DEF NothingYet, SumsFit
<1>7. ClaimsFit
  <2>1. ASSUME NEW k \in Pairs PROVE moved[k] <= Transferable(k[1], k[2], LatestWanted)
    <3>1. Transferable(k[1], k[2], LatestWanted) \in Nat
      BY <1>1, PairsStocked, TransferableOK DEF TablesInv
    <3> QED
      BY <1>5, <3>1 DEF NothingYet
  <2> QED
    BY <2>1 DEF ClaimsFit
<1>8. RecommendationAddsUp
  BY DEF RecommendationAddsUp
<1> QED
  BY <1>1, <1>2, <1>3, <1>4, <1>5, <1>6, <1>7, <1>8 DEF CoverInv

(* What can be given away is of the tables.                                *)
LEMMA TransferableStays ==
  ASSUME db' = db, NEW CONSTANT p, NEW CONSTANT w, NEW CONSTANT h
  PROVE  Transferable(p, w, h)' = Transferable(p, w, h)
BY DEF Transferable, Available, Inbound, Committed, Stocked, OpenItems, OpenQuantity, Purchase,
       Total

(* While no commit has been counted, the tables are the ones the run began *)
(* with.                                                                   *)
LEMMA CommitsAreCounted ==
  ASSUME CoverInv, [SupplyNext]_supplyVars
  PROVE  /\ Pairs' = Pairs /\ Purchases' = Purchases
         /\ commits' \in Nat
         /\ commits' = 0 => commits = 0 /\ db' = db
<1>1. commits \in Nat
  BY DEF CoverInv, ClaimsFit
<1>2. CASE RecommendStep
  BY <1>1, <1>2 DEF RecommendStep, Refused, FindOrders, RankOrders, Nothing,
                    FindProducts, Cover, Overdue, Conclude, Pairs, Purchases
<1>3. CASE StockMoves
  <2>1. DOMAIN db'.inventory = DOMAIN db.inventory /\ db'.purchase = db.purchase
    BY <1>3 DEF StockMoves, CoverInv, TablesInv, SupplyInv, TablesShaped
  <2> QED
    BY <1>1, <1>3, <2>1 DEF StockMoves, Pairs, Purchases
<1>4. CASE Expediting
  <2>1. commits' = IF db' = db THEN commits ELSE commits + 1
    BY <1>4 DEF Expediting, Counted
  <2>2. PICK c \in ExpediteCalls :
          \/ Enter(c) \/ LockPurchase(c) \/ LockExpeditedPlan(c) \/ RowMissing(c)
          \/ RefuseExpedite(c) \/ CommitExpedite(c) \/ ExpediteFault(c)
    BY <1>4 DEF Expediting, ExpediteStep
  <2>3. CASE CommitExpedite(c)
    <3>1. DOMAIN db'.inventory = DOMAIN db.inventory /\ DOMAIN db'.purchase = DOMAIN db.purchase
      BY <2>3 DEF CommitExpedite, CoverInv, TablesInv, SupplyInv, TablesShaped
    <3> QED
      BY <1>1, <2>1, <3>1 DEF Pairs, Purchases
  <2>4. CASE db' = db
    BY <1>1, <2>1, <2>4 DEF Pairs, Purchases
  <2>5. CommitExpedite(c) \/ db' = db
    BY <2>2 DEF Enter, LockPurchase, LockExpeditedPlan, RowMissing, RefuseExpedite,
                ExpediteFault, Leave
  <2> QED
    BY <2>3, <2>4, <2>5
<1>5. CASE UNCHANGED supplyVars
  BY <1>1, <1>5 DEF supplyVars, recommendVars, Pairs, Purchases
<1> QED
  BY <1>2, <1>3, <1>4, <1>5 DEF SupplyNext, Reads

(* Whatever other transactions commit, the places and the purchase orders  *)
(* stay the same; where nothing is committed the tables do.                *)
LEMMA OthersKeep ==
  ASSUME CoverInv, [SupplyNext]_supplyVars, UNCHANGED recommended
  PROVE  CoverInv'
<1>1. TablesInv'
  BY TablesKept DEF CoverInv
<1>2. Pairs' = Pairs /\ Purchases' = Purchases
  BY CommitsAreCounted
<1>3. commits' \in Nat /\ (commits' = 0 => commits = 0 /\ db' = db)
  BY CommitsAreCounted
<1>4. ClaimsOK'
  BY <1>2 DEF CoverInv, ClaimsOK, recommended
<1>5. FoundOK' /\ RankedOK'
  BY DEF CoverInv, FoundOK, RankedOK, recommended, OrderOK
<1>6. NothingYet'
  BY <1>2 DEF CoverInv, NothingYet, recommended
<1>7. SumsFit'
  <2>1. TodoOK(todo)'
    BY DEF CoverInv, SumsFit, TodoOK, ShortageOK, recommended
  <2> QED
    BY <1>2, <2>1 DEF CoverInv, SumsFit, recommended, StepsOK, Quantities, Lacking, Takes
<1>8. ClaimsFit'
  <2> SUFFICES ASSUME commits' = 0, NEW k \in Pairs
               PROVE  moved'[k] <= Transferable(k[1], k[2], LatestWanted)'
    BY <1>2, <1>3 DEF ClaimsFit
  <2>1. LatestWanted' = LatestWanted /\ moved' = moved
    BY DEF recommended, LatestWanted
  <2>2. moved[k] <= Transferable(k[1], k[2], LatestWanted)
    BY <1>3 DEF CoverInv, ClaimsFit
  <2>3. Transferable(k[1], k[2], LatestWanted)' = Transferable(k[1], k[2], LatestWanted)
    <3>1. ASSUME NEW CONSTANT p, NEW CONSTANT w, NEW CONSTANT h
          PROVE  Transferable(p, w, h)' = Transferable(p, w, h)
      BY <1>3, TransferableStays
    <3> QED
      BY <2>1, <3>1
  <2> QED
    BY <2>1, <2>2, <2>3
<1>9. RecommendationAddsUp'
  BY DEF CoverInv, RecommendationAddsUp, recommended, Total
<1> QED
  BY <1>1, <1>4, <1>5, <1>6, <1>7, <1>8, <1>9 DEF CoverInv

StartPhases == {"find", "rank", "products"}

(* The function ends, with an answer that adds up if it is one.            *)
LEMMA EndingKeeps ==
  ASSUME CoverInv, [SupplyNext]_supplyVars, pc' \notin StartPhases, RecommendationAddsUp',
         UNCHANGED <<db, commits, found, ranked, claims>>
  PROVE  CoverInv'
<1> USE DEF claims, sums
<1>1. TablesInv'
  BY TablesKept DEF CoverInv
<1>2. ClaimsOK' /\ FoundOK' /\ RankedOK'
  BY DEF CoverInv, ClaimsOK, FoundOK, RankedOK, OrderOK, Pairs, Purchases
<1>3. NothingYet'
  BY DEF NothingYet, StartPhases
<1>4. SumsFit'
  <2>1. TodoOK(todo)'
    BY DEF CoverInv, SumsFit, TodoOK, ShortageOK
  <2> QED
    BY <2>1 DEF CoverInv, SumsFit, StepsOK, Quantities, Lacking, Takes, Pairs
<1>5. ClaimsFit'
  <2> SUFFICES ASSUME commits' = 0, NEW k \in Pairs
               PROVE  moved'[k] <= Transferable(k[1], k[2], LatestWanted)'
    BY DEF CoverInv, ClaimsFit, Pairs
  <2>1. LatestWanted' = LatestWanted /\ moved' = moved
    BY DEF LatestWanted
  <2>2. moved[k] <= Transferable(k[1], k[2], LatestWanted)
    BY DEF CoverInv, ClaimsFit
  <2>3. ASSUME NEW CONSTANT p, NEW CONSTANT w, NEW CONSTANT h
        PROVE  Transferable(p, w, h)' = Transferable(p, w, h)
    BY TransferableStays
  <2> QED
    BY <2>1, <2>2, <2>3
<1> QED
  BY <1>1, <1>2, <1>3, <1>4, <1>5 DEF CoverInv

(* Nothing is claimed yet: all that is to be known is of the orders.       *)
LEMMA StartingKeeps ==
  ASSUME CoverInv, [SupplyNext]_supplyVars, pc \in StartPhases, pc' \in StartPhases,
         UNCHANGED <<db, commits, claims>>, FoundOK', RankedOK'
  PROVE  CoverInv'
<1> USE DEF claims, sums
<1>1. TablesInv'
  BY TablesKept DEF CoverInv
<1>2. ClaimsOK'
  BY DEF CoverInv, ClaimsOK, Pairs, Purchases
<1>3. /\ todo = <<>> /\ steps = <<>> /\ total = 0 /\ transferred = 0 /\ hastened = 0
      /\ \A k \in Pairs : moved[k] = 0
  BY DEF CoverInv, NothingYet, StartPhases
<1>4. NothingYet'
  BY <1>3 DEF NothingYet, Pairs
<1>5. SumsFit'
  <2>1. TodoOK(todo)'
    <3>1. <<>> \in Seq({})
      OBVIOUS
    <3>2. todo' \in Seq({})
      BY <1>3, <3>1
    <3> QED
      BY <3>2 DEF TodoOK, ShortageOK
  <2> QED
    BY <2>1 DEF CoverInv, SumsFit, StepsOK, Quantities, Lacking, Takes, Pairs
<1>6. ClaimsFit'
  <2> SUFFICES ASSUME NEW k \in Pairs
               PROVE  moved'[k] <= Transferable(k[1], k[2], LatestWanted)'
    BY DEF CoverInv, ClaimsFit, Pairs
  <2>1. moved'[k] = 0
    BY <1>3
  <2>2. \A h : Transferable(k[1], k[2], h) \in Nat
    BY PairsStocked, TransferableOK DEF CoverInv, TablesInv
  <2>3. ASSUME NEW CONSTANT p, NEW CONSTANT w, NEW CONSTANT h
        PROVE  Transferable(p, w, h)' = Transferable(p, w, h)
    BY TransferableStays
  <2>4. Transferable(k[1], k[2], LatestWanted)' \in Nat
    BY <2>2, <2>3
  <2> QED
    BY <2>1, <2>4
<1>7. RecommendationAddsUp'
  BY DEF RecommendationAddsUp, StartPhases
<1> QED
  BY <1>1, <1>2, <1>4, <1>5, <1>6, <1>7 DEF CoverInv

(* Finding and ranking the orders keeps the invariant.                     *)
LEMMA FindingKeeps ==
  ASSUME CoverInv, [SupplyNext]_supplyVars, FindOrders \/ RankOrders
  PROVE  CoverInv'
<1>1. TablesOK(db)
  BY DEF CoverInv, TablesInv
<1>2. CASE FindOrders
  <2>1. IsFiniteSet(ImpactedOrders(Delay)) /\ \A e \in ImpactedOrders(Delay) : OrderOK(e)
    BY <1>1, ImpactedOrdersOK
  <2>2. FoundOK'
    BY <1>2, <2>1 DEF FindOrders, FoundOK, OrderOK
  <2>3. RankedOK'
    BY <1>2 DEF FindOrders, RankedOK, CoverInv
  <2> QED
    BY <1>2, <2>2, <2>3, StartingKeeps DEF FindOrders, StartPhases
<1>3. CASE RankOrders
  <2>1. Cardinality(ImpactedOrders(Delay)) \in Nat
    BY <1>1, ImpactedOrdersOK, FS_CardinalityType
  <2>2. DOMAIN Ranking(ImpactedOrders(Delay)) = 1..Cardinality(ImpactedOrders(Delay))
    BY DEF Ranking, Codes, SortedBy, Sorted
  <2>3. RankedOK'
    BY <1>3, <2>1, <2>2 DEF RankOrders, RankedOK
  <2>4. FoundOK'
    BY <1>3 DEF RankOrders, FoundOK, OrderOK, CoverInv
  <2> QED
    BY <1>3, <2>3, <2>4, StartingKeeps DEF RankOrders, StartPhases
<1> QED
  BY <1>2, <1>3

(* Listing the shortages keeps the invariant: nothing is promised yet.     *)
LEMMA ListingKeeps ==
  ASSUME CoverInv, [SupplyNext]_supplyVars, FindProducts
  PROVE  CoverInv'
<1> USE DEF FindProducts
<1> DEFINE all == AllShortages(ImpactedProducts(Delay))
<1>1. /\ todo = <<>> /\ steps = <<>> /\ total = 0 /\ transferred = 0 /\ hastened = 0
      /\ \A k \in Pairs : moved[k] = 0
  BY DEF CoverInv, NothingYet
<1>2. TablesOK(db) /\ FoundOK /\ RankedOK
  BY DEF CoverInv, TablesInv
<1>3. TodoOK(all)
  <2> DEFINE S == {q \in UNION {Shortages(k, ImpactedProducts(Delay)) : k \in Known} :
                     ShortageOK(q)}
  <2>1. all \in Seq(S)
    BY <1>2, AllShortagesOK
  <2>2. \A q \in S : ShortageOK(q)
    OBVIOUS
  <2> HIDE DEF S, all
  <2> QED
    BY <2>1, <2>2 DEF TodoOK
<1>4. Lacking(all) \in Nat
  <2>1. PICK S : all \in Seq(S) /\ \A q \in S : ShortageOK(q)
    BY <1>3 DEF TodoOK
  <2> DEFINE f == [n \in DOMAIN all |-> all[n].shortage]
  <2> HIDE DEF all
  <2>2. IsFiniteSet(DOMAIN all)
    <3>1. DOMAIN all = 1..Len(all) /\ Len(all) \in Nat
      BY <2>1
    <3> DEFINE n == Len(all)
    <3>2. n \in Int /\ DOMAIN all = 1..n
      BY <3>1
    <3> HIDE DEF n
    <3>3. IsFiniteSet(1..n)
      BY <3>2, FS_Interval
    <3> QED
      BY <3>2, <3>3
  <2>3. \A n \in DOMAIN all : f[n] \in Nat
    BY <2>1 DEF ShortageOK
  <2> HIDE DEF f
  <2>4. SumFunctionOnSet(f, DOMAIN all) \in Nat
    BY <2>2, <2>3, SumIsNat
  <2> QED
    BY <2>4 DEF f, Lacking
<1>5. todo' = all /\ total' = Lacking(all) /\ unresolved' = Lacking(all)
  BY DEF Lacking, Total
<1> HIDE DEF all
<1>6. TablesInv'
  BY TablesKept DEF CoverInv
<1>7. ClaimsOK' /\ FoundOK' /\ RankedOK'
  BY DEF CoverInv, ClaimsOK, FoundOK, RankedOK, OrderOK, Pairs, Purchases
<1>8. NothingYet' /\ RecommendationAddsUp'
  BY DEF NothingYet, RecommendationAddsUp
<1>9. SumsFit'
  <2>1. TodoOK(todo)'
    BY <1>3, <1>5 DEF TodoOK, ShortageOK
  <2>2. /\ StepsOK(steps) /\ Quantities(steps, DOMAIN steps) = 0
        /\ \A k \in Pairs : Quantities(steps, Takes(steps, k)) = moved[k]
    BY <1>1 DEF CoverInv, SumsFit
  <2>3. /\ StepsOK(steps)' /\ Quantities(steps, DOMAIN steps)' = 0
        /\ \A k \in Pairs' : Quantities(steps, Takes(steps, k))' = moved'[k]
    BY <2>2 DEF StepsOK, Quantities, Takes, Pairs
  <2>4. Lacking(todo)' = Lacking(all)
    BY <1>5 DEF Lacking
  <2> QED
    BY <1>1, <1>4, <1>5, <2>1, <2>3, <2>4 DEF SumsFit
<1>10. ClaimsFit'
  <2> SUFFICES ASSUME NEW k \in Pairs
               PROVE  moved'[k] <= Transferable(k[1], k[2], LatestWanted)'
    BY DEF CoverInv, ClaimsFit, Pairs
  <2>1. moved'[k] = 0
    BY <1>1
  <2>2. \A h : Transferable(k[1], k[2], h) \in Nat
    BY PairsStocked, TransferableOK DEF CoverInv, TablesInv
  <2>3. ASSUME NEW CONSTANT p, NEW CONSTANT w, NEW CONSTANT h
        PROVE  Transferable(p, w, h)' = Transferable(p, w, h)
    BY TransferableStays
  <2>4. Transferable(k[1], k[2], LatestWanted)' \in Nat
    BY <2>2, <2>3
  <2> QED
    BY <2>1, <2>4
<1> QED
  BY <1>6, <1>7, <1>8, <1>9, <1>10 DEF CoverInv

(* No requirement is wanted later than the last of the orders.             *)
LEMMA LatestWantedOK ==
  ASSUME FoundOK, NEW e \in found
  PROVE  LatestWanted \in Int /\ e.required <= LatestWanted
<1> DEFINE f == [x \in found |-> x.required]
           S == {f[x] : x \in found}
<1>1. IsFiniteSet(S)
  <2> HIDE DEF f
  <2> QED
    BY FiniteImage DEF FoundOK
<1>2. S \subseteq Int /\ S # {} /\ e.required \in S
  BY DEF FoundOK, OrderOK
<1>3. S = {x.required : x \in found}
  BY Zenon
<1>4. Max(S) \in S /\ \A n \in S : n <= Max(S)
  <2> HIDE DEF S
  <2> QED
    BY <1>1, <1>2, MaxOK
<1> HIDE DEF S
<1> QED
  BY <1>2, <1>3, <1>4 DEF LatestWanted

(* Covering one shortage keeps the sums and the claims within what there   *)
(* is.                                                                     *)
LEMMA CoveringKeeps ==
  ASSUME CoverInv, [SupplyNext]_supplyVars, Cover
  PROVE  CoverInv'
<1> USE DEF Cover
<1> DEFINE q == Head(todo)
<1>1. TablesOK(db) /\ ClaimsOK /\ FoundOK /\ SumsFit /\ ClaimsFit
  BY DEF CoverInv, TablesInv
<1>2. /\ TodoOK(Tail(todo)) /\ ShortageOK(q)
      /\ Lacking(Tail(todo)) \in Nat /\ Lacking(todo) = q.shortage + Lacking(Tail(todo))
  BY <1>1, LackingFalls DEF SumsFit
<1>3. PICK e \in found : q.by = e.required
  BY <1>2 DEF ShortageOK
<1>4. q.by \in Int /\ q.shortage \in Nat \ {0} /\ q.by <= LatestWanted /\ LatestWanted \in Int
  BY <1>1, <1>2, <1>3, LatestWantedOK DEF ShortageOK, FoundOK, OrderOK
<1>5. PICK carried, helped : Covered(q, carried, helped)
  <2>1. CoverBy(q, Transfers(q), Expedites(q))
    OBVIOUS
  <2> HIDE DEF q
  <2> QED
    BY <1>1, <1>4, <2>1, CoverByCovers DEF SumsFit
<1>6. db' = db /\ commits' = commits /\ found' = found /\ ranked' = ranked /\ pc' = "cover"
      /\ total' = total /\ todo' = Tail(todo)
  OBVIOUS
<1>7. Pairs' = Pairs /\ Purchases' = Purchases
  BY <1>6 DEF Pairs, Purchases
<1> HIDE DEF Cover, q
<1>8. TablesInv'
  BY TablesKept DEF CoverInv
<1>9. \A k \in Pairs : moved[k] \in Nat
  BY <1>1 DEF ClaimsOK
<1>10. ClaimsOK'
  <2>1. DOMAIN moved' = Pairs /\ DOMAIN expedited' = Purchases
        /\ \A o \in Purchases : expedited'[o] \in Nat
    BY <1>1, <1>5 DEF Covered, ClaimsOK
  <2>2. \A k \in Pairs : moved'[k] \in Nat
    BY <1>5, <1>9 DEF Covered
  <2> QED
    BY <1>7, <2>1, <2>2 DEF ClaimsOK
<1>11. FoundOK' /\ RankedOK'
  BY <1>6 DEF CoverInv, FoundOK, RankedOK, OrderOK
<1>12. NothingYet' /\ RecommendationAddsUp'
  BY <1>6 DEF NothingYet, RecommendationAddsUp
<1>13. SumsFit'
  <2>1. TodoOK(todo)'
    BY <1>2, <1>6 DEF TodoOK, ShortageOK
  <2>2. /\ Lacking(todo)' = Lacking(Tail(todo)) /\ Lacking(todo) <= unresolved
        /\ transferred \in Nat /\ hastened \in Nat /\ total \in Nat
        /\ Quantities(steps, DOMAIN steps) = transferred + hastened
        /\ unresolved = total - transferred - hastened
    BY <1>1, <1>6 DEF SumsFit, Lacking
  <2>3. /\ carried \in Nat /\ helped \in Nat /\ carried + helped <= q.shortage
        /\ transferred' = transferred + carried
        /\ hastened' = hastened + helped
        /\ unresolved' = unresolved - carried - helped
        /\ StepsOK(steps')
        /\ Quantities(steps', DOMAIN steps') = Quantities(steps, DOMAIN steps) + carried + helped
    BY <1>5 DEF Covered
  <2>4. \A k \in Pairs : Quantities(steps', Takes(steps', k)) = moved'[k]
    <3>1. \A k \in Pairs : Quantities(steps, Takes(steps, k)) = moved[k]
      BY <1>1 DEF SumsFit
    <3> QED
      BY <1>5, <3>1 DEF Covered
  <2>5. /\ StepsOK(steps)' /\ Quantities(steps, DOMAIN steps)' = transferred' + hastened'
        /\ unresolved' = total - transferred' - hastened'
        /\ transferred' \in Nat /\ hastened' \in Nat
        /\ Lacking(todo)' \in Nat /\ Lacking(todo)' <= unresolved'
    BY <1>2, <1>4, <2>2, <2>3
  <2> QED
    BY <1>6, <1>7, <2>1, <2>2, <2>4, <2>5 DEF SumsFit
<1>14. ClaimsFit'
  <2> SUFFICES ASSUME commits' = 0, NEW k \in Pairs
               PROVE  moved'[k] <= Transferable(k[1], k[2], LatestWanted)'
    BY <1>1, <1>6, <1>7 DEF ClaimsFit
  <2>1. LatestWanted' = LatestWanted
    BY <1>6 DEF LatestWanted
  <2>2. ASSUME NEW CONSTANT p, NEW CONSTANT w, NEW CONSTANT h
        PROVE  Transferable(p, w, h)' = Transferable(p, w, h)
    BY <1>6, TransferableStays
  <2>3. moved'[k] <= Transferable(k[1], k[2], LatestWanted)
    <3>1. moved[k] <= Transferable(k[1], k[2], LatestWanted)
      BY <1>1, <1>6 DEF ClaimsFit
    <3>2. CASE moved'[k] = moved[k]
      BY <3>1, <3>2
    <3>3. CASE /\ moved'[k] \in Nat /\ k[2] \in Stocked(k[1])
               /\ moved'[k] <= Transferable(k[1], k[2], q.by)
      <4>1. /\ Transferable(k[1], k[2], q.by) <= Transferable(k[1], k[2], LatestWanted)
            /\ Transferable(k[1], k[2], q.by) \in Nat
            /\ Transferable(k[1], k[2], LatestWanted) \in Nat
        BY <1>1, <1>4, <3>3, TransferableOK
      <4> QED
        BY <3>3, <4>1
    <3> QED
      BY <1>5, <3>2, <3>3 DEF Covered
  <2> QED
    BY <2>1, <2>2, <2>3
<1> QED
  BY <1>8, <1>10, <1>11, <1>12, <1>13, <1>14 DEF CoverInv

(* An answer adds up to the total.                                         *)
LEMMA ConcludingAddsUp ==
  ASSUME CoverInv, Conclude
  PROVE  RecommendationAddsUp'
<1> DEFINE sum == Quantities(steps, DOMAIN steps)
<1>1. /\ transferred \in Nat /\ hastened \in Nat /\ total \in Nat
      /\ sum = transferred + hastened
      /\ unresolved = total - transferred - hastened
      /\ Lacking(todo) \in Nat /\ Lacking(todo) <= unresolved
  BY DEF CoverInv, SumsFit
<1>2. unresolved \in Nat
  BY <1>1
<1>3. answer'.unresolved = unresolved /\ answer'.strategy = Strategy
  BY <1>2 DEF Conclude, AtLeastZero
<1>4. Strategy = "REALLOCATE_INVENTORY" => transferred >= total
  BY DEF Strategy
<1>5. Strategy = "EXPEDITE_PURCHASE_ORDER" => hastened >= total
  BY DEF Strategy
<1>6. SumFunctionOnSet([k \in DOMAIN steps' |-> steps'[k].quantity], DOMAIN steps') = sum
      /\ total' = total
  BY DEF Conclude, claims, Quantities
<1> HIDE DEF sum
<1>7. answer'.unresolved + sum = total'
  BY <1>1, <1>3, <1>6
<1>8. answer'.strategy \in {"REALLOCATE_INVENTORY", "EXPEDITE_PURCHASE_ORDER"} =>
        answer'.unresolved = 0
  BY <1>1, <1>2, <1>3, <1>4, <1>5
<1> QED
  BY <1>6, <1>7, <1>8 DEF RecommendationAddsUp, Total

(* A recommendation with nothing to do adds up: all its sums are zero.     *)
LEMMA NothingAddsUp ==
  ASSUME CoverInv, Nothing
  PROVE  RecommendationAddsUp'
<1>1. total = 0 /\ steps = <<>>
  BY DEF CoverInv, NothingYet, Nothing
<1>2. total' = 0 /\ steps' = <<>> /\ answer'.unresolved = 0
  BY <1>1 DEF Nothing, Failed, claims
<1>3. SumFunctionOnSet([k \in DOMAIN steps' |-> steps'[k].quantity], DOMAIN steps') = 0
  <2>1. Quantities(<<>>, DOMAIN <<>>) = 0
    BY NoStepsSum
  <2> QED
    BY <1>2, <2>1 DEF Quantities
<1> QED
  BY <1>2, <1>3 DEF RecommendationAddsUp, Total

(* Every step of the system keeps the invariant of the recommendation.     *)
LEMMA CoverKept == CoverInv /\ [SupplyNext]_supplyVars => CoverInv'
<1> SUFFICES ASSUME CoverInv, [SupplyNext]_supplyVars PROVE CoverInv'
  OBVIOUS
<1>1. CASE Refused
  BY <1>1, EndingKeeps DEF Refused, StartPhases, RecommendationAddsUp
<1>2. CASE FindOrders \/ RankOrders
  BY <1>2, FindingKeeps
<1>3. CASE Nothing
  BY <1>3, NothingAddsUp, EndingKeeps DEF Nothing, StartPhases
<1>4. CASE FindProducts
  BY <1>4, ListingKeeps
<1>5. CASE Cover
  BY <1>5, CoveringKeeps
<1>6. CASE Overdue
  BY <1>6, EndingKeeps DEF Overdue, StartPhases, RecommendationAddsUp
<1>7. CASE Conclude
  BY <1>7, ConcludingAddsUp, EndingKeeps DEF Conclude, StartPhases
<1>8. CASE StockMoves \/ Expediting
  BY <1>8, OthersKeep
     DEF StockMoves, Expediting, callVars, claims, sums, recommended
<1>9. CASE UNCHANGED supplyVars
  BY <1>9, OthersKeep
     DEF supplyVars, recommendVars, callVars, claims, sums, recommended
<1> QED
  BY <1>1, <1>2, <1>3, <1>4, <1>5, <1>6, <1>7, <1>8, <1>9
     DEF SupplyNext, Reads, RecommendStep

(* The invariant of the recommendation (impacts.py,                        *)
(* recommend_mitigation_plan) holds for every seeded world and event,      *)
(* whatever the handlers commit in between: its sums, its claims and the   *)
(* shortages it still has to cover agree.                                  *)
THEOREM CoverInvariance == SupplySafety => []CoverInv
<1> QED
  BY CoverInitially, CoverKept, PTL DEF SupplySafety

(* What is recommended and what is left over are the whole shortage, and a *)
(* strategy of a single remedy leaves nothing over: for all tables, whatever*)
(* other transactions commit between the statements of the function.       *)
THEOREM SumsAddUp == SupplySafety => []RecommendationAddsUp
<1>1. CoverInv => RecommendationAddsUp
  BY DEF CoverInv
<1> QED
  BY <1>1, CoverInvariance, PTL

(* A warehouse is not asked for more than it can give, however many orders *)
(* want it, while no other transaction moves stock.                        *)
THEOREM ClaimsAreOnce == SupplySafety => []NothingPromisedTwice
<1>1. CoverInv => NothingPromisedTwice
  <2> SUFFICES ASSUME CoverInv, commits = 0, NEW k \in DOMAIN db.inventory
               PROVE  LET taken == Takes(steps, k)
                      IN taken # {} =>
                           Total(taken, LAMBDA n : steps[n].quantity)
                             <= Transferable(k[1], k[2], LatestWanted)
    BY DEF NothingPromisedTwice, Takes, LatestWanted
  <2>1. Quantities(steps, Takes(steps, k)) = moved[k]
        /\ moved[k] <= Transferable(k[1], k[2], LatestWanted)
    BY DEF CoverInv, SumsFit, ClaimsFit, Pairs
  <2> QED
    BY <2>1 DEF Quantities, Total
<1> QED
  BY <1>1, CoverInvariance, PTL

-----------------------------------------------------------------------------
(* Sharing what there is in an order of urgency.                           *)
LEMMA LastOne ==
  ASSUME NEW S, IsFiniteSet(S), NEW n \in Nat, NEW key \in [S -> Tuples(n)],
         \A x, y \in S : key[x] = key[y] => x = y
  PROVE  \A T \in SUBSET S : T # {} => \E x \in T : \A y \in T \ {x} : Precedes(key[y], key[x])
<1> DEFINE Off == {T \in SUBSET S :
                     T # {} /\ ~\E x \in T : \A y \in T \ {x} : Precedes(key[y], key[x])}
<1> SUFFICES ASSUME Off # {} PROVE FALSE
  OBVIOUS
<1>1. PICK T \in Off : \A U \in Off : ~(U \subseteq T /\ U # T)
  <2>1. Off \in SUBSET (SUBSET S)
    OBVIOUS
  <2> HIDE DEF Off
  <2> QED
    BY <2>1, LeastSubset
<1>2. PICK x \in T : TRUE
  OBVIOUS
<1> DEFINE R == T \ {x}
<1>3. R \notin Off /\ R \in SUBSET S
  <2>1. R \subseteq T /\ R # T /\ R \in SUBSET S
    BY <1>2
  <2> HIDE DEF R, Off
  <2> QED
    BY <1>1, <2>1
<1>4. CASE R = {}
  BY <1>2, <1>4
<1>5. CASE R # {}
  <2>1. PICK m \in R : \A y \in R \ {m} : Precedes(key[y], key[m])
    BY <1>3, <1>5
  <2>2. m \in S /\ x \in S /\ m # x
    BY <1>2
  <2>3. key[m] \in Tuples(n) /\ key[x] \in Tuples(n) /\ key[m] # key[x]
    BY <2>2
  <2>4. CASE Precedes(key[x], key[m])
    <3>1. \A y \in T \ {m} : Precedes(key[y], key[m])
      BY <2>1, <2>4
    <3> QED
      BY <3>1
  <2>5. CASE Precedes(key[m], key[x])
    <3>1. ASSUME NEW y \in T \ {x} PROVE Precedes(key[y], key[x])
      <4>1. key[y] \in Tuples(n)
        OBVIOUS
      <4>2. CASE y = m
        BY <2>5, <4>2
      <4>3. CASE y # m
        <5>1. Precedes(key[y], key[m])
          BY <2>1, <4>3
        <5> QED
          BY <2>3, <2>5, <4>1, <5>1, PrecedesOnward
      <4> QED
        BY <4>2, <4>3
    <3> QED
      BY <1>2, <3>1
  <2> QED
    BY <2>3, <2>4, <2>5, PrecedesOneWay
<1> QED
  BY <1>4, <1>5

(* What those before x leave.                                              *)
Ahead(S, key, x) == {y \in S : Precedes(key[y], key[x])}
Left(S, key, wanted, available, x) ==
  AtLeastZero(available - SumFunctionOnSet(wanted, Ahead(S, key, x)))
Shares(S, key, wanted, available) ==
  [x \in S |-> Least(wanted[x], Left(S, key, wanted, available, x))]

(* Serving a set in any strict order gives out the smaller of what there   *)
(* is and what is wanted.                                                  *)
LEMMA ServedInOrder ==
  ASSUME NEW S, IsFiniteSet(S), NEW n \in Nat, NEW key \in [S -> Tuples(n)],
         \A x, y \in S : key[x] = key[y] => x = y,
         NEW wanted, \A x \in S : wanted[x] \in Nat, NEW available \in Nat
  PROVE  SumFunctionOnSet(Shares(S, key, wanted, available), S)
           = Least(available, SumFunctionOnSet(wanted, S))
<1> DEFINE got == Shares(S, key, wanted, available)
           Closed(T) == \A k \in T : Ahead(S, key, k) \subseteq T
           Off == {T \in SUBSET S :
                     /\ Closed(T)
                     /\ SumFunctionOnSet(got, T) # Least(available, SumFunctionOnSet(wanted, T))}
<1>1. \A T \in SUBSET S : IsFiniteSet(T) /\ SumFunctionOnSet(wanted, T) \in Nat
  <2> SUFFICES ASSUME NEW T \in SUBSET S
               PROVE IsFiniteSet(T) /\ SumFunctionOnSet(wanted, T) \in Nat
    OBVIOUS
  <2>1. IsFiniteSet(T)
    BY FS_Subset
  <2> QED
    BY <2>1, SumIsNat
<1>2. \A x \in S : got[x] = Least(wanted[x], Left(S, key, wanted, available, x)) /\ got[x] \in Nat
  <2> SUFFICES ASSUME NEW x \in S
               PROVE got[x] = Least(wanted[x], Left(S, key, wanted, available, x)) /\ got[x] \in Nat
    OBVIOUS
  <2>1. SumFunctionOnSet(wanted, Ahead(S, key, x)) \in Nat
    BY <1>1 DEF Ahead
  <2> QED
    BY <2>1 DEF Shares, Left, Least, AtLeastZero
<1>3. Closed(S)
  BY DEF Ahead
<1> SUFFICES ASSUME Off # {} PROVE FALSE
  BY <1>3
<1>4. PICK T \in Off : \A U \in Off : ~(U \subseteq T /\ U # T)
  <2>1. Off \in SUBSET (SUBSET S)
    OBVIOUS
  <2> HIDE DEF Off
  <2> QED
    BY <2>1, LeastSubset
<1> HIDE DEF got
<1>5. T # {}
  <2>1. SumFunctionOnSet(got, {}) = 0 /\ SumFunctionOnSet(wanted, {}) = 0
    BY SumOfNone
  <2> QED
    BY <2>1 DEF Least
<1>6. PICK x \in T : \A y \in T \ {x} : Precedes(key[y], key[x])
  BY <1>5, LastOne
<1> DEFINE R == T \ {x}
<1>7. x \in S /\ R \in SUBSET S /\ T = R \union {x} /\ x \notin R
  BY <1>6
<1>8. \A y \in S : key[y] \in Tuples(n)
  OBVIOUS
<1>9. ~Precedes(key[x], key[x]) /\ \A k \in R : ~Precedes(key[x], key[k])
  <2>1. ~Precedes(key[x], key[x])
    BY <1>7, <1>8, PrecedesOnce
  <2>2. ASSUME NEW k \in R, Precedes(key[x], key[k]) PROVE FALSE
    <3>1. Precedes(key[k], key[x]) /\ key[k] \in Tuples(n) /\ key[x] \in Tuples(n)
      BY <1>6, <1>7, <1>8
    <3> QED
      BY <2>1, <2>2, <3>1, PrecedesOnward
  <2> QED
    BY <2>1, <2>2
<1>10. Ahead(S, key, x) = R
  <2>1. Ahead(S, key, x) \subseteq T
    BY <1>6
  <2> QED
    BY <1>6, <1>7, <1>9, <2>1 DEF Ahead
<1>11. Closed(R)
  BY <1>4, <1>9 DEF Ahead
<1>12. SumFunctionOnSet(got, R) = Least(available, SumFunctionOnSet(wanted, R))
  BY <1>4, <1>7, <1>11
<1>13. SumFunctionOnSet(wanted, T) = SumFunctionOnSet(wanted, R) + wanted[x]
       /\ SumFunctionOnSet(got, T) = SumFunctionOnSet(got, R) + got[x]
  <2>1. IsFiniteSet(R) /\ \A y \in R \union {x} : wanted[y] \in Int /\ got[y] \in Int
    BY <1>1, <1>2, <1>7
  <2> HIDE DEF R
  <2> QED
    BY <1>7, <2>1, SumAdds
<1>14. got[x] = Least(wanted[x], AtLeastZero(available - SumFunctionOnSet(wanted, R)))
  BY <1>2, <1>7, <1>10 DEF Left
<1>15. SumFunctionOnSet(wanted, R) \in Nat /\ wanted[x] \in Nat
  BY <1>1, <1>7
<1> HIDE DEF R
<1>16. SumFunctionOnSet(got, T) = Least(available, SumFunctionOnSet(wanted, T))
  BY <1>12, <1>13, <1>14, <1>15 DEF Least, AtLeastZero
<1> QED
  BY <1>4, <1>16

(* Whoever is behind one who is short gets nothing.                        *)
LEMMA NothingForThoseBehind ==
  ASSUME NEW S, IsFiniteSet(S), NEW n \in Nat, NEW key \in [S -> Tuples(n)],
         NEW wanted, \A x \in S : wanted[x] \in Nat, NEW available \in Nat,
         NEW k \in S, NEW l \in S, Precedes(key[k], key[l]),
         Shares(S, key, wanted, available)[k] < wanted[k]
  PROVE  Shares(S, key, wanted, available)[l] = 0
<1> DEFINE A == Ahead(S, key, k)
           B == Ahead(S, key, l)
<1>1. \A T \in SUBSET S : IsFiniteSet(T)
  BY FS_Subset
<1>2. A \in SUBSET S /\ B \in SUBSET S /\ k \notin A /\ k \in B /\ A \subseteq B
  <2>1. \A y \in S : key[y] \in Tuples(n)
    OBVIOUS
  <2>2. k \notin A
    BY <2>1, PrecedesOnce DEF Ahead
  <2>3. ASSUME NEW y \in A PROVE y \in B
    <3>1. y \in S /\ Precedes(key[y], key[k])
      BY DEF Ahead
    <3> QED
      BY <2>1, <3>1, PrecedesOnward DEF Ahead
  <2> QED
    BY <2>2, <2>3 DEF Ahead
<1> HIDE DEF A, B
<1>3. SumFunctionOnSet(wanted, A) \in Nat /\ SumFunctionOnSet(wanted, B) \in Nat
  BY <1>1, <1>2, SumIsNat
<1>4. SumFunctionOnSet(wanted, A) + wanted[k] <= SumFunctionOnSet(wanted, B)
  <2> DEFINE C == A \union {k}
  <2>1. SumFunctionOnSet(wanted, A \union {k}) = SumFunctionOnSet(wanted, A) + wanted[k]
    <3>1. IsFiniteSet(A) /\ \A x \in A \union {k} : wanted[x] \in Int
      BY <1>1, <1>2
    <3> QED
      BY <1>2, <3>1, SumAdds
  <2>2. SumFunctionOnSet(wanted, C) <= SumFunctionOnSet(wanted, B)
    <3>1. IsFiniteSet(B) /\ C \subseteq B /\ \A x \in B : wanted[x] \in Nat
      BY <1>1, <1>2
    <3> HIDE DEF C
    <3> QED
      BY <3>1, SumOfMore
  <2> QED
    BY <2>1, <2>2
<1>5. /\ Shares(S, key, wanted, available)[k]
           = Least(wanted[k], AtLeastZero(available - SumFunctionOnSet(wanted, A)))
      /\ Shares(S, key, wanted, available)[l]
           = Least(wanted[l], AtLeastZero(available - SumFunctionOnSet(wanted, B)))
  BY DEF Shares, Left, A, B
<1> QED
  BY <1>3, <1>4, <1>5 DEF Least, AtLeastZero

(* The lines of one product, in the order in which they are served.        *)
LEMMA AllocationIsShare ==
  ASSUME TablesOK(db), NEW product, NEW available \in Nat
  PROVE  LET lines == OrderLines({product})
             key == [l \in lines |-> AllocationKey(l)]
             wanted == [l \in lines |-> Unfulfilled(l)]
         IN /\ IsFiniteSet(lines)
            /\ key \in [lines -> Tuples(5)]
            /\ \A k, l \in lines : key[k] = key[l] => k = l
            /\ \A l \in lines : wanted[l] = Unfulfilled(l) /\ wanted[l] \in Nat
            /\ \A l \in lines : Allocation(l, available) = Shares(lines, key, wanted, available)[l]
            /\ \A k, l \in lines : Order(k).priority > Order(l).priority =>
                                     Precedes(key[k], key[l])
<1> DEFINE lines == OrderLines({product})
           key == [l \in lines |-> AllocationKey(l)]
           wanted == [l \in lines |-> Unfulfilled(l)]
<1>1. IsFiniteSet(lines) /\ \A l \in lines : l \in OpenLines /\ db.line[l].product = product
  BY LinesOK DEF OrderLines
<1>2. \A l \in lines : Unfulfilled(l) \in Nat
  BY <1>1, LinesOK
<1>3. ASSUME NEW l \in lines
      PROVE  /\ Order(l).priority \in Int /\ Order(l).required \in Int /\ Order(l).placed \in Int
             /\ db.line[l].order \in Int /\ l \in Int
             /\ AllocationKey(l) \in Tuples(5)
  <2>1. /\ Order(l).priority \in Int /\ Order(l).required \in Int /\ Order(l).placed \in Int
        /\ db.line[l].order \in Int
    BY <1>1, LinesOK
  <2>2. l \in Int
    BY <1>1, LinesOK, CodesOK
  <2>3. -Order(l).priority \in Int
    BY <2>1
  <2>4. AllocationKey(l) \in Tuples(5)
    BY <2>1, <2>2, <2>3, TuplesAre DEF AllocationKey
  <2> QED
    BY <2>1, <2>2, <2>4
<1> HIDE DEF lines
<1>4. key \in [lines -> Tuples(5)]
  BY <1>3
<1>5. \A k, l \in lines : key[k] = key[l] => k = l
  BY DEF AllocationKey
<1>6. ASSUME NEW l \in lines
      PROVE  Allocation(l, available) = Shares(lines, key, wanted, available)[l]
  <2> DEFINE before == {k \in OrderLines({db.line[l].product}) :
                          Precedes(AllocationKey(k), AllocationKey(l))}
             f == [k \in before |-> Unfulfilled(k)]
             S == Ahead(lines, key, l)
  <2>1. before = S
    <3>1. OrderLines({db.line[l].product}) = lines
      BY <1>1 DEF lines
    <3>2. \A k \in lines : key[k] = AllocationKey(k)
      OBVIOUS
    <3> HIDE DEF key
    <3> QED
      BY <3>1, <3>2 DEF Ahead
  <2>2. SumFunctionOnSet(f, before) = SumFunctionOnSet(wanted, S)
    <3>1. \A k \in S : f[k] = wanted[k]
      BY <2>1 DEF Ahead
    <3>2. IsFiniteSet(S)
      BY <1>1, FS_Subset DEF Ahead
    <3> HIDE DEF f, wanted, before, S
    <3> QED
      BY <2>1, <3>1, <3>2, SumsAgree
  <2>3. Allocation(l, available)
          = Least(Unfulfilled(l), AtLeastZero(available - SumFunctionOnSet(f, before)))
    BY DEF Allocation, Total
  <2>4. wanted[l] = Unfulfilled(l)
    OBVIOUS
  <2> HIDE DEF key, wanted, before, f
  <2> QED
    BY <2>2, <2>3, <2>4 DEF Shares, Left
<1>7. ASSUME NEW k \in lines, NEW l \in lines, Order(k).priority > Order(l).priority
      PROVE  Precedes(key[k], key[l])
  <2>1. /\ DOMAIN key[k] = 1..5
        /\ key[k][1] = -Order(k).priority /\ key[l][1] = -Order(l).priority
    BY DEF AllocationKey
  <2>2. -Order(k).priority < -Order(l).priority
    <3>1. Order(k).priority \in Int /\ Order(l).priority \in Int
      BY <1>3
    <3> QED
      BY <1>7, <3>1
  <2> HIDE DEF key
  <2>3. key[k][1] < key[l][1] /\ \A j \in 1..(1 - 1) : key[k][j] = key[l][j]
    BY <2>1, <2>2
  <2> QED
    BY <2>1, <2>3 DEF Precedes
<1>8. \A l \in lines : wanted[l] = Unfulfilled(l) /\ wanted[l] \in Nat
  BY <1>2
<1> QED
  BY <1>1, <1>4, <1>5, <1>6, <1>7, <1>8 DEF lines

(* What can be built of a product goes to the most urgent of its lines, to *)
(* no line twice, and is kept by no one while a line is short: whatever    *)
(* the tables hold, and whoever writes them meanwhile.                     *)
THEOREM UrgentFirst == SupplySafety => []UrgentOrdersAreServedFirst
<1>1. ASSUME TablesOK(db) PROVE UrgentOrdersAreServedFirst
  <2> SUFFICES ASSUME NEW e \in ImpactedProducts(Delay)
               PROVE  LET lines == OrderLines({e.product})
                          Got(l) == Allocation(l, e.delayed)
                      IN /\ Total(lines, Got) = Least(e.delayed, Total(lines, Unfulfilled))
                         /\ \A k, l \in lines :
                              /\ Order(k).priority > Order(l).priority
                              /\ Got(k) < Unfulfilled(k)
                              => Got(l) = 0
    BY Zenon DEF UrgentOrdersAreServedFirst
  <2> DEFINE lines == OrderLines({e.product})
             key == [l \in lines |-> AllocationKey(l)]
             wanted == [l \in lines |-> Unfulfilled(l)]
             got == [l \in lines |-> Allocation(l, e.delayed)]
             shares == Shares(lines, key, wanted, e.delayed)
  <2>1. e.delayed \in Nat
    BY <1>1, ProductsHitOK DEF ImpactedProducts
  <2>2. /\ IsFiniteSet(lines)
        /\ key \in [lines -> Tuples(5)]
        /\ \A k, l \in lines : key[k] = key[l] => k = l
        /\ \A l \in lines : wanted[l] = Unfulfilled(l) /\ wanted[l] \in Nat
        /\ \A l \in lines : Allocation(l, e.delayed) = shares[l]
        /\ \A k, l \in lines : Order(k).priority > Order(l).priority =>
                                 Precedes(key[k], key[l])
    BY <1>1, <2>1, AllocationIsShare
  <2>3. SumFunctionOnSet(got, lines) = Least(e.delayed, SumFunctionOnSet(wanted, lines))
    <3>1. \A l \in lines : got[l] = shares[l]
      BY <2>2
    <3> HIDE DEF lines, key, wanted, got
    <3>2. SumFunctionOnSet(got, lines) = SumFunctionOnSet(shares, lines)
      <4> HIDE DEF shares
      <4> QED
        BY <2>2, <3>1, SumsAgree
    <3>3. SumFunctionOnSet(shares, lines) = Least(e.delayed, SumFunctionOnSet(wanted, lines))
      BY <2>1, <2>2, ServedInOrder
    <3> QED
      BY <3>2, <3>3
  <2>4. ASSUME NEW k \in lines, NEW l \in lines, Order(k).priority > Order(l).priority,
               Allocation(k, e.delayed) < Unfulfilled(k)
        PROVE  Allocation(l, e.delayed) = 0
    <3>1. Precedes(key[k], key[l]) /\ shares[k] < wanted[k]
      <4> HIDE DEF key, wanted, shares
      <4> QED
        BY <2>2, <2>4
    <3>2. shares[l] = 0
      <4> HIDE DEF lines, key, wanted
      <4> QED
        BY <2>1, <2>2, <3>1, NothingForThoseBehind
    <3> QED
      BY <2>2, <3>2
  <2> QED
    BY <2>3, <2>4 DEF Total
<1>2. TablesInv => UrgentOrdersAreServedFirst
  BY <1>1 DEF TablesInv
<1> QED
  BY <1>2, TablesInvariance, PTL

-----------------------------------------------------------------------------
(* A longer delay.                                                         *)
LEMMA ShareOfLess ==
  ASSUME NEW a \in Nat, NEW b \in Nat, NEW c \in Nat \ {0}, a <= b
  PROVE  a \div c <= b \div c
OBVIOUS

(* Of a part more is short and less is available.                          *)
LEMMA ProjectionWorsens ==
  ASSUME TablesOK(db), NEW parts, NEW d \in Int, NEW longer \in Int, d <= longer
  PROVE  \A p \in parts :
           /\ Projections(parts, d)[p].shortage <= Projections(parts, longer)[p].shortage
           /\ Projections(parts, longer)[p].available <= Projections(parts, d)[p].available
<1> SUFFICES ASSUME NEW p \in parts
             PROVE  /\ Projections(parts, d)[p].shortage <= Projections(parts, longer)[p].shortage
                    /\ Projections(parts, longer)[p].available <= Projections(parts, d)[p].available
  OBVIOUS
<1> DEFINE horizon == Horizon(PartDemands(parts))
           start == StartOf(parts, p)
           mine == MineOf(parts, p)
           items == OpenItems(p)
           soon == Arriving(items, d, horizon)
           late == Arriving(items, longer, horizon)
           wanting == Wanting(mine, horizon)
           P == Projection(start, mine, items, d, horizon)
           Q == Projection(start, mine, items, longer, horizon)
<1>1. IsFiniteSet(mine) /\ \A x \in mine : x.quantity \in Nat
  BY DemandsOK, FS_Subset DEF MineOf
<1>2. IsFiniteSet(items) /\ \A i \in items : OpenQuantity(i) \in Nat /\ Purchase(i).expected \in Int
  BY ItemsOK
<1>3. start \in Int
  BY StartOK
<1>4. wanting \in Nat
  BY <1>1, WantingOK
<1>5. late \in SUBSET soon /\ soon \in SUBSET items
  <2>1. IsFiniteSet(PartDemands(parts)) /\ \A x \in PartDemands(parts) : x.date \in Int
    BY DemandsOK
  <2>2. horizon \in Int
    <3> DEFINE D == PartDemands(parts)
               f == [x \in D |-> x.date]
               S == {f[x] : x \in D}
    <3>1. CASE D = {}
      BY <3>1, TodayAssumption DEF Horizon
    <3>2. CASE D # {}
      <4>1. IsFiniteSet(S)
        <5>1. IsFiniteSet(D)
          BY <2>1
        <5> HIDE DEF f, D
        <5> QED
          BY <5>1, FiniteImage
      <4>2. S \subseteq Int /\ S # {}
        BY <2>1, <3>2
      <4>3. S = {x.date : x \in D}
        BY Zenon
      <4>4. Max(S) \in Int
        <5> HIDE DEF S
        <5> QED
          BY <4>1, <4>2, MaxOK
      <4> HIDE DEF S
      <4> QED
        BY <3>2, <4>3, <4>4, TodayAssumption DEF Horizon, Least
    <3> QED
      BY <3>1, <3>2
  <2> HIDE DEF horizon
  <2>3. ASSUME NEW i \in items PROVE Arrival(i, d) <= Arrival(i, longer)
                                     /\ Arrival(i, d) \in Int /\ Arrival(i, longer) \in Int
    BY <1>2 DEF Arrival
  <2> QED
    BY <2>2, <2>3 DEF Arriving
<1>6. /\ OnOrder(items) \in Nat /\ OnOrder(soon) \in Nat /\ OnOrder(late) \in Nat
      /\ OnOrder(late) <= OnOrder(soon)
  <2>1. IsFiniteSet(soon) /\ \A i \in soon : OpenQuantity(i) \in Nat
    BY <1>2, <1>5, FS_Subset
  <2> QED
    BY <1>2, <1>5, <2>1, OnOrderOK
<1>7. /\ P.shortage = AtLeastZero(-(start + OnOrder(soon) - wanting))
      /\ P.available = AtLeastZero(start + OnOrder(items) - P.shortage)
      /\ Q.shortage = AtLeastZero(-(start + OnOrder(late) - wanting))
      /\ Q.available = AtLeastZero(start + OnOrder(items) - Q.shortage)
  BY ProjectionIs
<1>8. P = Projections(parts, d)[p] /\ Q = Projections(parts, longer)[p]
  BY ProjectionsAre
<1> HIDE DEF P, Q, start, soon, late, wanting, items
<1>9. P.shortage <= Q.shortage /\ P.shortage \in Int /\ Q.shortage \in Int
  BY <1>3, <1>4, <1>6, <1>7 DEF AtLeastZero
<1>10. Q.available <= P.available
  BY <1>3, <1>6, <1>7, <1>9 DEF AtLeastZero
<1> QED
  BY <1>8, <1>9, <1>10

(* Of a product less can be built.                                         *)
LEMMA BuildableWorsens ==
  ASSUME TablesOK(db), NEW bom, IsFiniteSet(DOMAIN bom), DOMAIN bom # {},
         \A p \in DOMAIN bom : bom[p] \in Nat \ {0},
         NEW more, \A p \in DOMAIN bom : more[p].available \in Nat,
         NEW less, \A p \in DOMAIN bom : less[p].available \in Nat,
         \A p \in DOMAIN bom : less[p].available <= more[p].available
  PROVE  Buildable(bom, less) <= Buildable(bom, more)
<1>1. PICK p \in DOMAIN bom : Buildable(bom, more) = more[p].available \div bom[p]
  BY BuildableOK
<1>2. Buildable(bom, less) <= less[p].available \div bom[p]
  BY BuildableOK
<1>3. less[p].available \div bom[p] <= more[p].available \div bom[p]
  BY ShareOfLess
<1>4. Buildable(bom, less) \in Nat
  BY BuildableOK
<1>5. less[p].available \div bom[p] \in Int /\ more[p].available \div bom[p] \in Int
  BY SMT
<1> QED
  BY <1>1, <1>2, <1>3, <1>4, <1>5

(* A line gets no more of less.                                            *)
LEMMA AllocationWorsens ==
  ASSUME TablesOK(db), NEW less \in Nat, NEW more \in Nat, less <= more, NEW l \in OpenLines
  PROVE  Allocation(l, less) <= Allocation(l, more)
<1> DEFINE before == {k \in OrderLines({db.line[l].product}) :
                        Precedes(AllocationKey(k), AllocationKey(l))}
           f == [k \in before |-> Unfulfilled(k)]
<1>1. IsFiniteSet(before)
  BY LinesOK, FS_Subset
<1>2. \A k \in before : f[k] \in Nat
  BY LinesOK DEF OrderLines
<1>3. SumFunctionOnSet(f, before) \in Nat
  <2> HIDE DEF before, f
  <2> QED
    BY <1>1, <1>2, SumIsNat
<1>4. \A a : Allocation(l, a)
               = Least(Unfulfilled(l), AtLeastZero(a - SumFunctionOnSet(f, before)))
  BY DEF Allocation, Total
<1>5. Unfulfilled(l) \in Nat
  BY LinesOK
<1> HIDE DEF f, before
<1> QED
  BY <1>3, <1>4, <1>5 DEF Least, AtLeastZero

(* The demand for a product is an integer.                                 *)
LEMMA ProductDemandOK ==
  ASSUME TablesOK(db), NEW product
  PROVE  ProductDemand(product) \in Int
<1> DEFINE S == {l \in OpenLines : db.line[l].product = product}
           f == [l \in S |-> Unfulfilled(l) * Cardinality(OpenShipments(l))]
<1>1. IsFiniteSet(S)
  BY LinesOK, FS_Subset
<1>2. ASSUME NEW l \in S PROVE f[l] \in Int
  <2>1. OpenShipments(l) \subseteq DOMAIN db.shipment
    BY DEF OpenShipments, Shipments
  <2>2. Cardinality(OpenShipments(l)) \in Nat
    BY <2>1, CodesOK, FS_Subset, FS_CardinalityType
  <2>3. Unfulfilled(l) \in Nat
    BY LinesOK
  <2> QED
    BY <2>2, <2>3
<1>3. SumFunctionOnSet(f, S) \in Int
  <2> HIDE DEF f, S
  <2> QED
    BY <1>1, <1>2, SumIsInt
<1> QED
  BY <1>3 DEF ProductDemand, Total

(* The products that are hit stay so, and less can be built of them.       *)
LEMMA ProductsWorsen ==
  ASSUME TablesOK(db), NEW few, NEW many, ProductsUsing(few) = ProductsUsing(many),
         NEW d \in Nat, NEW longer \in Nat, d <= longer,
         NEW e \in ProductsHit(few, d)
  PROVE  \E f \in ProductsHit(many, longer) :
           /\ f.product = e.product
           /\ f.baseline = e.baseline
           /\ f.delayed <= e.delayed
<1> DEFINE candidates == ProductsUsing(many)
           parts == PartsOf(candidates)
           c == e.product
           f == ProductImpact(c, many, Projections(parts, 0), Projections(parts, longer))
<1>1. /\ c \in candidates
      /\ e.baseline = Buildable(Bom(c), Projections(parts, 0))
      /\ e.delayed = Buildable(Bom(c), Projections(parts, d))
      /\ e.baseline \in Nat /\ e.delayed \in Nat
  BY ProductsHitOK
<1>2. \/ e.delayed < e.baseline
      \/ AtLeastZero(ProductDemand(c) - e.delayed) > AtLeastZero(ProductDemand(c) - e.baseline)
  <2>1. PICK b \in ProductsUsing(few) : \E baseline, delayed :
          /\ e = ProductImpact(b, few, baseline, delayed)
          /\ e.delayed < e.baseline \/ e.delayedShortfall > e.baselineShortfall
    BY DEF ProductsHit
  <2>2. /\ e.product = b /\ e.delayedShortfall = AtLeastZero(ProductDemand(b) - e.delayed)
        /\ e.baselineShortfall = AtLeastZero(ProductDemand(b) - e.baseline)
    BY <2>1 DEF ProductImpact
  <2> QED
    BY <2>1, <2>2
<1>3. /\ f.product = c
      /\ f.baseline = Buildable(Bom(c), Projections(parts, 0))
      /\ f.delayed = Buildable(Bom(c), Projections(parts, longer))
      /\ f.baselineShortfall = AtLeastZero(ProductDemand(c) - f.baseline)
      /\ f.delayedShortfall = AtLeastZero(ProductDemand(c) - f.delayed)
  BY DEF ProductImpact
<1>4. f.delayed <= e.delayed /\ f.delayed \in Nat
  <2>1. /\ IsFiniteSet(DOMAIN Bom(c)) /\ DOMAIN Bom(c) # {}
        /\ \A p \in DOMAIN Bom(c) : Bom(c)[p] \in Nat \ {0}
    BY <1>1, BomOK
  <2>2. DOMAIN Bom(c) \subseteq parts
    BY <1>1 DEF PartsOf
  <2> DEFINE less == Projections(parts, longer)
             more == Projections(parts, d)
             bom == Bom(c)
  <2>3. \A p \in DOMAIN bom :
          /\ less[p].available \in Nat /\ more[p].available \in Nat
          /\ less[p].available <= more[p].available
    <3> HIDE DEF parts
    <3>1. \A p \in parts : less[p].available \in Nat /\ more[p].available \in Nat
      BY ProjectionsOK
    <3>2. \A p \in parts : less[p].available <= more[p].available
      BY ProjectionWorsens
    <3> QED
      BY <2>2, <3>1, <3>2
  <2> HIDE DEF less, more, bom
  <2>4. Buildable(bom, less) <= Buildable(bom, more) /\ Buildable(bom, less) \in Nat
    <3>1. /\ IsFiniteSet(DOMAIN bom) /\ DOMAIN bom # {}
          /\ \A p \in DOMAIN bom : bom[p] \in Nat \ {0}
      BY <2>1 DEF bom
    <3> QED
      BY <2>3, <3>1, BuildableWorsens, BuildableOK
  <2> QED
    BY <1>1, <1>3, <2>4 DEF less, more, bom
<1>5. ProductDemand(c) \in Int
  BY ProductDemandOK
<1> HIDE DEF f, c
<1>6. \/ f.delayed < f.baseline
      \/ f.delayedShortfall > f.baselineShortfall
  BY <1>1, <1>2, <1>3, <1>4, <1>5 DEF AtLeastZero
<1>7. f \in ProductsHit(many, longer)
  BY <1>1, <1>6 DEF ProductsHit, PartsOf, f
<1> QED
  BY <1>1, <1>3, <1>4, <1>7 DEF c

(* A line's impact, with its product's two capacities put in.              *)
LEMMA LineImpactIs ==
  ASSUME NEW products, NEW e \in products, NEW l, e.product = db.line[l].product,
         \A f \in products : e.product = f.product => e = f, NEW delay
  PROVE  LET i == LineImpact(l, products, delay)
         IN /\ i.line = l
            /\ i.baseline = Allocation(l, e.baseline)
            /\ i.delayed = Allocation(l, e.delayed)
            /\ i.shortage = Unfulfilled(l) - Allocation(l, e.delayed)
<1>1. (CHOOSE q \in products : q.product = db.line[l].product) = e
  BY Zenon
<1> QED
  BY <1>1 DEF LineImpact

(* A longer delay that hits parts of the same products.                    *)
Worse(d, longer) ==
  /\ d \in Nat /\ longer \in Nat /\ d <= longer
  /\ ProductsUsing(ImpactedParts(d)) = ProductsUsing(ImpactedParts(longer))

Worsened(i, longer) == LineImpact(i.line, ImpactedProducts(longer), longer)

(* A line that is hit stays so, and is shorter.                            *)
LEMMA LinesWorsen ==
  ASSUME TablesOK(db), NEW d, NEW longer, Worse(d, longer),
         NEW i \in LinesHit(ImpactedProducts(d), d)
  PROVE  /\ Worsened(i, longer) \in LinesHit(ImpactedProducts(longer), longer)
         /\ Worsened(i, longer).line = i.line
         /\ i.shortage <= Worsened(i, longer).shortage
<1> DEFINE few == ImpactedProducts(d)
           many == ImpactedProducts(longer)
           l == i.line
           j == Worsened(i, longer)
<1>1. d \in Nat /\ longer \in Nat /\ d <= longer
  BY DEF Worse
<1>2. l \in OpenLines /\ i = LineImpact(l, few, d) /\ i.shortage \in Nat
  BY LinesHitOK
<1>3. PICK e \in few : e.product = db.line[l].product
  BY LinesHitOK
<1>4. PICK f \in many : f.product = e.product /\ f.baseline = e.baseline /\ f.delayed <= e.delayed
  BY <1>1, ProductsWorsen DEF Worse, ImpactedProducts
<1>5. /\ e.delayed \in Nat /\ f.delayed \in Nat
      /\ \A g \in few : e.product = g.product => e = g
      /\ \A g \in many : f.product = g.product => f = g
  BY ProductsHitOK DEF ImpactedProducts
<1> HIDE DEF few, many, l
<1>6. /\ i.baseline = Allocation(l, e.baseline) /\ i.delayed = Allocation(l, e.delayed)
      /\ i.shortage = Unfulfilled(l) - Allocation(l, e.delayed)
  BY <1>2, <1>3, <1>5, LineImpactIs
<1>7. /\ j.line = l
      /\ j.baseline = Allocation(l, f.baseline) /\ j.delayed = Allocation(l, f.delayed)
      /\ j.shortage = Unfulfilled(l) - Allocation(l, f.delayed)
  <2>1. f.product = db.line[l].product
    BY <1>3, <1>4
  <2> QED
    BY <1>5, <2>1, LineImpactIs DEF Worsened, l, many
<1>8. Allocation(l, f.delayed) <= Allocation(l, e.delayed)
  BY <1>2, <1>4, <1>5, AllocationWorsens
<1>9. /\ Allocation(l, f.delayed) \in Nat /\ Allocation(l, e.delayed) \in Nat
      /\ Unfulfilled(l) \in Nat
  BY <1>2, <1>5, AllocationOK, LinesOK
<1>10. i.delayed < i.baseline \/ (i.shortage > 0 /\ d > 0)
  BY DEF LinesHit, Hit
<1> HIDE DEF j
<1>11. i.shortage <= j.shortage
  BY <1>6, <1>7, <1>8, <1>9
<1>12. j.delayed < j.baseline \/ (j.shortage > 0 /\ longer > 0)
  <2>1. CASE i.delayed < i.baseline
    <3>1. i.baseline = j.baseline /\ j.delayed <= i.delayed
      BY <1>4, <1>6, <1>7, <1>8
    <3>2. i.baseline \in Int
      <4>1. e.baseline \in Nat
        BY ProductsHitOK DEF ImpactedProducts, few
      <4> QED
        BY <1>2, <1>6, <4>1, AllocationOK
    <3> QED
      BY <1>6, <1>7, <1>9, <2>1, <3>1, <3>2
  <2>2. CASE i.shortage > 0 /\ d > 0
    BY <1>1, <1>2, <1>7, <1>9, <1>11, <2>2
  <2> QED
    BY <1>10, <2>1, <2>2
<1>13. l \in OrderLines({g.product : g \in many})
  BY <1>2, <1>3, <1>4 DEF OrderLines
<1>14. j \in LinesHit(ImpactedProducts(longer), longer)
  BY <1>12, <1>13 DEF LinesHit, Hit, Worsened, j, l, many
<1> QED
  BY <1>7, <1>11, <1>14 DEF j, l

(* So is an order.                                                         *)
LEMMA OrdersWorsen ==
  ASSUME TablesOK(db), NEW d, NEW longer, Worse(d, longer), NEW e \in ImpactedOrders(d)
  PROVE  \E f \in ImpactedOrders(longer) : e.order = f.order /\ e.shortage <= f.shortage
<1>1. PICK i \in LinesHit(ImpactedProducts(d), d) :
        e = OrderImpact(db.line[i.line].order, HitsOf(db.line[i.line].order, d), d)
  BY ImpactedOrdersAre
<1> DEFINE o == db.line[i.line].order
           S == HitsOf(o, d)
           T == HitsOf(o, longer)
           b == [x \in S |-> Worsened(x, longer)]
           now == [x \in S |-> x.shortage]
           later == [x \in S |-> b[x].shortage]
           then == [x \in T |-> x.shortage]
           f == OrderImpact(o, T, longer)
<1>2. IsFiniteSet(S) /\ IsFiniteSet(T)
  BY LinesHitOK, FS_Subset DEF HitsOf
<1>3. ASSUME NEW x \in S
      PROVE  /\ b[x] \in T /\ b[x].line = x.line
             /\ now[x] \in Nat /\ later[x] \in Nat /\ now[x] <= later[x]
             /\ then[b[x]] = later[x]
  <2>1. x \in LinesHit(ImpactedProducts(d), d) /\ db.line[x.line].order = o
    BY DEF HitsOf
  <2>2. /\ Worsened(x, longer) \in LinesHit(ImpactedProducts(longer), longer)
        /\ Worsened(x, longer).line = x.line
        /\ x.shortage <= Worsened(x, longer).shortage
    BY <2>1, LinesWorsen
  <2>3. x.shortage \in Nat /\ Worsened(x, longer).shortage \in Nat
    BY <2>1, <2>2, LinesHitOK
  <2>4. Worsened(x, longer) \in T
    BY <2>1, <2>2 DEF HitsOf
  <2> HIDE DEF S, T
  <2> QED
    BY <2>2, <2>3, <2>4
<1>4. \A x, y \in S : b[x] = b[y] => x = y
  <2>1. \A x \in S : x = LineImpact(x.line, ImpactedProducts(d), d)
    BY LinesHitOK DEF HitsOf
  <2> SUFFICES ASSUME NEW x \in S, NEW y \in S, b[x] = b[y] PROVE x = y
    OBVIOUS
  <2>2. x.line = y.line
    <3> HIDE DEF b, S, T
    <3> QED
      BY <1>3
  <2> HIDE DEF b, S, T
  <2> QED
    BY <2>1, <2>2
<1>5. \A x \in T : then[x] \in Nat
  BY LinesHitOK DEF HitsOf
<1>6. e.order = o /\ e.shortage = SumFunctionOnSet(now, S)
  <2> HIDE DEF o
  <2> QED
    BY <1>1, OrderImpactIs DEF o
<1>7. f.order = o /\ f.shortage = SumFunctionOnSet(then, T)
  <2> HIDE DEF o, T
  <2> QED
    BY OrderImpactIs
<1> HIDE DEF now, later, then, b, S, T
<1>8. SumFunctionOnSet(now, S) <= SumFunctionOnSet(later, S)
  BY <1>2, <1>3, SumsCompare
<1>9. SumFunctionOnSet(then, {b[x] : x \in S}) = SumFunctionOnSet(later, S)
  BY <1>2, <1>3, <1>4, SumReindexes
<1>10. SumFunctionOnSet(then, {b[x] : x \in S}) <= SumFunctionOnSet(then, T)
  <2>1. {b[x] : x \in S} \subseteq T
    BY <1>3
  <2> QED
    BY <1>2, <1>5, <2>1, SumOfMore
<1>11. SumFunctionOnSet(now, S) \in Nat /\ SumFunctionOnSet(later, S) \in Nat
       /\ SumFunctionOnSet(then, T) \in Nat
  BY <1>2, <1>3, <1>5, SumIsNat
<1>12. e.shortage <= f.shortage
  BY <1>6, <1>7, <1>8, <1>9, <1>10, <1>11
<1>13. e.shortage > 0
  BY DEF ImpactedOrders, OrdersHit
<1>14. f \in ImpactedOrders(longer)
  <2> DEFINE j == Worsened(i, longer)
  <2>1. j \in LinesHit(ImpactedProducts(longer), longer) /\ j.line = i.line
    BY LinesWorsen
  <2>2. f.shortage > 0
    BY <1>6, <1>7, <1>11, <1>12, <1>13
  <2>3. f = OrderImpact(db.line[j.line].order, HitsOf(db.line[j.line].order, longer), longer)
    BY <2>1 DEF T
  <2> HIDE DEF j, f
  <2> QED
    BY <2>1, <2>2, <2>3, ImpactedOrdersAre
<1> QED
  BY <1>6, <1>7, <1>12, <1>14

(* A longer delay leaves every part of the supplier shorter and, where it  *)
(* hits parts of the same products, every order too: for all tables.       *)
THEOREM DelayHurts == SupplySafety => []DelayNeverHelps
<1>1. ASSUME TablesOK(db) PROVE DelayNeverHelps
  <2> SUFFICES ASSUME NEW d \in 0..Delay
               PROVE  /\ \A p \in PartsOfSupplier :
                           Projections(PartsOfSupplier, d)[p].shortage
                             <= Projections(PartsOfSupplier, Delay)[p].shortage
                      /\ ProductsUsing(ImpactedParts(d)) = ProductsUsing(ImpactedParts(Delay)) =>
                           \A e \in ImpactedOrders(d) :
                             \E f \in ImpactedOrders(Delay) :
                               e.order = f.order /\ e.shortage <= f.shortage
    BY DEF DelayNeverHelps
  <2>1. Delay \in Nat
    BY <1>1 DEF Delay, AtLeastZero, TablesOK
  <2>2. d \in Nat /\ d <= Delay
    BY <2>1
  <2>3. \A p \in PartsOfSupplier :
          Projections(PartsOfSupplier, d)[p].shortage
            <= Projections(PartsOfSupplier, Delay)[p].shortage
    BY <1>1, <2>1, <2>2, ProjectionWorsens
  <2>4. ASSUME ProductsUsing(ImpactedParts(d)) = ProductsUsing(ImpactedParts(Delay))
        PROVE  \A e \in ImpactedOrders(d) :
                 \E f \in ImpactedOrders(Delay) : e.order = f.order /\ e.shortage <= f.shortage
    <3>1. Worse(d, Delay)
      BY <2>1, <2>2, <2>4 DEF Worse
    <3> QED
      BY <1>1, <3>1, OrdersWorsen
  <2> QED
    BY <2>3, <2>4
<1>2. TablesInv => DelayNeverHelps
  BY <1>1 DEF TablesInv
<1> QED
  BY <1>2, TablesInvariance, PTL
==============================================================================
