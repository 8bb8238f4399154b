---------------------------- MODULE ApprovalFlow -----------------------------
(***************************************************************************)
(* approveMitigationPlan and its child action reallocateInventory, run by  *)
(* the action engine against PostgreSQL at READ COMMITTED.                 *)
(*                                                                         *)
(* The tables hold committed rows only.  A handler reads the rows it is    *)
(* about to change under SELECT ... FOR UPDATE, keeps what it read, and    *)
(* writes absolute values that become visible when its transaction         *)
(* commits.  A wait for a row lock ends when the owner commits or rolls    *)
(* back, or when PostgreSQL picks the waiter as a deadlock's victim.       *)
(***************************************************************************)
EXTENDS ActionEngine, Authorization, FiniteSetsExt, Functions

CONSTANTS
  Plans,            \* rows of mitigation_plans
  ReallocateTyped,  \* those with plan_type "reallocate_inventory"
  HasStep,          \* those with a reallocate_inventory step (the first counts)
  Frozen,           \* those whose step's notes carry the transfer's parameters
  Transfer,         \* the transfer of each of these: from, to, quantity
  Positions,        \* inventory rows of the part, one per warehouse
  Held,             \* reserved + safety stock of each; no handler changes it
  FirstStock,       \* on-hand quantity of each when the deliveries begin
  MaxStock,         \* the largest quantity the column can hold
  Stored(_),        \* a quantity as the NUMERIC(12, 2) column rounds it
  NoOwner           \* no transaction

FlowCodes ==
  {"OPERATION_NOT_PERMITTED", "INVALID_ACTION_INPUT", "OBJECT_NOT_FOUND",
   "INVALID_MITIGATION_PLAN_STATE", "SAME_SOURCE_AND_DESTINATION_WAREHOUSE",
   "INSUFFICIENT_SOURCE_INVENTORY", "ACTION_EXECUTION_FAILED"}

ASSUME FlowCodesAssumption == FlowCodes \subseteq ErrorCodes
ASSUME FlowCallsAssumption ==
  \A c \in Calls : /\ c.actor \in ActorContext
                   /\ c.action \in {"approveMitigationPlan", "reallocateInventory"}
                   /\ c.wellFormed \in BOOLEAN
ASSUME ConformingAssumption == NonConforming = {}
ASSUME PlansAssumption ==
  /\ ReallocateTyped \subseteq Plans
  /\ Frozen \subseteq HasStep
  /\ HasStep \subseteq Plans
ASSUME TransferAssumption ==
  \A p \in Frozen : Transfer[p].quantity \in Nat
ASSUME StockAssumption ==
  /\ MaxStock \in Nat
  /\ Held \in [Positions -> 0..MaxStock]
  /\ FirstStock \in [Positions -> 0..MaxStock]
ASSUME StoredAssumption ==
  /\ \A n \in 0..2*MaxStock : Stored(n) \in Nat
  /\ \A m, n \in 0..2*MaxStock : m <= n => Stored(m) <= Stored(n)
  /\ Stored(MaxStock) = MaxStock
  /\ \A w \in Positions : /\ Stored(Held[w]) = Held[w]
                          /\ Stored(FirstStock[w]) = FirstStock[w]
ASSUME OwnerAssumption == NoOwner \notin Requests

VARIABLES
  plan,        \* status of each plan
  step,        \* status of each plan's reallocate_inventory step
  stock,       \* on-hand quantity of each inventory row
  childRow,    \* status of the child's row of each parent execution id
  planAudit,   \* audit rows of plan approvals
  stockAudit,  \* audit rows of inventory changes
  at,          \* the statement each running handler is at
  lock,        \* the transaction that holds each row's lock
  read         \* the on-hand quantities each handler has read

tableVars == <<plan, step, stock, childRow, planAudit, stockAudit>>
flowVars == <<tableVars, at, lock, read>>
vars == <<engineVars, flowVars>>

PlanStatuses == {"draft", "proposed", "approved", "rejected", "executing",
                 "executed", "cancelled"}
AwaitingApproval == {"draft", "proposed"}

Rows == ({"plan"} \X Plans) \union ({"step"} \X HasStep)
          \union ({"stock"} \X Positions)

Target(r) == call[r].plan
TransferOf(r) == Transfer[Target(r)]

(* Mutant of Reallocates: the plan's step is not looked at.                *)
ReallocatesByType(p) == p \in ReallocateTyped

(* _is_reallocate_recommendation: the plan's type or its step asks for it. *)
Reallocates(p) == p \in ReallocateTyped \union HasStep

NothingRead == [source |-> 0, destination |-> 0]

FlowInit ==
  /\ EngineInit
  /\ plan = [p \in Plans |-> "draft"]
  /\ step = [p \in HasStep |-> "pending"]
  /\ stock = FirstStock
  /\ childRow = [i \in ExecIds |-> "absent"]
  /\ planAudit = {}
  /\ stockAudit = {}
  /\ at = [r \in Requests |-> "idle"]
  /\ lock = [row \in Rows |-> NoOwner]
  /\ read = [r \in Requests |-> NothingRead]

-----------------------------------------------------------------------------
(* Row locks.                                                              *)

(* The rows the handler's next SELECT ... FOR UPDATE locks: none where the *)
(* row does not exist.  A transfer locks its source before its destination *)
Needed(r) ==
  Rows \cap (CASE at[r] = "plan"        -> {<<"plan", Target(r)>>}
               [] at[r] = "step"        -> {<<"step", Target(r)>>}
               [] at[r] = "source"      -> {<<"stock", TransferOf(r).from>>}
               [] at[r] = "destination" -> {<<"stock", TransferOf(r).to>>}
               [] OTHER                 -> {})

Granted(r) == \A row \in Needed(r) : lock[row] \in {NoOwner, r}

Waits(r) == ~Granted(r)

Blockers(r) == {lock[row] : row \in Needed(r)}

Locked(r) == [row \in Rows |-> IF row \in Needed(r) THEN r ELSE lock[row]]

(* Mutant of Released: a transaction that ends keeps its locks.            *)
ReleasedNothing(r) == [row \in Rows |-> lock[row]]

Released(r) == [row \in Rows |-> IF lock[row] = r THEN NoOwner ELSE lock[row]]

(* r waits for itself through others: each of them waits for one row, so   *)
(* a set of waiters whose blockers are that very set is a cycle.           *)
OnWaitCycle(r) ==
  \E S \in SUBSET Requests :
    /\ r \in S
    /\ \A s \in S : Waits(s)
    /\ UNION {Blockers(s) : s \in S} = S

(* A handler's SELECT ... FOR UPDATE, then what it does up to the next one.*)
Advance(r, next) ==
  /\ lock' = Locked(r)
  /\ at' = [at EXCEPT ![r] = next]
  /\ UNCHANGED <<engineVars, tableVars>>

(* The transaction of r ends: its locks go, and what it kept with them.    *)
EndTransaction(r) ==
  /\ lock' = Released(r)
  /\ at' = [at EXCEPT ![r] = "idle"]
  /\ read' = [read EXCEPT ![r] = NothingRead]

(* An exception leaves the handler: the transaction rolls back, the rows   *)
(* of the child action included.                                           *)
Abort(r, code) ==
  /\ HandlerRaises(r, code)
  /\ EndTransaction(r)
  /\ UNCHANGED tableVars

-----------------------------------------------------------------------------
(* Admission: the checks of _execute before the execution row.             *)
Admissible(r) ==
  /\ Permitted(call[r].actor, call[r].action, External)
  /\ call[r].wellFormed

RefuseCall(r) ==
  /\ \/ /\ ~Permitted(call[r].actor, call[r].action, External)
        /\ Refuse(r, "OPERATION_NOT_PERMITTED")
     \/ /\ Permitted(call[r].actor, call[r].action, External)
        /\ ~call[r].wellFormed
        /\ Refuse(r, "INVALID_ACTION_INPUT")
  /\ UNCHANGED flowVars

StartApproval(r) ==
  /\ Admissible(r)
  /\ Start(r)
  /\ at' = [at EXCEPT ![r] = "plan"]
  /\ UNCHANGED <<tableVars, lock, read>>

RepeatedId(r) ==
  /\ Admissible(r)
  /\ StartDuplicate(r)
  /\ UNCHANGED flowVars

-----------------------------------------------------------------------------
(* approve_mitigation_plan.                                                *)
PlanNotFound(r) ==
  /\ at[r] = "plan"
  /\ Target(r) \notin Plans
  /\ Abort(r, "OBJECT_NOT_FOUND")

PlanNotAwaiting(r) ==
  /\ at[r] = "plan"
  /\ Target(r) \in Plans
  /\ Granted(r)
  /\ plan[Target(r)] \notin AwaitingApproval
  /\ Abort(r, "INVALID_MITIGATION_PLAN_STATE")

(* Mutant of LockPlan: a SELECT that is not FOR UPDATE.                    *)
LockPlanUnlocked(r) ==
  /\ at[r] = "plan"
  /\ Target(r) \in Plans
  /\ plan[Target(r)] \in AwaitingApproval
  /\ at' = [at EXCEPT ![r] = "step"]
  /\ UNCHANGED <<engineVars, tableVars, lock, read>>

LockPlan(r) ==
  /\ at[r] = "plan"
  /\ Target(r) \in Plans
  /\ Granted(r)
  /\ plan[Target(r)] \in AwaitingApproval
  /\ Advance(r, "step")
  /\ UNCHANGED read

(* The step is locked and the new plan status flushed; then the child, if  *)
(* the plan asks for one.                                                  *)
LockStep(r) ==
  /\ at[r] = "step"
  /\ Granted(r)
  /\ Advance(r, IF Reallocates(Target(r)) THEN "dispatch" ELSE "commit")
  /\ UNCHANGED read

-----------------------------------------------------------------------------
(* reallocate_inventory, dispatched by execute_child_action for the actor  *)
(* of the approval.                                                        *)
ChildPermitted(r) ==
  Permitted(call[r].actor, "reallocateInventory",
            ChildOf("approveMitigationPlan"))

(* Notes that cannot be used leave the warehouses, the part and the        *)
(* quantity out; the input model wants them all, and quantity > 0.         *)
ChildInputValid(r) ==
  /\ Target(r) \in Frozen
  /\ TransferOf(r).quantity > 0

DispatchDenied(r) ==
  /\ at[r] = "dispatch"
  /\ ~ChildPermitted(r)
  /\ Abort(r, "OPERATION_NOT_PERMITTED")

DispatchInvalid(r) ==
  /\ at[r] = "dispatch"
  /\ ChildPermitted(r)
  /\ ~ChildInputValid(r)
  /\ Abort(r, "INVALID_ACTION_INPUT")

SameWarehouse(r) ==
  /\ at[r] = "dispatch"
  /\ ChildPermitted(r)
  /\ ChildInputValid(r)
  /\ TransferOf(r).from = TransferOf(r).to
  /\ Abort(r, "SAME_SOURCE_AND_DESTINATION_WAREHOUSE")

(* The child's row is flushed, and the plan found approved: this very      *)
(* transaction holds its lock and has set it so.                           *)
StartChild(r) ==
  /\ at[r] = "dispatch"
  /\ ChildPermitted(r)
  /\ ChildInputValid(r)
  /\ TransferOf(r).from # TransferOf(r).to
  /\ Advance(r, "source")
  /\ UNCHANGED read

(* Mutant of LockSource: a SELECT that is not FOR UPDATE.                  *)
LockSourceUnlocked(r) ==
  /\ at[r] = "source"
  /\ IF TransferOf(r).from \in Positions
     THEN read' = [read EXCEPT ![r].source = stock[TransferOf(r).from]]
     ELSE UNCHANGED read
  /\ at' = [at EXCEPT ![r] = "destination"]
  /\ UNCHANGED <<engineVars, tableVars, lock>>

LockSource(r) ==
  /\ at[r] = "source"
  /\ Granted(r)
  /\ IF TransferOf(r).from \in Positions
     THEN read' = [read EXCEPT ![r].source = stock[TransferOf(r).from]]
     ELSE UNCHANGED read
  /\ Advance(r, "destination")

(* The handler goes on when the one query that locks both rows returns.    *)
AtDestination(r) == at[r] = "destination" /\ Granted(r)

RowsFound(r) == {TransferOf(r).from, TransferOf(r).to} \subseteq Positions

(* Mutant of Transferable: reserved and safety stock are not deducted.     *)
TransferableOnHand(r) == TransferOf(r).quantity <= read[r].source

(* on hand - reserved - safety stock covers the quantity.                  *)
Transferable(r) ==
  TransferOf(r).quantity + Held[TransferOf(r).from] <= read[r].source

(* Mutant of Fits: the column takes any quantity.                          *)
FitsAlways(r) == TransferOf(r).to \in Positions

(* The column takes the destination's new quantity as it rounds it.        *)
Fits(r) == Stored(stock[TransferOf(r).to] + TransferOf(r).quantity) <= MaxStock

StockRowNotFound(r) ==
  /\ AtDestination(r)
  /\ ~RowsFound(r)
  /\ Abort(r, "OBJECT_NOT_FOUND")

InsufficientStock(r) ==
  /\ AtDestination(r)
  /\ RowsFound(r)
  /\ ~Transferable(r)
  /\ Abort(r, "INSUFFICIENT_SOURCE_INVENTORY")

StockOverflow(r) ==
  /\ AtDestination(r)
  /\ RowsFound(r)
  /\ Transferable(r)
  /\ ~Fits(r)
  /\ Abort(r, "ACTION_EXECUTION_FAILED")

(* Both rows are written, the child's audit rows and its success flushed.  *)
LockDestination(r) ==
  /\ AtDestination(r)
  /\ RowsFound(r)
  /\ Transferable(r)
  /\ Fits(r)
  /\ read' = [read EXCEPT ![r].destination = stock[TransferOf(r).to]]
  /\ Advance(r, "commit")

-----------------------------------------------------------------------------
(* The commit makes every row of the transaction visible at once.          *)
NewSource(r) == read[r].source - TransferOf(r).quantity
NewDestination(r) == read[r].destination + TransferOf(r).quantity

StockAfter(r) ==
  [stock EXCEPT ![TransferOf(r).from] = Stored(NewSource(r)),
                ![TransferOf(r).to] = Stored(NewDestination(r))]

(* create_audit_log: a row of the session, which goes with its transaction.*)
StockAuditRow(r, position, before, after) ==
  [by |-> r, position |-> position, before |-> before, after |-> after]

(* Mutant of StockAuditOf: only the source is audited.                     *)
StockAuditOfSource(r) ==
  {StockAuditRow(r, TransferOf(r).from, read[r].source, NewSource(r))}

(* The audit rows carry the quantities the handler computed.               *)
StockAuditOf(r) ==
  {StockAuditRow(r, TransferOf(r).from, read[r].source, NewSource(r)),
   StockAuditRow(r, TransferOf(r).to, read[r].destination, NewDestination(r))}

ApplyChild(r) ==
  IF Reallocates(Target(r))
  THEN /\ step' = [step EXCEPT ![Target(r)] = "executed"]
       /\ stock' = StockAfter(r)
       /\ stockAudit' = stockAudit \union StockAuditOf(r)
       /\ childRow' = [childRow EXCEPT ![Id(r)] = "succeeded"]
  ELSE UNCHANGED <<step, stock, stockAudit, childRow>>

ApplyApproval(r) ==
  /\ ApplyChild(r)
  /\ plan' = [plan EXCEPT ![Target(r)] = "approved"]
  /\ planAudit' = planAudit \union
       {[by |-> r, plan |-> Target(r), before |-> plan[Target(r)]]}
  /\ EndTransaction(r)

Commit(r) ==
  /\ at[r] = "commit"
  /\ HandlerCommits(r)
  /\ ApplyApproval(r)

-----------------------------------------------------------------------------
(* What goes wrong around a handler.                                       *)

(* PostgreSQL ends a wait cycle by failing one of its statements.  The     *)
(* child cannot record its failure in the aborted transaction; the error   *)
(* reaches the approval as one that is not an ApplicationError.            *)
DeadlockVictim(r) ==
  /\ OnWaitCycle(r)
  /\ Abort(r, "ACTION_EXECUTION_FAILED")

StatementFault(r) ==
  /\ HandlerFault(r)
  /\ effects' = effects
  /\ EndTransaction(r)
  /\ UNCHANGED tableVars

CommitUnacknowledged(r) ==
  /\ at[r] = "commit"
  /\ HandlerFault(r)
  /\ effects' # effects
  /\ ApplyApproval(r)

Die ==
  /\ Crash
  /\ lock' = [row \in Rows |-> NoOwner]
  /\ at' = [r \in Requests |-> "idle"]
  /\ read' = [r \in Requests |-> NothingRead]
  /\ UNCHANGED tableVars

-----------------------------------------------------------------------------
Approve(r) == PlanNotFound(r) \/ PlanNotAwaiting(r) \/ LockPlan(r) \/ LockStep(r)

Dispatch(r) ==
  DispatchDenied(r) \/ DispatchInvalid(r) \/ SameWarehouse(r) \/ StartChild(r)

Reallocate(r) ==
  \/ LockSource(r)
  \/ StockRowNotFound(r)
  \/ InsufficientStock(r)
  \/ StockOverflow(r)
  \/ LockDestination(r)

Finish(r) == Finishing(r) /\ UNCHANGED flowVars

Admit(r) == RefuseCall(r) \/ StartApproval(r) \/ RepeatedId(r)

Handle(r) == Approve(r) \/ Dispatch(r) \/ Reallocate(r) \/ Commit(r)

FaultOf(r) ==
  \/ Admissible(r) /\ StartFault(r) /\ UNCHANGED flowVars
  \/ MarkFault(r) /\ UNCHANGED flowVars
  \/ StatementFault(r)
  \/ CommitUnacknowledged(r)

Next ==
  \/ \E r \in Requests :
       Admit(r) \/ Handle(r) \/ Finish(r) \/ DeadlockVictim(r) \/ FaultOf(r)
  \/ Die

Safety == FlowInit /\ [][Next]_vars

(* The threads that run the requests go on, and PostgreSQL looks for       *)
(* deadlocks (deadlock_timeout) as long as somebody waits.                 *)
FlowFairness ==
  \A r \in Requests : WF_vars(Handle(r) \/ Finish(r) \/ DeadlockVictim(r))
Spec == Safety /\ FlowFairness

-----------------------------------------------------------------------------
(* Every variable stays in its range.                                      *)
FlowTypeOK ==
  /\ EngineTypeOK
  /\ plan \in [Plans -> PlanStatuses]
  /\ step \in [HasStep -> {"pending", "executed"}]
  /\ stock \in [Positions -> 0..MaxStock]
  /\ childRow \in [ExecIds -> {"absent", "succeeded"}]
  /\ planAudit \subseteq [by : Requests, plan : Plans, before : PlanStatuses]
  /\ stockAudit \subseteq
       [by : Requests, position : Positions, before : Nat, after : Nat]
  /\ at \in [Requests -> {"idle", "plan", "step", "dispatch", "source",
                          "destination", "commit"}]
  /\ lock \in [Rows -> Requests \union {NoOwner}]
  /\ read \in [Requests -> [source : 0..MaxStock, destination : 0..MaxStock]]

(* A row is locked only by a transaction that is still open: no exception, *)
(* commit or crash leaves a lock behind.                                   *)
LocksBelongToOpenTransactions ==
  \A row \in Rows : lock[row] # NoOwner => pc[lock[row]] = "running"

(* Two approvals of one plan never both take effect, whatever ids, actors  *)
(* and interleaving they come with.                                        *)
PlanApprovedOnce ==
  \A r, s \in effects : Target(r) = Target(s) => r = s

(* A transfer takes no position below its reserved and safety stock, also  *)
(* when approvals compete for the same stock.                              *)
HeldStockIsKept ==
  \A w \in Positions : stock[w] >= Held[w] \/ stock[w] >= FirstStock[w]

(* The approval of a plan that asks for a reallocation and the execution   *)
(* of its step are one: neither is seen without the other, and the step    *)
(* had a transfer to execute.                                              *)
ApprovalExecutesStep ==
  /\ \A p \in HasStep : step[p] = "executed" <=> plan[p] = "approved"
  /\ \A p \in Plans : Reallocates(p) /\ plan[p] = "approved" => p \in Frozen

(* The tables tell one story of every delivery: it took effect if and only *)
(* if its plan's approval is audited under it, and for a plan that         *)
(* reallocates if and only if its child row and both stock audit rows are  *)
(* there.                                                                  *)
TrailIsComplete ==
  \A r \in Requests :
    /\ r \in effects <=> \E a \in planAudit : a.by = r /\ a.plan = Target(r)
    /\ LET moved == r \in effects /\ Reallocates(Target(r))
       IN /\ moved => childRow[Id(r)] = "succeeded"
          /\ Cardinality({a \in stockAudit : a.by = r}) = IF moved THEN 2 ELSE 0

(* What the executed steps brought to a position and took from it.         *)
Executed == {p \in Frozen : step[p] = "executed"}
Quantities(S) == SumFunctionOnSet([p \in Frozen |-> Transfer[p].quantity], S)
Incoming(w) == Quantities({p \in Executed : Transfer[p].to = w})
Outgoing(w) == Quantities({p \in Executed : Transfer[p].from = w})

(* What the audit trail says of a position.                                *)
Trail(w) == {a \in stockAudit : a.position = w}
Before(w) == SumFunctionOnSet([a \in stockAudit |-> a.before], Trail(w))
After(w) == SumFunctionOnSet([a \in stockAudit |-> a.after], Trail(w))

(* Stock is accounted for twice.  Every position holds what it held plus   *)
(* what executed steps brought minus what they took: no transfer is lost,  *)
(* repeated or half done.  And the changes that the audit trail records of *)
(* a position lead from what it held to what it holds.                     *)
StockIsAccountedFor ==
  \A w \in Positions :
    /\ stock[w] + Outgoing(w) = FirstStock[w] + Incoming(w)
    /\ stock[w] + Before(w) = FirstStock[w] + After(w)

(* A transfer moves stock and neither makes nor loses any.                 *)
StockConserved ==
  SumFunctionOnSet(stock, Positions) = SumFunctionOnSet(FirstStock, Positions)

(* Every approval that got an execution row is answered: locks are let go  *)
(* and deadlocks are broken.                                               *)
ApprovalIsAnswered ==
  \A r \in Requests : pc[r] = "running" ~> pc[r] = "done"

(* An operations manager who calls the API and may approve a plan is not   *)
(* refused in the middle of it: every approval that is admitted ends with  *)
(* an error of the plan, its stock or the database, not of permission.     *)
AdmittedApproverIsPermitted ==
  \A r \in Requests : raised[r] # "OPERATION_NOT_PERMITTED"
==============================================================================
