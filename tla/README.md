# A TLA+ model of operational-ontology

operational-ontology is a FastAPI backend over PostgreSQL. People and an AI
assistant read a supply-chain ontology through it, and change it only through
*actions*: a planner or an agent has a mitigation plan generated, an operations
manager approves it, and the approval moves stock between warehouses. This
directory holds TLA+ specifications of that action machinery, of the functions
that recommend plans, of the assistant, of who a caller is and what it may do,
and of the lists and links it reads; TLC configurations that check them on small
instances; and TLAPS proofs of the properties that matter most. Paths below are relative to `src/backend/app`
unless they start with `docs/` or `tests/`.

Contents: [the system](#the-system) ·
[the modules](#the-modules) · [the runs](#the-runs) ·
[disagreements found](#disagreements-found) · [the proofs](#the-proofs) ·
[what is left out](#what-is-left-out) · [plan](#plan) ·
[running it](#running-it)

## The system

| component | state it keeps | operations | talks to |
|---|---|---|---|
| **Action engine** `runtime/action_engine.py` | none of its own; three database transactions per call | `execute` (outside calls), `execute_child_action` (a handler's dispatch) | authorization, registries, execution repository, handlers |
| **Execution repository** `repositories/action_execution_repository.py`, `models/action_execution.py` | `action_executions` rows: started → succeeded or failed | `create_started`, `mark_succeeded`, `mark_failed` (both `FOR UPDATE`, both refuse a final row), queries | PostgreSQL |
| **Audit repository** `repositories/audit_repository.py` | `audit_logs` rows, append only | `create_audit_log`, queries | PostgreSQL |
| **approveMitigationPlan** `actions/approve_mitigation_plan.py` | plan status, step status | lock and check the plan, lock its step, dispatch the reallocation, audit | engine (child), audit |
| **reallocateInventory** `actions/reallocate_inventory.py` | on-hand quantities | lock both rows, check, move, audit twice | audit |
| **generateMitigationPlan** `actions/generate_mitigation_plan.py` | draft plans and steps | lock the risk event, look for an active plan, run the recommendation, write plan and steps | function engine's handlers, audit |
| **expeditePurchaseOrder** `actions/expedite_purchase_order.py` | expected date, cost and flag of a purchase order, status of a plan's step | lock order, plan, items and steps; check; change; audit twice | audit |
| **Registries** `actions/registry.py`, `runtime/action_registry.py` | handler per action, fixed at start-up | lookup | ontology |
| **Authorization** `runtime/authorization_service.py`, `ontology/permission_registry.py`, policies in `ontology/ontology.yaml` | policies, fixed at start-up | `authorize`: type, source, role, dispatch context | engine, runtimes |
| **Human API authentication** `api/authentication.py` | none | a signed token becomes an `ActorContext` | HTTP API |
| **HTTP API** `main.py`, `api/routes` | request id per request | run an action, read objects, links, executions, audit | everything below |
| **MCP layer** `mcp/` | the actor of a call in a context variable | tool calls, each with a session of its own | engines and runtimes |
| **Assistant** `assistant/` | one run: text, evidence, tool count | an event stream with a timeout and a tool limit | MCP tools, model provider |
| **Functions** `runtime/function_engine.py`, `functions/`, `repositories/function_repository.py` | none; reads the supply tables | availability, stockout risk, alternatives, expeditable orders, impacted parts, products and orders, ranking, recommendation | PostgreSQL |
| **Object and link runtime** `runtime/object_runtime.py`, `runtime/link_runtime.py` | none; cursors carry an offset | get, search, traverse | object repository |
| **Ontology** `ontology/loader.py`, `validator.py`, `registry.py` | one immutable registry | load and validate at start-up | all of the above |
| **Models, sessions, migrations, seed** `models/`, `db/` | the schema, its constraints, isolation level | session factory | PostgreSQL |
| **Frontend** `src/frontend` | page state | pages over the API | HTTP API |

### How they interact

Every change of the domain goes through `ActionEngine._execute`. Before it
writes anything it looks the action up, asks authorization, finds the handler
and validates the parameters. Then come three transactions on three sessions:

1. insert the execution row as *started* (`action_engine.py:380-391`);
2. run the handler and everything it calls (`:267-272`);
3. set the row to *succeeded*, or after an exception to *failed*
   (`:393-440`).

A child action runs inside transaction 2 of its parent: same session, same
request id and actor, its own execution row. Requests run on a thread pool,
so any number of them interleave at the granularity of SQL statements. They
meet in the database alone: through the unique index on `execution_id`, and
through `SELECT ... FOR UPDATE` at READ COMMITTED. Request ids come from the
client's `X-Request-ID` if it sends one (`main.py:109`), so that they may be repeated.

### What is hard, and what must hold

* **Three transactions that nothing ties together.** The process may die, or
  the database fail, between and inside them; a commit may succeed and its
  acknowledgement be lost. A request id must not take effect twice, a row that
  is final must stay, and the ledger must not claim what did not happen.
* **Competing handlers.** Handlers read a row, compute, and write absolute
  values. Two approvals of a plan, or two transfers out of one position, must
  not both go ahead on the same reading.
* **Locks taken one by one.** Plan, step, source, destination: transfers in
  opposite directions can deadlock. A deadlock must end, and end cleanly.
* **Nested failure.** The child may fail after the parent has flushed its own
  changes. Neither may stay, while the failure must still be recorded.
* **Permission asked twice.** An approval is authorized at the door, its child
  again inside, with the same actor and another policy.
* **Numbers.** Quantities are decimals of any scale that are stored as
  `NUMERIC(12, 2)`.
* **Streaming.** The assistant's stream has a timeout, a tool limit and a client
  that may leave, while the agent behind it runs ahead and calls tools, one of
  which makes plans.
* **Reading without a snapshot.** A recommendation is dozens of SELECTs at READ
  COMMITTED, and claims the same stock for several orders; a list is read page
  by page, each a transaction of its own; the links of an object one by one.
* **Identity from five doors.** Tokens, two MCP transports, the assistant and
  code all make an `ActorContext`; what an agent may do depends on no door
  confusing it with a person.

`PROJECT.json` lists these as hazards, each with the line where it bites and
the properties that cover it.

## The modules

```
ExecutionLedger            abstract: what the engine promises of an execution id
      ^ refined by
ActionEngine               the pipeline, over any handler
      ^ EXTENDS
ApprovalFlow               approveMitigationPlan + reallocateInventory on PostgreSQL
PlanGeneration             generateMitigationPlan beside approvals

SupplyTables               the supply-chain tables and the functions' queries
      ^ EXTENDS            ^ EXTENDS
ImpactAnalysis         ExpeditePurchaseOrder     its transactions and locks
InventoryAnalysis          |
MitigationRecommendation   |     the recommendation, statement by statement
      ^---- SupplyFlow ----^     both, with transfers that commit meanwhile

Authorization              the decision on action.execute
      ^ EXTENDS            ^ EXTENDS
PermissionRegistry     AssistantRun              service, runner, route, client, agent
CallerIdentity             who a caller is at each door, and what it is let do

ListPages, LinkTraversal   lists read by pages; links followed from an object
      ^ EXTENDS
Reading                    a client that does the one or the other

MC...                      instances for TLC
..._proofs                 theorems about the module they are named after
```

### ExecutionLedger

Two variables: `outcome` of each execution id and the set `applied` of ids
whose effects are committed. An id is opened once, applied at most once and only
while open, closed at most once, as succeeded only if applied. Whether an applied id
may be closed as failed is the constant `DoubtAllowed`.

### ActionEngine

A *delivery* is one POST or tool call; it carries a call with a request id.

| model | code |
|---|---|
| `call[r]` | action, parameters, actor and request id of the delivery |
| `pc[r]` | where `_execute` is: `new`, `running` (transaction 2 open), `committed`, `failing` (in an except clause), `done` |
| `exec[i]` | the `action_executions` row of id `i`: status and error code |
| `effects` | deliveries whose transaction 2 is committed |
| `raised[r]`, `reply[r]` | the exception of the handler; what the caller got (`lost`: the connection died with the process) |
| `faults` | a counter, bounded by `MaxFaults` |

| action | code |
|---|---|
| `Refuse` | an error before any row is written (`:200-232`) |
| `Start`, `StartDuplicate` | the insert, and its refusal by the unique index, which nothing catches: a bare 500 |
| `HandlerCommits`, `HandlerRaises` | transaction 2 ends (`:267-288`) |
| `OutputRefused` | `_validate_output` raises after the commit |
| `MarkSucceeded`, `MarkFailed` | transaction 3, with its status check under lock |
| `StartFault`, `HandlerFault`, `MarkFault` | a database error, or a lost acknowledgement, in each of the three |
| `Crash` | the process dies: open transactions roll back, callers get nothing |

The handler is any handler: it commits or raises any code. There is no restart
action because the code has no recovery: after a crash the next request is
served like any other and no code looks at rows left *started*.

### Authorization

`Reason` is `AuthorizationService.authorize` for `action.execute`: the checks
in the code's order (actor type, source, role after an agent is stripped of human
roles, dispatch context), over `ActionPolicy`, the policies of the ontology
file. Contexts are what the engine vouches for: `External`, or `ChildOf` a
parent action. Not included: the other capabilities, obligations (no action
policy has any).

### ApprovalFlow

The two handlers on the engine, one action per locking statement with what
follows up to the next one.

| model | code |
|---|---|
| `plan`, `step`, `stock`, `childRow`, `planAudit`, `stockAudit` | the committed rows of `mitigation_plans`, `mitigation_plan_steps`, `inventory`, the child's `action_executions`, `audit_logs` |
| `at[r]` | the statement a running handler is at |
| `lock[row]` | the transaction that holds the row |
| `read[r]` | the quantities the handler has in its session |

A transaction's writes stay in the session until it commits, and nobody reads
uncommitted rows; so the tables change in `Commit` (or in
`CommitUnacknowledged`) alone, by absolute values computed from `read`.
`Abort` is every exception that leaves the handler, the child's included: the
child's row and audits were in the parent's transaction and go with it.
`OnWaitCycle` is PostgreSQL's deadlock detector, `DeadlockVictim` the error it
raises. `Stored` is the rounding of `NUMERIC(12, 2)`, `Fits` its range.

Abstractions, each of which a reader may want to question:

* One reallocate step per plan. The code locks all such steps and executes the
  first; the others are a hazard on the list.
* Both rows of a transfer are locked by one statement, source first
  (`ORDER BY` before `FOR UPDATE`). The model has two steps for it, so that the
  wait between them is visible, and raises for a missing row after both, as
  the code does. The warehouses and the part exist: whoever wrote the plan read
  them and no code deletes them.
* The step's row is locked even where `Reallocates` will be false; the row's
  absence is an empty lock set.
* Foreign-key violations by an actor id that is no user are left out; they are
  one more way to an error of the kind of `StatementFault`.
* Plans start as the generator leaves them, `draft`, their steps `pending`.
* `reallocateInventory` called from outside is refused by its policy; the
  calls of run `approval` include it.

### PlanGeneration

Generations on the engine, beside approvals of the plans they have made; it starts
from an empty table of plans.

| model | code |
|---|---|
| `plan[r]` | the plan that delivery `r` has committed: status, code, event, type, steps |
| `audit` | `audit_logs` rows of generations, by delivery |
| `at[r]` | the statement a running handler is at |
| `result[r]`, `code[r]` | the recommendation and the mitigation code the handler has |

| action | code (`actions/generate_mitigation_plan.py`) |
|---|---|
| `EventNotFound`, `EventClosed`, `LockEvent` | `SELECT ... FOR UPDATE` of the risk event and its status (`:132-133`) |
| `ActivePlanExists`, `NoActivePlan` | the search for active plans, which waits for approvals that have one locked (`:134`) |
| `Recommend`, `NoStepsField`, `NoFeasiblePlan` | the function's error or result (`:141-146`) |
| `ChooseCode` | the highest code among committed plans, plus one (`:275-285`) |
| `InsertPlan`, `CodeTaken` | the flush: the unique index lets one of several equal codes in, after waiting for whoever has inserted it (`:167`) |
| `StepRefused`, `InsertSteps` | the loop over the steps (`:172-194`) |
| `ApplyGeneration` | plan, steps and audit rows at the commit |
| `ApprovalRefused`, `LockForApproval`, `ApprovalFails`, `ApplyApproval` | what a generation can see of an approval |

Locks are not variables here: what a transaction holds follows from the statement
it is at (`HoldsEvent`, `HoldsPlan`, `HoldsCode`).

Abstractions:

* What the function recommends for each event is the constant `Recommendations`: an error, the
  result of the registered function, or the result the handler is written for
  (with steps). Of the latter only its steps matter here.
* A step has its number and type, `complete` (its parameters have the fields that
  the type wants) and `valid` (what they name exists, the quantity is positive also
  after rounding to the column).
* An approval is a lock on its plan, then a commit or any error. Its steps, stock
  and child are those of `ApprovalFlow`; a generation reads none of them outside the
  recommendation.
* The writes of a generation are visible to others in two ways only, which are
  modelled: the locked event, and the code in the unique index.
* No code changes the status of an event, and none ends a plan once it is a draft
  except by approving it. An approved plan counts as active too, and so does a draft
  (`ACTIVE_PLAN_STATUSES`, line 28): an event gets one plan for good. That is what
  `OneActivePlanPerEvent` says of the code's locks; the document allows several drafts,
  which is run `generate_drafts`.

### SupplyTables, ImpactAnalysis, InventoryAnalysis

`db` holds the tables, by code. Each operator of `SupplyTables` is one query of
`repositories/function_repository.py`, with its joins: an item of a purchase
order counts once per warehouse that stocks its part (`Copies`), a line once per open
shipment of its order (`Demands`). `ImpactAnalysis` and `InventoryAnalysis` are the
functions themselves: scenario with and without the delay (`Projections`), what
can be built (`Buildable`), allocation to order lines (`Allocation`), ranking
(`RiskScore`), the stock-out ledger (`StockoutRisk`), transfers and expedites that
come in time. Dates, quantities and codes are whole numbers; a list is a set
until its order matters. Left out: explanations, the components of the
stock-out score, confidence; rounding to cents, for whole quantities have none.

### MitigationRecommendation, ExpeditePurchaseOrder, SupplyFlow

`recommend_mitigation_plan` is one step per group of statements: find, rank,
products, then one step per requirement of the loop (`Cover`). Every step reads
the tables as they are, so transactions that commit between two of them are seen by
the later one. (Within a step the model reads one state; the code's own SELECTs may
be split further. `NothingPromisedTwice` is stated for calls during which nothing
commits, for which this makes no difference; the other properties do not depend
on what is read. The one snapshot per call that the document asks for, the code does not have.)

The expedite handler is a transaction per call: `Enter`, `LockPurchase`,
`LockExpeditedPlan`, then `RefuseExpedite` or `CommitExpedite`. Items and steps
are locked as well in the code, but only by who holds the purchase order or the
plan, so these locks never wait. `SupplyFlow` runs both beside transfers (`StockMoves`).

No path of the program reaches this handler (see the disagreements below): its calls are
children of executing plans, which the model takes as given.

### AssistantRun

| model | code |
|---|---|
| `stage` | where the two generators are: `stream_chat` in `assistant/service.py`, `event_stream` in the route |
| `hand`, `sent` | the event being sent; what the client has got |
| `timer` | `asyncio.timeout` is armed |
| `due`, `queue`, `flight` | events mapped by the runner, events of the SDK, tool calls under way |
| `told`, `calls` | `created_objects_by_key`, `tool_calls` |
| `plan` | which run, or other client, made the active plan of a risk event |

`Timeout` is the timer hitting the service where it waits for an event: the
runner cancels the SDK, the stream ends with `ASSISTANT_TIMEOUT`. `CutOff` is the timer
hitting while an event is on its way out: the exception goes through the web
server and not through the service's `except`, so the stream just ends. Tools
are plain functions; the event loop does not run while one does. The SDK, its
queue and the model are external: the model may say or call anything it is offered.

### PermissionRegistry, CallerIdentity

`Starts` and `Registry` are `PermissionRegistry.from_ontology`: known keys, roles,
templates for object and link types, and the refusal of two policies for one key.
`AskReason` is `authorize` for any capability. `ActorOf` says which actor each
door makes: tokens of the human API with every claim that matters and a
clock, the MCP transports, the assistant, and code in the same process. `Request`
asks for anything the tools or routes offer, `Dispatch` for a child action
from an action that was allowed. The HTTP routes that read objects ask for nothing, so
the object and link asks stand for the tools.

### ListPages, LinkTraversal, Reading

A listing is a request, checked as the code checks it (`ListProblem`), then pages:
each a `SELECT` with `OFFSET` and `LIMIT` over the table as it is then, with commits of
others in between. The search of executions counts first, by a statement of its
own. Rows that tie in the order come in any order, at each statement anew.

A traversal loads its source, then resolves each link: `StoredLink` and
`FlattenedLink` follow `runtime/link_runtime.py` with its storage checks, merged row
filters and cardinality; the link types of the instance are the shapes of
`ontology.yaml`, and two broken ones.

## The runs

| run | instance | question |
|---|---|---|
| `engine_faults` | 3 deliveries, 2 ids, 2 codes, every fault, at most 2 of them, one handler that breaks its output contract, fair | is an id effective once, are ledger and answers true, does the engine refine the ledger, is every started delivery answered? |
| `policies` | 18 sites (settings and ontologies), 13 tokens, 2 MCP transports, every actor code can make, 3 moments | who is a caller taken for, what may an agent do, how are the child actions reached, which ontologies start and is every declared policy the one in force? |
| `approval` | 3 deliveries, 3 ids, 10 plans: 3 whose transfers compete for 3 positions, 7 that end early; at most 2 faults, fair | do plans, steps, stock, ledger and audit agree whatever competes and fails, does every quantity stay in its column, is every approval answered? |
| `approval_api` | 2 deliveries over the API | **violated**: an admitted approver is permitted throughout |
| `approval_round` | 2 deliveries, quantities in half units of the column | **violated**: a transfer conserves stock |
| `generation` | 3 deliveries, 3 ids, 4 events (one closed) and one unknown, an approval, 9 recommendations, at most 1 fault of any kind, fair | is there one active plan per event, are codes in order, does a collision have a winner, is a draft whole or absent, is every call answered? |
| `generate_registered` | 2 deliveries, the registered function | **violated**: a plan is made |
| `generate_drafts` | 2 deliveries that generate, 2 open events, no fault | **violated**: a draft does not block another draft |
| `supply` | 82 contents of the tables with 1 transfer, 2 more with 3 expedite calls; fair | is a recommendation sound, is a purchase order expedited once, does every such call end? |
| `assistant` | 1 run, every kind of message, limit 1 or 2, up to 2 parallel tool calls; fair | is the stream in order and complete, what can a run do that it was not asked for, does it end? |
| `assistant_limit` | 1 run that asks for a draft, limit 1 | **violated**: a run that is stopped at the limit makes no plan |
| `reading` | 2 contents per table of 2 to 4 rows, pages of 1 and 2, 2 commits; 10 link types, 4 sets of rows, 1 insertion | what is sure to be on the pages, what do links relate, who may see it? |

Why the bounds are enough. No property of the engine and the flows depends on which
delivery is which; what each instance must contain is one id delivered several
times and rows that at least three transactions want. The deliveries of `approval` and
`generation` come under three ids, two or one: an id is
delivered once, twice and three times, the third after the first two came to
any end. Their calls are chosen up to the names of deliveries and ids (`Competition`), which
takes the place of symmetry, for that is not sound with liveness. Two faults allow a crash of what a fault left open, and a fault of
what a crash left taken. In `approval` plans `p1` and `p2` want six of
the five units that may leave `w1`, and `p3` goes from `w2` to `w1`: there are
conflicts of plan locks, of stock locks in both directions, cycles of two
and insufficient stock that depends on the order. Cycles of three do not occur in this instance; `OnWaitCycle` is
defined for any set, and the proofs do not depend on it. Every other refusal of the two
handlers has a plan of its own, delivered twice beside a transfer (`Oddities`).

In `generation` two deliveries may meet at an event, two others at a code,
and the third continues either, or approves what one of them
made. The fourth event has a recommendation for each way
the loop over the steps can end, in its first step or a later one.

In `supply` the tables have an order for each outcome (impacted or not, overdue,
without destination), two orders that want the same part, two warehouses in and
out of reach with stock above and below the need, and a supplier that is late by
a little or by more than the horizon; every strategy is recommended in some of them.
One transfer may commit anywhere. The expedite calls are two for one purchase order
and one for another with the plan of the first, where purchase orders may be missing:
any wait in the code is between two calls.

In `assistant` runs meet only through the plans they make, and `GenerateElsewhere`
stands for any other client, so one run is enough; two calls of tools exceed the
limit of one, and overlap.

In `reading` a page of one or two of two to four rows meets the end exactly and inexactly; sort
keys tie and are NULL, executions may start and end between any two statements;
two commits can move a row across a page's edge and back. In `policies` tokens differ
from a good one in one claim, sites from the default in one setting: the
checks are a conjunction, so one suffices to fail each. Its
`CONSTRAINT` leaves the actors made by code, all there can be, to one site and moment.

`CHECK_DEADLOCK FALSE`: the instances have a finite number of calls and
the system rightly stops when all are answered. That it stops nowhere else is
what the liveness properties say.

**Fairness.** `EngineFairness`, `FlowFairness` and `GenerationFairness` are weakly fair, for
each delivery, in the steps of the thread that runs it once it has its row: the
handler's next statement, its end, the recording of its outcome, and, in the
flow, the deadlock detector, which PostgreSQL runs after `deadlock_timeout` for
as long as somebody waits. Nothing is assumed of clients (a delivery may never
arrive) and of faults (they need not happen). Weak fairness suffices although
a lock may be taken by others again and again: a waiter is passed over only
by deliveries, which are finite in number. `SupplySpec` is weakly fair for each expedite
call in the same sense. `AssistantRun` is weakly fair in the service's steps and
in the timer, which the event loop both runs; the model, the SDK and the client owe nothing, and still every
run ends. Reading and identity state no liveness.

**Mutants.** Definitions named as "Mutant of ..." stand beside the one they
change: a missing unique index, a lock that is not taken, a transaction that is
not rolled back and so on. Each property of a passing run is violated under one of
them; `PROJECT.json` says which.

## Disagreements found

Shown by a run:

1. *Approval over the API* (`approval_api`). The child runs with the caller's
   invocation source, `api`, and its policy allows `internal` only
   (`ontology.yaml:3004`). `tests/test_action_execution_persistence.py:151` expects
   such an approval to answer 200; it ends with `OPERATION_NOT_PERMITTED`.
2. *Rounding* (`approval_round`). Both ends of a transfer are rounded to two
   decimals separately, so a quantity of finer scale creates or destroys stock.
   Such quantities arise as products of two `NUMERIC(12, 2)` columns
   (`function_repository.py:246`).
3. *The recommendation's contract* (`generate_registered`). The handler reads
   `mitigation_steps` and other fields (`generate_mitigation_plan.py:144`) that the
   result of the registered function does not have (`schemas/functions.py:429`), so
   every generation that comes this far fails with `ACTION_EXECUTION_FAILED`.
   `tests/test_action_execution_persistence.py:61` expects 200. The other runs give
   the handler the result it is written for.
4. *Several drafts* (`generate_drafts`). `docs/ontology_actions_implementation_context.md:1371`
   allows several draft plans for a risk event, and `:934` says that a draft does not block
   another. The code counts drafts as active (`generate_mitigation_plan.py:28`), so that the
   second generation answers 409. (The document's statuses of an event that allow a plan are
   *open* and *acknowledged*, `:1366`; the code's are *open* and *investigating*, line 29.)
5. *The tool limit* (`assistant_limit`).
   `docs/operational-ontology_ai_mcp_integration_design_context.md:703` wants a run stopped
   safely when limits are reached. At the limit the stream ends (`assistant/service.py:121`), but
   nobody cancels the SDK's run, which may go on and make a plan nobody is told of.

Met while translating; the models contain what the code does, and no run is about it:

*Actions*
* `docs/ontology_actions_implementation_context.md:588` wants writes, audit and
  status *succeeded* in one commit; the engine uses two (`action_engine.py:271`, `:408`).
  A crash between them leaves effects under a row that stays *started*.
* `docs/ontology_permissions_implementation_context.md:803` and the expedite handler
  (`expedite_purchase_order.py:21`) want the parent `executeMitigationPlan`; the policies allow
  `approveMitigationPlan` only (`ontology.yaml:3006`, `:3014`). Nor does any code set a plan to
  *executing*. So the transfer runs under an approval, and the expedite handler cannot be
  reached. `ChangesOnlyUnderApproval` says what the policies do, not which of the two is meant.
* `docs/ontology_actions_implementation_context.md:792` wants inventory rows locked
  sorted by id; the code locks source, then destination, and opposite transfers deadlock.
* The handler expedites purchase orders that are *open*; the function that recommends
  them looks at *confirmed*, *partially_received* and *delayed* ones. No order that is
  recommended is ever accepted. `expedited` is not asked for by the query.

*Functions*
* `docs/ontology_functions_implementation_context.md:193` wants one snapshot per call, of
  `recommendMitigationPlan` above all; the session reads at READ COMMITTED. A transfer that
  commits between two functions of one recommendation can make the orders it finds other
  than those it ranks (`functions/impacts.py:964`).
* The joins with inventory multiply the open quantity of a purchase order by the
  number of warehouses that stock the part (`function_repository.py:851`), and count it
  as inbound at each of them.
* One overdue order with a destination makes the whole recommendation fail with
  `INVALID_HORIZON_DATE` (`functions/inventory.py:169`).
* A shortage is the balance at the end, so a stock-out that is made good later
  counts as none; demand is counted once per open shipment; every part of a product's bill is
  required for what cannot be built, also those that are plentiful; expedite claims are
  by purchase order, whatever the part; the value of an order is always zero.
* A longer delay can leave an order less short: a product that only the longer delay hits brings its
  warehouses, whose stock then counts for the parts it shares (`functions/impacts.py:638`).
* The strategy can be MANUAL_INTERVENTION although steps are recommended.

*Assistant*
* Not at the tool limit alone: after a failure that the runner forwards, and when the client has
  gone, nobody cancels the SDK's run either.
* A timer that fires while an event is being sent ends the stream without an outcome.

*Permissions, lists, links*
* An action that is declared without a policy answers `POLICY_NOT_FOUND`; the names of parents in
  policies are not validated. A token is accepted through the second it expires in.
* No audit policy is declared in `ontology.yaml`: every route for the history of executions and for
  audit logs answers 422.
* `InventoryTransfer` has no model, so the links of MitigationPlan, Warehouse and
  InventoryPosition fail when they reach it; stored links from `InventoryPosition` put the row filter of the
  source's table on the target and raise a `KeyError`.
* History lists say `hasMore` without a cursor. The HTTP routes for objects ask no authorization.

## The proofs

Every invariant that a passing run checks is a theorem, for all values of the constants. Eight
modules hold the proofs: `ActionEngine_proofs`, `ApprovalFlow_proofs`, `PlanGeneration_proofs`,
`SupplyFlow_proofs`, `AssistantRun_proofs`, `CallerIdentity_proofs` and `Reading_proofs`
(links and lists), and `FiniteSums`, the lemmas about sums, counts and places that three of
them share. TLAPS checks them for any number of deliveries, ids, plans, positions, events, runs,
calls, rows, pages and faults, from the assumptions that the modules name (`CallsAssumption`, `CodesAssumption`,
`FaultsAssumption`; `FlowCodesAssumption`, `PlansAssumption`, `TransferAssumption`,
`StockAssumption`, `StoredAssumption`, `OwnerAssumption`; `GenerationCodesAssumption`,
`RecommendationsAssumption`; `WorldAssumption`, `TodayAssumption`, `StepOrderAssumption`,
`ExecutedOnAssumption`, `NobodyAssumption`; `AskAssumption`, `NoRunAssumption`; `RulesAssumption`,
`ChannelAssumption`, `PoliciesAssumption`; `LinkAssumption`, `ListsAssumption`). TLC evaluates them
in every run.

Three of them say more than which type a constant has.

* `WorldAssumption`: the tables at the start satisfy `TablesOK`, what the columns, foreign keys and
  CHECK constraints of `models/supply_chain.py` admit. That handlers keep it so is proved.
* `ListsAssumption`: requests have passed their schemas (`limit` is at least 1, a direction is `asc` or
  `desc`); a row has a primary key and a value or NULL in each column that lists are sorted by; an execution
  under way has no affected objects yet (`create_started` writes none).
* `PoliciesAssumption`: at every site the ontology has the five action policies of
  `ontology.yaml`, and no policy for an action that does not exist. The rest of the ontology may be anything.

Four theorems have a hypothesis more, for their property fails without it.

* `WholeQuantities` (`StockAccounted`, `StockStays`): the column rounds nothing that is transferred. It
  holds of whole quantities; what comes of others is the disagreement that `approval_round` finds.
* `OneSidedFilters` (`LinksAreFaithful`) and `MirroredInverses` (`InversesAgree`): of a storage
  filter one of the two types lacks a column, and the inverse of a stored link joins the same columns over the same
  storage. Both hold of the links of `ontology.yaml`; the validator asks for neither.

**The engine.** None of the ledger's properties is inductive: that an id takes
effect once depends on who may still commit under it. `EngineInv` adds

* `Ownership`: a delivery in flight has a row that is still *started*, and no other
  delivery in flight or in effect has its id. `Start` establishes it because
  of the unique index; after a crash the row stays and keeps the id taken;
* `Progress`: what the control state says of `raised`, `reply` and `effects`;
* `Doubt`: a failure is recorded of an effect only for the two admitted reasons;
* `EffectsHaveRow`: nothing takes effect without a row.

From it follow `EngineTyped`, `EffectsOnce`, `OutcomesAreTrue`,
`OpenRowsAreOwned`, the action property `FinalRows` and the refinement
`EngineRefinesLedger`.

**The flow.** Every step of the flow is a step of the engine or leaves its variables
alone (lemma `StepOnEngine`; the flow's actions are built that way), so `EngineInv` carries over.
`FlowInv` adds

* `RunningHandlers`: a handler is at a statement exactly while its transaction is open;
* `LocksKnown`: what a transaction knows while it holds its locks. The plan
  it has locked still awaits approval, what it has read is still what the table
  says, and at the commit the transfer is still covered. It is preserved by the
  steps of others because they neither take a lock that is held (`LockedKeeps`,
  `ReleasedKeeps`) nor write a row they have not locked (`CommitWrites`);
* `EffectsApprove`: a delivery in effect has its plan approved, so that the next
  one finds it so.

From it follow `FlowTyped` (no quantity leaves the column's range),
`LocksAreReleased`, `ApprovedOnce`, `StockIsHeld` and `StepsExecuted`. Of
`Stored` the proofs use only that it is monotone and leaves alone the
quantities that are in the columns already (`Held`, `FirstStock`) and
the largest one: they hold for any rounding.

`TrailComplete` needs `TrailInv` beside it: who has an audit row is in effect, and a delivery in effect has
both its stock rows, two different ones, and a child row that stays as it is. `StockAccounted` and `StockStays` follow
from `AccountInv`: in a commit one step becomes executed and two audit rows come in, each of them with a sum
that grows by the very quantity that the row of the position changes by. That the two audit rows are new follows from
`TrailInv`, that the step was not executed before from `FlowInv`.

**Generation.** `GenerationInv` adds to `EngineInv`

* `EventsHeld`: past its first statement a generation has its event for itself,
  so that what its search found, no active plan (`KnowsNoPlan`), stays true until
  it commits one;
* `KnowsCode`: the code it has chosen is the first or follows one in use, which
  stays in use because plans are never deleted; once inserted, no plan has it
  (`CodesHeld`: and no other transaction), because of the unique index;
* `KnowsSteps`: at the commit all steps have been checked.

From it follow `OneActivePlan`, `CodesInOrder`, `WholeDrafts` and `GenerationTyped`.
`EngineInv` carries over by lemma `GenerationStepOnEngine`.

`CollisionsHaveAWinner` is about the past of a failed call, of which no variable keeps the reason. By
`CollisionKnown` what is about to be inserted is a recommendation for the event, so where the tables can store them all
(`Storable`, a part of the property) only the unique index
refuses it, when a plan of that code is there; a plan is never deleted and a failed call keeps its code.

**Supply.** `PurchasesExpeditedOnce`, by `SupplyInv`: a transaction that has read a purchase order
holds its row until it ends, so that what it has `seen` is what is there when it
decides (`PurchasesKnown`); what the audit tells of an order stays in its row, marked expedited, and its
step stays executed (`AuditBacked`), hence no second entry (`AuditUnique`). Transfers and the
recommendation write neither.

`SumsAddUp` and `ClaimsAreOnce`, by `CoverInv`: at every point of the loop what the steps cover, what the
list of shortages has left and what was given up are the whole (`SumsFit`), and while nothing commits what the steps
take from a warehouse is what the claims say and within what it may give (`ClaimsFit`). The tables
stay in shape (`TablesInv`), for the analyses read them at each step.

`UrgentFirst` and `DelayHurts` are about one state of the tables and hold of any with
`TablesOK`. Sharing: the one who is served at place `k` gets what those ahead left, so that what
is given out up to a place is the lesser of what there is and what is wanted so far. Delay: a purchase that arrives
later is in no projection it was not in before, so that availability falls, a minimum over the bill of
materials falls with it, and with less to share every line's shortage grows.
`DelayNeverHelps` compares delays that hit parts of the same products. Without this it is false, and TLC's
counterexample is among the contents of the run (`Apart`): a product that only the longer delay hits brings its
warehouses into the projection of the parts it shares with another one
(`_build_part_projections`, `demand_warehouses`), whose order is then less short.

**Assistant.** `RunInv` holds of each run by itself: what is on its way and what was sent agree
with the counter of calls (`Counting`), a failed stream has given up (`GivenUp`), a run
under way has its timer (`Typed`), tools under way were offered (`Offering`), an end
without an outcome has a cause (`Concluding`); and a plan's author was offered the tool (`Drafted`).
From it follow `DraftsAreAskedFor`, `SilenceIsExplained`, `ToolLimitHolds` and the action
property `NothingAfterTimeout`. Each action has one lemma; they share lemmas about events handed over
(`YieldIsGood`) and about changes of a run that no one sees (`QuietIsGood`).

`StreamsAreInOrder` and `CompletionsTellAll` need the story of a run as far as it has not been sent: `StoryInv`
reads what was sent, what is on its way, what the runner has mapped and what the SDK has queued as one sequence,
in which a start comes before its results (`SentInOrder`, `HandInOrder`, `PendingInOrder`), and says that each plan made is
told of, in a result that waits or still under way (`NothingUntold`), until the completion takes stock of
them (`Completing`), after which no tool is left to run.

**Identity.** `PeopleAndAgentsStayApart` from the actor each door makes (`ActorIsOfItsChannel`);
`PoliciesHaveNoRivals` for every ontology and every policy it declares, those that the defaults' templates make for
its object and link types included: from the refusal of duplicates in `Starts`, also of an explicit policy and a
template. `OneRulePerThing` places the templates before the list of explicit policies, so that two declarations of one
thing are told apart even where they say the same.
`AgentsDraftAndNoMore` and `ChangesNeedAnApproval` by `ActionInv`: an allowed action is one the action policies permit,
asked from outside or by an action that the same actor was itself permitted. That the registry of a site that
is up gives `Permitted` of `Authorization` and nothing else (`TheActionsPolicyDecides`) is where `PoliciesAssumption` comes in.

**Links.** `LinksArePermitted`, by `RightsInv`: an answer grows by one entry per link, for which the rights were asked
before its rows were read. `LinksAreFaithful` compares, for each kind of link, the `WHERE` clause that the runtime builds (joined columns,
merged filters, refused where a column is missing or filters contradict each other) with the relation that the
ontology declares; while nothing is added its answer stays true (`FaithInv`). `InversesAgree` is a fact about tables.

**Lists.** A row's place in a list is the number of rows ahead of it, and that of what it is sorted by, its key
(`AheadByKey`); keys end with the identifier and are totally ordered, NULLs last in either direction (`BeforeOneWay`,
`BeforeOnward`), so that the places are taken, each once (`RowsHavePlaces`). `PagesAreComplete`, by `QuietInv`: while no key is
added or removed, what the client has is the list up to the offset, and a page goes on from there; the arithmetic of
the page, its extra row and the last page are `PageIs`. `HistoriesAreComplete`, by
`HistoryInv`: a row that was there at first has been shown or has its place behind the offset. Rows that are added move it
back and never forward (`PlacesGrow`); an execution that ends keeps its place (`HistoryGrows`), for neither
its identifier nor its start changes and no filter admits only executions under way.

**Sums.** TLAPS cannot instantiate the library's induction theorems. `FiniteSums` does without: strict inclusion is well
founded on the subsets of a finite set, so a set of subsets has a least member, and a least counterexample
contradicts the step. So sums, which are recursive functions on subsets, are shown to exist, to be unique and
to change as sums do.

**Proved, and in no run.** `EngineTyped`, `GenerationTyped`, `LocksAreReleased`, `ToolLimitHolds`
(which is also a part of `StreamInOrder`) and `FinalRows` (which the refinement of the
ledger implies) hold for all constants, so no run repeats them on an instance. `StockStays` says of whole
quantities what `approval_round` refutes of others.

**Model-checked only.** Liveness (`StartedIsAnswered`, `ApprovalIsAnswered`, `CallIsAnswered`,
`EveryExpediteEnds`, `EveryRunEnds`), for TLAPS has no ENABLED here. And what the five
runs with a violation find, which is false in general.

## What is left out

* *Ontology loading and validation*: a pure check of one file at start-up, with no state afterwards.
  What the permission registry makes of it is modelled.
* *Action and function registries*: tables filled once at start-up.
* *The function engine's* lookup and validation, and the *health* and *metadata* routes: they
  read what never changes.
* *The MCP context variable* under concurrent calls: the runtime gives each task a copy of its own.
* *Frontend, migrations, seed data*: no behaviour of the domain. The constraints that
  migrations create are in the models where the code meets them.
* *Wording, timestamps, summaries, scores that nothing reads*, except which
  row exists and the quantities it carries.
* *A plan with several transfers*: `ApprovalFlow` has one per plan. The code executes the first; what should become of the others is
  stated nowhere.

## Plan

| | module | content | checks and theorems |
|---|---|---|---|
| done | `ExecutionLedger`, `ActionEngine` | the pipeline | refinement, invariants, proved |
| done | `ApprovalFlow` | the only way stock changes | locks, conservation, liveness; invariants proved |
| done | `PlanGeneration` | generateMitigationPlan beside approvals | active plans, codes, whole drafts; invariants proved |
| done | `SupplyTables` to `SupplyFlow` | functions and recommendation, expediting | sums, claims, sharing, monotony; invariants proved |
| done | `AssistantRun` | event stream, timeout, tool limit, tools that run on | order, limits, causes; invariants proved |
| done | `Authorization`, `PermissionRegistry`, `CallerIdentity` | doors, policies, decisions | invariants proved |
| done | `ListPages`, `LinkTraversal`, `Reading` | pages and links under concurrent commits | invariants proved |
| 1 | composition of `PlanGeneration` and `ApprovalFlow` | several transfers of one generated plan | what an approval leaves undone |
| 2 | `ApprovalFlow_proofs` | an abstract store of plans and stock that the flow implements | the refinement, step by step |

## Running it

```
tlc -workers 2 -config MCApprovalFlow_compete.cfg MCApprovalFlow
tlapm ApprovalFlow_proofs.tla
```

Most runs take seconds to a minute, `approval`, `supply` and `reading` two to three; each proof module takes
about a minute.
