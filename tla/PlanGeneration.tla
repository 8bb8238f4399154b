---------------------------- MODULE PlanGeneration ---------------------------
(***************************************************************************)
(* generateMitigationPlan on the action engine, beside approvals of the    *)
(* plans it has made.                                                      *)
(*                                                                         *)
(* A generation locks its risk event, looks for an active plan, has a plan *)
(* recommended, takes the next free mitigation code and inserts the plan   *)
(* and its steps.  Generations for different events do not exclude each    *)
(* other: they read the same codes and may choose the same one, which the  *)
(* unique index on mitigation_code lets only one of them keep.             *)
(*                                                                         *)
(* An approval is what a generation can see of it: it locks the plan's row *)
(* and then commits or not.  ApprovalFlow has the whole of it.             *)
(***************************************************************************)
EXTENDS ActionEngine, Sequences

CONSTANTS
  Events,           \* rows of risk_events
  EventStatus,      \* status of each; no handler changes it
  Recommendations   \* what recommendMitigationPlan may come to for each

StepTypes == {"reallocate_inventory", "expedite_purchase_order",
              "prioritize_shipment", "other"}

(* A recommended step: whether its parameters have the fields that its type*)
(* wants, and whether what they name exists and the quantity is positive.  *)
Step == [number : Nat \ {0}, type : StepTypes, complete : BOOLEAN, valid : BOOLEAN]

(* A recommendation is an error of the function, or a result with or       *)
(* without the field mitigation_steps.                                     *)
Recommendation ==
  [kind : {"error"}, code : ErrorCodes]
    \union [kind : {"recommendations"}]
    \union [kind : {"steps"}, steps : Seq(Step)]

GenerationCodes ==
  {"RISK_EVENT_NOT_FOUND", "INVALID_RISK_EVENT_STATE",
   "ACTIVE_MITIGATION_PLAN_EXISTS", "NO_FEASIBLE_MITIGATION",
   "UNSUPPORTED_MITIGATION_STEP", "INVALID_MITIGATION_STEP",
   "OBJECT_NOT_FOUND", "INVALID_MITIGATION_PLAN_STATE", "ACTION_EXECUTION_FAILED"}

FirstCode == 1001

ASSUME GenerationCodesAssumption == GenerationCodes \subseteq ErrorCodes
ASSUME GenerationCallsAssumption ==
  \A c \in Calls : \/ c.action = "generateMitigationPlan"
                   \/ c.action = "approveMitigationPlan" /\ c.target \in Nat
ASSUME RecommendationsAssumption ==
  \A e \in Events : Recommendations[e] \subseteq Recommendation
ASSUME GenerationConformingAssumption == NonConforming = {}

VARIABLES
  plan,     \* the plan that each delivery has committed, if any
  audit,    \* audit rows of generations
  at,       \* the statement each running handler is at
  result,   \* the recommendation each generation has
  code      \* the mitigation code each generation has chosen

planVars == <<plan, audit>>
localVars == <<at, result, code>>
vars == <<engineVars, planVars, localVars>>

NoPlan == [status |-> "none"]
NoResult == [kind |-> "none"]

GenerationInit ==
  /\ EngineInit
  /\ plan = [r \in Requests |-> NoPlan]
  /\ audit = {}
  /\ at = [r \in Requests |-> "idle"]
  /\ result = [r \in Requests |-> NoResult]
  /\ code = [r \in Requests |-> 0]

Event(r) == call[r].event
Made == {r \in Requests : plan[r] # NoPlan}
CodesInUse == {plan[r].code : r \in Made}

AwaitingApproval == {"draft", "proposed"}
ActiveStatuses == {"draft", "proposed", "approved", "executing"}
ActivePlans(e) == {r \in Made : plan[r].event = e /\ plan[r].status \in ActiveStatuses}

-----------------------------------------------------------------------------
(* What open transactions hold, each from the statement that takes it to   *)
(* the transaction's end.                                                  *)
PastEvent == {"active", "recommend", "code", "insert", "steps", "commit"}

(* Mutant of HoldsEvent: the risk event's SELECT is not FOR UPDATE.        *)
HoldsEventNever(r, e) == FALSE

(* Mutant of HoldsEvent: a transaction that is over keeps it.              *)
HoldsEventForGood(r, e) ==
  /\ call[r].action = "generateMitigationPlan"
  /\ pc[r] # "new" /\ at[r] # "event"
  /\ Event(r) = e

HoldsEvent(r, e) == at[r] \in PastEvent /\ Event(r) = e
HoldsPlan(r, p) == at[r] = "approving" /\ p \in Made /\ call[r].target = plan[p].code
HoldsCode(r, c) == at[r] \in {"steps", "commit"} /\ code[r] = c

Goto(r, next) == at' = [at EXCEPT ![r] = next]

EndTransaction(r) ==
  /\ Goto(r, "idle")
  /\ result' = [result EXCEPT ![r] = NoResult]

Abort(r, error) ==
  /\ HandlerRaises(r, error)
  /\ EndTransaction(r)
  /\ UNCHANGED <<planVars, code>>

-----------------------------------------------------------------------------
(* Admission.  Authorization and validation are those of the engine.       *)
RefuseCall(r) ==
  /\ \E error \in ErrorCodes \ GenerationCodes : Refuse(r, error)
  /\ UNCHANGED <<planVars, localVars>>

StartCall(r) ==
  /\ Start(r)
  /\ Goto(r, IF call[r].action = "generateMitigationPlan" THEN "event" ELSE "approve")
  /\ UNCHANGED <<planVars, result, code>>

RepeatedId(r) == StartDuplicate(r) /\ UNCHANGED <<planVars, localVars>>

-----------------------------------------------------------------------------
(* generate_mitigation_plan.                                               *)
EventNotFound(r) ==
  /\ at[r] = "event"
  /\ Event(r) \notin Events
  /\ Abort(r, "RISK_EVENT_NOT_FOUND")

EventFree(r) == \A s \in Requests \ {r} : ~HoldsEvent(s, Event(r))

EventClosed(r) ==
  /\ at[r] = "event"
  /\ Event(r) \in Events
  /\ EventFree(r)
  /\ EventStatus[Event(r)] \notin {"open", "investigating"}
  /\ Abort(r, "INVALID_RISK_EVENT_STATE")

LockEvent(r) ==
  /\ at[r] = "event"
  /\ Event(r) \in Events
  /\ EventFree(r)
  /\ EventStatus[Event(r)] \in {"open", "investigating"}
  /\ Goto(r, "active")
  /\ UNCHANGED <<engineVars, planVars, result, code>>

(* The search for active plans waits for the approvals that have them.     *)
ActiveFree(r) ==
  \A p \in ActivePlans(Event(r)), s \in Requests : ~HoldsPlan(s, p)

ActivePlanExists(r) ==
  /\ at[r] = "active"
  /\ ActiveFree(r)
  /\ ActivePlans(Event(r)) # {}
  /\ Abort(r, "ACTIVE_MITIGATION_PLAN_EXISTS")

NoActivePlan(r) ==
  /\ at[r] = "active"
  /\ ActivePlans(Event(r)) = {}
  /\ Goto(r, "recommend")
  /\ UNCHANGED <<engineVars, planVars, result, code>>

(* The function runs on the handler's session; it locks nothing.           *)
Recommend(r) ==
  /\ at[r] = "recommend"
  /\ \E x \in Recommendations[Event(r)] :
       IF x.kind = "error" THEN Abort(r, x.code)
       ELSE /\ result' = [result EXCEPT ![r] = x]
            /\ Goto(r, "code")
            /\ UNCHANGED <<engineVars, planVars, code>>

(* The result of the registered function has no field mitigation_steps.    *)
NoStepsField(r) ==
  /\ at[r] = "code"
  /\ result[r].kind = "recommendations"
  /\ Abort(r, "ACTION_EXECUTION_FAILED")

NoFeasiblePlan(r) ==
  /\ at[r] = "code"
  /\ result[r].kind = "steps"
  /\ result[r].steps = <<>>
  /\ Abort(r, "NO_FEASIBLE_MITIGATION")

(* 1001, or the first number above every code in use.                      *)
NextCodes ==
  {c \in {FirstCode} \union {d + 1 : d \in CodesInUse} :
     \A d \in CodesInUse : d < c}

ChooseCode(r) ==
  /\ at[r] = "code"
  /\ result[r].kind = "steps"
  /\ result[r].steps # <<>>
  /\ \E c \in NextCodes : code' = [code EXCEPT ![r] = c]
  /\ Goto(r, "insert")
  /\ UNCHANGED <<engineVars, planVars, result>>

(* The insert waits for an open transaction that has inserted the code.    *)
CodeFree(r) == \A s \in Requests \ {r} : ~HoldsCode(s, code[r])

(* Mutant of CodeTaken: the insert does not wait.                          *)
CodeTakenAtOnce(r) ==
  /\ at[r] = "insert"
  /\ code[r] \in CodesInUse \/ ~CodeFree(r)
  /\ Abort(r, "ACTION_EXECUTION_FAILED")

CodeTaken(r) ==
  /\ at[r] = "insert"
  /\ code[r] \in CodesInUse
  /\ Abort(r, "ACTION_EXECUTION_FAILED")

(* Mutant of InsertPlan: there is no unique index.                         *)
InsertPlanAnyway(r) ==
  /\ at[r] = "insert"
  /\ Goto(r, "steps")
  /\ UNCHANGED <<engineVars, planVars, result, code>>

InsertPlan(r) ==
  /\ at[r] = "insert"
  /\ code[r] \notin CodesInUse
  /\ CodeFree(r)
  /\ Goto(r, "steps")
  /\ UNCHANGED <<engineVars, planVars, result, code>>

-----------------------------------------------------------------------------
(* The steps, one after the other; the first that cannot be persisted ends *)
(* the handler.                                                            *)
StepRefusal(s) ==
  CASE s.type = "other"               -> "UNSUPPORTED_MITIGATION_STEP"
    [] s.type # "other" /\ ~s.complete -> "INVALID_MITIGATION_STEP"
    [] s.type = "prioritize_shipment" /\ s.complete
                                      -> "UNSUPPORTED_MITIGATION_STEP"
    [] s.type \in {"reallocate_inventory", "expedite_purchase_order"}
         /\ s.complete /\ ~s.valid    -> "INVALID_MITIGATION_STEP"
    [] OTHER                          -> "none"

(* The unique constraint on (plan, step_order).                            *)
Repeated(steps, i) == \E j \in 1..(i - 1) : steps[j].number = steps[i].number

StepError(steps, i) ==
  IF StepRefusal(steps[i]) # "none" THEN StepRefusal(steps[i])
  ELSE IF Repeated(steps, i) THEN "ACTION_EXECUTION_FAILED" ELSE "none"

BadSteps(steps) == {i \in DOMAIN steps : StepError(steps, i) # "none"}

StepRefused(r) ==
  /\ at[r] = "steps"
  /\ LET steps == result[r].steps
     IN \E i \in BadSteps(steps) :
          /\ \A j \in 1..(i - 1) : j \notin BadSteps(steps)
          /\ Abort(r, StepError(steps, i))

InsertSteps(r) ==
  /\ at[r] = "steps"
  /\ BadSteps(result[r].steps) = {}
  /\ Goto(r, "commit")
  /\ UNCHANGED <<engineVars, planVars, result, code>>

Draft(r) ==
  [status |-> "draft", code |-> code[r], event |-> Event(r),
   type |-> result[r].steps[1].type, steps |-> result[r].steps]

(* Mutant of GenerationAudit: the plan itself is not audited.              *)
StepsAudit(r) ==
  {[by |-> r, of |-> "step", number |-> result[r].steps[i].number] :
     i \in DOMAIN result[r].steps}

(* One audit row of every step and one of the plan.                        *)
GenerationAudit(r) ==
  StepsAudit(r)
    \union {[by |-> r, of |-> "plan", number |-> Len(result[r].steps)]}

ApplyGeneration(r) ==
  /\ at[r] = "commit"
  /\ plan' = [plan EXCEPT ![r] = Draft(r)]
  /\ audit' = audit \union GenerationAudit(r)
  /\ EndTransaction(r)
  /\ UNCHANGED code

-----------------------------------------------------------------------------
(* approve_mitigation_plan, as generations see it.                         *)
Targeted(r) == {p \in Made : plan[p].code = call[r].target}

ApprovalRefused(r) ==
  /\ at[r] = "approve"
  /\ \A p \in Targeted(r), s \in Requests : ~HoldsPlan(s, p)
  /\ \/ Targeted(r) = {} /\ Abort(r, "OBJECT_NOT_FOUND")
     \/ /\ \E p \in Targeted(r) : plan[p].status \notin AwaitingApproval
        /\ Abort(r, "INVALID_MITIGATION_PLAN_STATE")

LockForApproval(r) ==
  /\ at[r] = "approve"
  /\ \E p \in Targeted(r) :
       plan[p].status \in AwaitingApproval /\ \A s \in Requests : ~HoldsPlan(s, p)
  /\ Goto(r, "approving")
  /\ UNCHANGED <<engineVars, planVars, result, code>>

(* The child action, or anything around it, raises.                        *)
ApprovalFails(r) ==
  /\ at[r] = "approving"
  /\ \E error \in ErrorCodes : Abort(r, error)

ApplyApproval(r) ==
  /\ at[r] = "approving"
  /\ plan' = [p \in Requests |->
       IF p \in Targeted(r) THEN [plan[p] EXCEPT !.status = "approved"] ELSE plan[p]]
  /\ EndTransaction(r)
  /\ UNCHANGED <<audit, code>>

Apply(r) == ApplyGeneration(r) \/ ApplyApproval(r)

Commit(r) == HandlerCommits(r) /\ Apply(r)

-----------------------------------------------------------------------------
(* Faults.                                                                 *)
StatementFault(r) ==
  /\ HandlerFault(r)
  /\ effects' = effects
  /\ EndTransaction(r)
  /\ UNCHANGED <<planVars, code>>

CommitUnacknowledged(r) ==
  /\ HandlerFault(r)
  /\ effects' # effects
  /\ Apply(r)

Die ==
  /\ Crash
  /\ at' = [r \in Requests |-> "idle"]
  /\ result' = [r \in Requests |-> NoResult]
  /\ UNCHANGED <<planVars, code>>

-----------------------------------------------------------------------------
Generate(r) ==
  \/ EventNotFound(r) \/ EventClosed(r) \/ LockEvent(r)
  \/ ActivePlanExists(r) \/ NoActivePlan(r)
  \/ Recommend(r) \/ NoStepsField(r) \/ NoFeasiblePlan(r)
  \/ ChooseCode(r) \/ CodeTaken(r) \/ InsertPlan(r)
  \/ StepRefused(r) \/ InsertSteps(r)

Approve(r) == ApprovalRefused(r) \/ LockForApproval(r) \/ ApprovalFails(r)

Handle(r) == Generate(r) \/ Approve(r) \/ Commit(r)

Admit(r) == RefuseCall(r) \/ StartCall(r) \/ RepeatedId(r)

Finish(r) == Finishing(r) /\ UNCHANGED <<planVars, localVars>>

FaultOf(r) ==
  \/ StartFault(r) /\ UNCHANGED <<planVars, localVars>>
  \/ MarkFault(r) /\ UNCHANGED <<planVars, localVars>>
  \/ StatementFault(r)
  \/ CommitUnacknowledged(r)

Next == (\E r \in Requests : Admit(r) \/ Handle(r) \/ Finish(r) \/ FaultOf(r)) \/ Die

Safety == GenerationInit /\ [][Next]_vars

(* Threads go on.  No deadlock detector is needed.                         *)
GenerationFairness == \A r \in Requests : WF_vars(Handle(r) \/ Finish(r))
Spec == Safety /\ GenerationFairness

-----------------------------------------------------------------------------
PlanRow ==
  [status : {"draft", "approved"}, code : Nat, event : Events,
   type : {"reallocate_inventory", "expedite_purchase_order"}, steps : Seq(Step)]

(* Every variable stays in its range.                                      *)
GenerationTypeOK ==
  /\ EngineTypeOK
  /\ plan \in [Requests -> PlanRow \union {NoPlan}]
  /\ \A a \in audit : a.by \in Requests /\ a.of \in {"plan", "step"} /\ a.number \in Nat
  /\ at \in [Requests -> {"idle", "event", "approve", "approving"} \union PastEvent]
  /\ result \in [Requests -> Recommendation \union {NoResult}]
  /\ code \in [Requests -> Nat]

(* A risk event never has two plans that the code counts as active, drafts *)
(* among them (ACTIVE_PLAN_STATUSES), however many generations and         *)
(* approvals run at once: what the lock of the event is for.               *)
OneActivePlanPerEvent ==
  \A p, q \in Made :
    /\ plan[p].event = plan[q].event
    /\ plan[p].status \in ActiveStatuses
    /\ plan[q].status \in ActiveStatuses
    => p = q

(* Plans are numbered without gaps or repetitions in the order in which    *)
(* they are committed, although numbers are chosen from what was committed *)
(* earlier.                                                                *)
CodesHaveNoGaps ==
  /\ \A p, q \in Made : plan[p].code = plan[q].code => p = q
  /\ \A c \in CodesInUse : c = FirstCode \/ c - 1 \in CodesInUse

(* The plan of r has steps, all of them can be dispatched, and the audit   *)
(* rows of r are those of this plan and of each of its steps.              *)
IsWhole(r) ==
  /\ r \in effects
  /\ plan[r].steps # <<>>
  /\ BadSteps(plan[r].steps) = {}
  /\ {a \in audit : a.by = r} =
       {[by |-> r, of |-> "plan", number |-> Len(plan[r].steps)]} \union
       {[by |-> r, of |-> "step", number |-> plan[r].steps[i].number] :
          i \in DOMAIN plan[r].steps}

(* A generation leaves a plan with everything that was recommended and its *)
(* audit trail, or nothing at all.                                         *)
DraftsAreWhole ==
  /\ \A r \in Made : IsWhole(r)
  /\ \A a \in audit : a.by \in Made

(* All that can be recommended for the event can be stored, and no error   *)
(* of the function is the one by which a collision of codes is known.      *)
Storable(e) ==
  \A x \in Recommendations[e] :
    \/ x.kind = "steps" /\ BadSteps(x.steps) = {}
    \/ x.kind = "error" /\ x.code # "ACTION_EXECUTION_FAILED"

(* Where two generations choose one code, one of them keeps it: without a  *)
(* fault, a generation of what can be stored fails on its insert only      *)
(* because another one has made a plan of the code by then.                *)
CollisionHasAWinner ==
  \A r \in Requests :
    (/\ faults = 0
     /\ call[r].action = "generateMitigationPlan"
     /\ raised[r] = "ACTION_EXECUTION_FAILED"
     /\ Storable(Event(r))) =>
       \E s \in Made \ {r} : plan[s].code = code[r]

(* Every generation and approval that got a row is answered: the waits for *)
(* events, plans and codes never close to a circle.                        *)
CallIsAnswered ==
  \A r \in Requests : pc[r] = "running" ~> pc[r] = "done"

(* test_generate_mitigation_plan_route_persists_action_execution expects   *)
(* the plan of an open risk event with impacted orders to be persisted.    *)
RecommendationIsPersisted ==
  \A r \in Requests : raised[r] # "ACTION_EXECUTION_FAILED"

(* The actions document lets planners compare several drafts of one event. *)
(* So a generation is told of an active plan only where there is one that  *)
(* is more than a draft.  In the code a draft counts as active.            *)
SecondDraftIsAllowed ==
  \A r \in Requests :
    raised[r] = "ACTIVE_MITIGATION_PLAN_EXISTS" =>
      \E p \in ActivePlans(Event(r)) : plan[p].status # "draft"
==============================================================================
