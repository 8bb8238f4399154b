------------------------ MODULE PlanGeneration_proofs ------------------------
(*****************************************************************************)
(* Proofs about PlanGeneration, for any risk events, recommendations,        *)
(* deliveries and faults.                                                    *)
(*                                                                           *)
(* A generation that has locked its risk event knows that nobody else can    *)
(* make a plan for it, and from the search on that there is none; one that   *)
(* has inserted its code knows that no plan and no other generation has it.  *)
(* The code before its own is there because plans never go away.             *)
(*                                                                           *)
(* A generation told of a collision has lost it to a plan that is there:     *)
(* CollisionInv remembers, from the unique index to the answer, that the     *)
(* code was taken when the insert failed.                                    *)
(*****************************************************************************)
EXTENDS PlanGeneration, ActionEngine_proofs

Inserting == {"insert", "steps", "commit"}
Inserted == {"steps", "commit"}

(* A handler is at a statement exactly while its transaction is open.      *)
RunningGenerations == \A r \in Requests : at[r] = "idle" <=> pc[r] # "running"

(* What a generation knows from its own statements.                        *)
KnowsEvent(r) == at[r] \in PastEvent => Event(r) \in Events

KnowsNoPlan(r) ==
  at[r] \in PastEvent \ {"active"} => ActivePlans(Event(r)) = {}

KnowsResult(r) ==
  at[r] \in Inserting =>
    /\ result[r] \in [kind : {"steps"}, steps : Seq(Step)]
    /\ result[r].steps # <<>>

KnowsCode(r) ==
  /\ at[r] \in Inserting => code[r] = FirstCode \/ code[r] - 1 \in CodesInUse
  /\ at[r] \in Inserted => code[r] \notin CodesInUse

KnowsSteps(r) == at[r] = "commit" => BadSteps(result[r].steps) = {}

KnowsGeneration(r) ==
  /\ KnowsEvent(r)
  /\ KnowsNoPlan(r)
  /\ KnowsResult(r)
  /\ KnowsCode(r)
  /\ KnowsSteps(r)

(* What locks and the unique index keep apart.                             *)
EventsHeld ==
  \A r, s \in Requests :
    at[r] \in PastEvent /\ at[s] \in PastEvent /\ Event(r) = Event(s) => r = s

CodesHeld ==
  \A r, s \in Requests :
    at[r] \in Inserted /\ at[s] \in Inserted /\ code[r] = code[s] => r = s

PlansInv ==
  /\ OneActivePlanPerEvent
  /\ CodesHaveNoGaps
  /\ DraftsAreWhole

GenerationInv ==
  /\ EngineInv
  /\ GenerationTypeOK
  /\ RunningGenerations
  /\ \A r \in Requests : KnowsGeneration(r)
  /\ EventsHeld
  /\ CodesHeld
  /\ PlansInv

-----------------------------------------------------------------------------
(* Generation and approval run on the engine.                              *)
LEMMA AbortIsHandling ==
  ASSUME NEW r \in Requests, NEW error \in ErrorCodes, Abort(r, error)
  PROVE  Handling(r)
BY DEF Abort, Handling

(* The codes that the two handlers raise are codes of the engine.          *)
LEMMA StepErrorCode ==
  ASSUME NEW steps \in Seq(Step), NEW i \in BadSteps(steps)
  PROVE  StepError(steps, i) \in GenerationCodes
BY DEF BadSteps, StepError, StepRefusal, GenerationCodes

(* Every action of a handler is one of the engine, or invisible to it.     *)
LEMMA GenerateOnEngine ==
  ASSUME GenerationTypeOK, \A s \in Requests : KnowsGeneration(s),
         NEW r \in Requests, Generate(r)
  PROVE  Handling(r) \/ UNCHANGED engineVars
<1>1. CASE EventNotFound(r) \/ EventClosed(r) \/ ActivePlanExists(r)
  BY <1>1, AbortIsHandling, GenerationCodesAssumption
  DEF EventNotFound, EventClosed, ActivePlanExists, GenerationCodes
<1>2. CASE LockEvent(r) \/ NoActivePlan(r) \/ ChooseCode(r) \/ InsertPlan(r) \/ InsertSteps(r)
  BY <1>2 DEF LockEvent, NoActivePlan, ChooseCode, InsertPlan, InsertSteps
<1>3. CASE Recommend(r)
  <2>1. PICK x \in Recommendations[Event(r)] :
          IF x.kind = "error" THEN Abort(r, x.code) ELSE UNCHANGED engineVars
    BY <1>3 DEF Recommend
  <2>2. Event(r) \in Events
    BY <1>3 DEF Recommend, KnowsGeneration, KnowsEvent, PastEvent
  <2>3. x \in Recommendation
    BY <2>1, <2>2, RecommendationsAssumption
  <2>4. x.kind = "error" => x.code \in ErrorCodes
    BY <2>3 DEF Recommendation
  <2> QED
    BY <2>1, <2>4, AbortIsHandling
<1>4. CASE NoStepsField(r) \/ NoFeasiblePlan(r) \/ CodeTaken(r)
  BY <1>4, AbortIsHandling, GenerationCodesAssumption
  DEF NoStepsField, NoFeasiblePlan, CodeTaken, GenerationCodes
<1>5. CASE StepRefused(r)
  <2>1. result[r].steps \in Seq(Step)
    BY <1>5 DEF StepRefused, KnowsGeneration, KnowsResult, Inserting
  <2> QED
    BY <1>5, <2>1, StepErrorCode, AbortIsHandling, GenerationCodesAssumption
    DEF StepRefused
<1> QED
  BY <1>1, <1>2, <1>3, <1>4, <1>5 DEF Generate

(* The same of approvals.                                                  *)
LEMMA ApproveOnEngine ==
  ASSUME NEW r \in Requests, Approve(r)
  PROVE  Handling(r) \/ UNCHANGED engineVars
BY AbortIsHandling, GenerationCodesAssumption
DEF Approve, ApprovalRefused, LockForApproval, ApprovalFails, GenerationCodes

(* So every step is a step of the engine, or leaves it alone.              *)
LEMMA GenerationStepOnEngine ==
  ASSUME GenerationTypeOK, \A s \in Requests : KnowsGeneration(s), [Next]_vars
  PROVE  [EngineNext]_engineVars
<1>1. ASSUME NEW r \in Requests, Admit(r)
      PROVE  Admission(r)
  BY <1>1 DEF Admit, RefuseCall, StartCall, RepeatedId, Admission
<1>2. ASSUME NEW r \in Requests, Handle(r)
      PROVE  Handling(r) \/ UNCHANGED engineVars
  BY <1>2, GenerateOnEngine, ApproveOnEngine DEF Handle, Commit, Handling
<1>3. ASSUME NEW r \in Requests, Finish(r) \/ FaultOf(r)
      PROVE  Finishing(r) \/ Faulting(r)
  BY <1>3 DEF Finish, FaultOf, StatementFault, CommitUnacknowledged, Faulting
<1>4. CASE Die
  BY <1>4 DEF Die, EngineNext
<1>5. CASE UNCHANGED vars
  BY <1>5 DEF vars
<1> QED
  BY <1>1, <1>2, <1>3, <1>4, <1>5 DEF Next, EngineNext

-----------------------------------------------------------------------------
(* What a generation knows stays true while it stands still and no plan is *)
(* made.                                                                   *)
LEMMA KnowsStays ==
  ASSUME NEW r \in Requests, KnowsGeneration(r), UNCHANGED <<call, planVars>>,
         at'[r] = at[r], result'[r] = result[r], code'[r] = code[r]
  PROVE  KnowsGeneration(r)'
BY DEF KnowsGeneration, KnowsEvent, KnowsNoPlan, KnowsResult, KnowsCode, KnowsSteps,
       planVars, Event, ActivePlans, Made, CodesInUse

(* A handler at one of these statements knows nothing yet.                 *)
LEMMA IdleKnows ==
  ASSUME NEW r, at[r] \in {"idle", "event", "approve", "approving"}
  PROVE  KnowsGeneration(r)
BY DEF KnowsGeneration, KnowsEvent, KnowsNoPlan, KnowsResult, KnowsCode, KnowsSteps,
       PastEvent, Inserting, Inserted

(* A plan stays whole while its steps and audit rows are left alone.       *)
LEMMA WholeStays ==
  ASSUME NEW r, IsWhole(r), effects \subseteq effects', plan'[r].steps = plan[r].steps,
         {a \in audit' : a.by = r} = {a \in audit : a.by = r}
  PROVE  IsWhole(r)'
<1>1. r \in effects' /\ plan'[r].steps # <<>> /\ BadSteps(plan'[r].steps) = {}
  BY DEF IsWhole
<1>2. {a \in audit' : a.by = r} =
        {[by |-> r, of |-> "plan", number |-> Len(plan'[r].steps)]} \union
        {[by |-> r, of |-> "step", number |-> plan'[r].steps[i].number] :
           i \in DOMAIN plan'[r].steps}
  BY DEF IsWhole
<1> QED
  BY <1>1, <1>2 DEF IsWhole

(* Steps that write no table.                                              *)
LEMMA PlansStay ==
  ASSUME PlansInv, UNCHANGED <<call, planVars>>, effects \subseteq effects'
  PROVE  PlansInv'
<1>1. UNCHANGED plan /\ UNCHANGED audit
  BY DEF planVars
<1>2. UNCHANGED Made /\ UNCHANGED CodesInUse
  BY <1>1 DEF Made, CodesInUse
<1>3. OneActivePlanPerEvent' /\ CodesHaveNoGaps'
  BY <1>1, <1>2 DEF PlansInv, OneActivePlanPerEvent, CodesHaveNoGaps
<1>4. DraftsAreWhole'
  <2>1. ASSUME NEW r \in Made PROVE IsWhole(r)'
    BY <1>1, WholeStays DEF PlansInv, DraftsAreWhole
  <2> QED
    BY <1>1, <1>2, <2>1 DEF PlansInv, DraftsAreWhole
<1> QED
  BY <1>3, <1>4 DEF PlansInv

(* A step that makes no plan: one handler moves.                           *)
LEMMA LocalInv ==
  ASSUME GenerationInv, EngineInv', NEW r \in Requests,
         UNCHANGED <<call, planVars>>, effects \subseteq effects',
         at' \in [Requests -> {"idle", "event", "approve", "approving"} \union PastEvent],
         result' \in [Requests -> Recommendation \union {NoResult}],
         code' \in [Requests -> Nat],
         \A s \in Requests : s # r =>
           /\ at'[s] = at[s] /\ result'[s] = result[s] /\ code'[s] = code[s]
           /\ pc'[s] = pc[s],
         at'[r] = "idle" <=> pc'[r] # "running",
         KnowsGeneration(r)',
         at'[r] \in PastEvent => at[r] \in PastEvent \/ EventFree(r),
         at'[r] \in Inserted =>
           code'[r] = code[r] /\ (at[r] \in Inserted \/ CodeFree(r))
  PROVE  GenerationInv'
<1>1. GenerationTypeOK'
  BY DEF GenerationInv, GenerationTypeOK, EngineInv, planVars
<1>2. RunningGenerations'
  BY DEF GenerationInv, RunningGenerations
<1>3. \A s \in Requests : KnowsGeneration(s)'
  <2> TAKE s \in Requests
  <2> QED
    BY KnowsStays DEF GenerationInv
<1>4. EventsHeld'
  BY DEF GenerationInv, EventsHeld, EventFree, HoldsEvent, Event
<1>5. CodesHeld'
  BY DEF GenerationInv, CodesHeld, CodeFree, HoldsCode, Inserted
<1>6. PlansInv'
  BY PlansStay DEF GenerationInv
<1> QED
  BY <1>1, <1>2, <1>3, <1>4, <1>5, <1>6 DEF GenerationInv

(* A transaction rolls back.                                               *)
LEMMA GenerationRollback ==
  ASSUME GenerationInv, EngineInv', NEW r \in Requests,
         pc' = [pc EXCEPT ![r] = "failing"], EndTransaction(r),
         UNCHANGED <<call, effects, planVars, code>>
  PROVE  GenerationInv'
<1>1. GenerationTypeOK /\ EngineTypeOK
  BY DEF GenerationInv, EngineInv
<1>2. at'[r] = "idle" /\ pc'[r] = "failing"
  BY <1>1 DEF EndTransaction, Goto, GenerationTypeOK, EngineTypeOK
<1>3. KnowsGeneration(r)'
  BY <1>2 DEF KnowsGeneration, KnowsEvent, KnowsNoPlan, KnowsResult, KnowsCode,
              KnowsSteps, PastEvent, Inserting, Inserted
<1> QED
  BY <1>1, <1>2, <1>3, LocalInv
  DEF EndTransaction, Goto, GenerationTypeOK, EngineTypeOK, PastEvent, Inserted

(* An exception leaves the handler.                                        *)
LEMMA AbortInv ==
  ASSUME GenerationInv, EngineInv', NEW r \in Requests, NEW error, Abort(r, error)
  PROVE  GenerationInv'
BY GenerationRollback DEF Abort, HandlerRaises, Raise

(* The handler goes on to its next statement.                              *)
LEMMA GotoInv ==
  ASSUME GenerationInv, EngineInv', NEW r \in Requests, NEW next,
         at[r] # "idle",
         next \in {"approving"} \union PastEvent, Goto(r, next),
         UNCHANGED <<engineVars, planVars>>,
         result' \in [Requests -> Recommendation \union {NoResult}],
         code' \in [Requests -> Nat],
         \A s \in Requests : s # r => result'[s] = result[s] /\ code'[s] = code[s],
         KnowsGeneration(r)',
         next \in PastEvent => at[r] \in PastEvent \/ EventFree(r),
         next \in Inserted => code' = code /\ (at[r] \in Inserted \/ CodeFree(r))
  PROVE  GenerationInv'
<1>1. GenerationTypeOK /\ RunningGenerations
  BY DEF GenerationInv
<1>2. at'[r] = next
  BY <1>1 DEF Goto, GenerationTypeOK
<1>3. UNCHANGED <<call, effects, pc>>
  BY DEF engineVars
<1>4. at' \in [Requests -> {"idle", "event", "approve", "approving"} \union PastEvent]
  BY <1>1 DEF Goto, GenerationTypeOK
<1>5. \A s \in Requests : s # r => at'[s] = at[s]
  BY <1>1 DEF Goto, GenerationTypeOK
<1>6. at'[r] # "idle" /\ pc'[r] = "running"
  BY <1>1, <1>2, <1>3 DEF RunningGenerations, PastEvent
<1> QED
  BY <1>2, <1>3, <1>4, <1>5, <1>6, LocalInv

-----------------------------------------------------------------------------
(* The statements of a generation.                                         *)
LEMMA MadeAreActive ==
  ASSUME GenerationTypeOK, NEW e
  PROVE  ActivePlans(e) = {p \in Made : plan[p].event = e}
BY DEF GenerationTypeOK, ActivePlans, Made, ActiveStatuses, PlanRow

(* The codes in use are numbers.                                           *)
LEMMA CodesAreNat ==
  ASSUME GenerationTypeOK
  PROVE  CodesInUse \subseteq Nat
BY DEF GenerationTypeOK, CodesInUse, Made, PlanRow

(* The risk event is locked: no other generation for it is past its lock.  *)
LEMMA LockEventInv ==
  ASSUME GenerationInv, EngineInv', NEW r \in Requests, LockEvent(r)
  PROVE  GenerationInv'
<1>1. GenerationTypeOK
  BY DEF GenerationInv
<1>2. at'[r] = "active" /\ UNCHANGED call
  BY <1>1 DEF LockEvent, Goto, GenerationTypeOK, engineVars
<1>3. KnowsGeneration(r)'
  BY <1>2 DEF LockEvent, KnowsGeneration, KnowsEvent, KnowsNoPlan, KnowsResult,
              KnowsCode, KnowsSteps, Event, Inserting, Inserted
<1> QED
  BY <1>1, <1>3, GotoInv DEF LockEvent, GenerationTypeOK, PastEvent, Inserted

(* The search finds no plan, and none can be made meanwhile.               *)
LEMMA NoActivePlanInv ==
  ASSUME GenerationInv, EngineInv', NEW r \in Requests, NoActivePlan(r)
  PROVE  GenerationInv'
<1>1. GenerationTypeOK /\ KnowsEvent(r)
  BY DEF GenerationInv, KnowsGeneration
<1>2. at'[r] = "recommend" /\ UNCHANGED call /\ UNCHANGED plan
  BY <1>1 DEF NoActivePlan, Goto, GenerationTypeOK, engineVars, planVars
<1>3. KnowsGeneration(r)'
  BY <1>1, <1>2
  DEF NoActivePlan, KnowsGeneration, KnowsEvent, KnowsNoPlan, KnowsResult, KnowsCode,
      KnowsSteps, Event, ActivePlans, Made, Inserting, Inserted, PastEvent
<1> QED
  BY <1>1, <1>3, GotoInv DEF NoActivePlan, GenerationTypeOK, PastEvent, Inserted

(* The function raises, or leaves its result.                              *)
LEMMA RecommendInv ==
  ASSUME GenerationInv, EngineInv', NEW r \in Requests, Recommend(r)
  PROVE  GenerationInv'
<1>1. GenerationTypeOK /\ KnowsEvent(r) /\ KnowsNoPlan(r)
  BY DEF GenerationInv, KnowsGeneration
<1>2. PICK x \in Recommendations[Event(r)] :
        IF x.kind = "error" THEN Abort(r, x.code)
        ELSE /\ result' = [result EXCEPT ![r] = x]
             /\ Goto(r, "code")
             /\ UNCHANGED <<engineVars, planVars, code>>
  BY DEF Recommend
<1>3. CASE x.kind = "error"
  BY <1>2, <1>3, AbortInv
<1>4. CASE x.kind # "error"
  <2>1. at'[r] = "code" /\ UNCHANGED call /\ UNCHANGED plan
    BY <1>1, <1>2, <1>4 DEF Goto, GenerationTypeOK, engineVars, planVars
  <2>2. KnowsGeneration(r)'
    BY <1>1, <2>1
    DEF Recommend, KnowsGeneration, KnowsEvent, KnowsNoPlan, KnowsResult, KnowsCode,
        KnowsSteps, Event, ActivePlans, Made, Inserting, Inserted, PastEvent
  <2>3. result' \in [Requests -> Recommendation \union {NoResult}]
    <3>1. Event(r) \in Events
      BY <1>1 DEF Recommend, KnowsEvent, PastEvent
    <3>2. x \in Recommendation
      BY <1>2, <3>1, RecommendationsAssumption
    <3> QED
      BY <1>1, <1>2, <1>4, <3>2 DEF GenerationTypeOK
  <2> QED
    BY <1>1, <1>2, <1>4, <2>2, <2>3, GotoInv
    DEF Recommend, GenerationTypeOK, PastEvent, Inserted
<1> QED
  BY <1>3, <1>4

(* The code that is chosen is the first, or follows one in use.            *)
LEMMA NextCodeFollows ==
  ASSUME GenerationTypeOK, NEW c \in NextCodes
  PROVE  c \in Nat /\ (c = FirstCode \/ c - 1 \in CodesInUse)
BY CodesAreNat DEF NextCodes, FirstCode

(* The code is read from the plans committed so far.                       *)
LEMMA ChooseCodeInv ==
  ASSUME GenerationInv, EngineInv', NEW r \in Requests, ChooseCode(r)
  PROVE  GenerationInv'
<1>1. GenerationTypeOK /\ KnowsEvent(r) /\ KnowsNoPlan(r)
  BY DEF GenerationInv, KnowsGeneration
<1>2. PICK c \in NextCodes : code' = [code EXCEPT ![r] = c]
  BY DEF ChooseCode
<1>3. at'[r] = "insert" /\ UNCHANGED <<call, plan, result>> /\ code'[r] = c
  BY <1>1, <1>2 DEF ChooseCode, Goto, GenerationTypeOK, engineVars, planVars
<1>4. KnowsEvent(r)' /\ KnowsNoPlan(r)'
  BY <1>1, <1>3
  DEF ChooseCode, KnowsEvent, KnowsNoPlan, Event, ActivePlans, Made, PastEvent
<1>5. KnowsResult(r)'
  BY <1>1, <1>3 DEF ChooseCode, KnowsResult, GenerationTypeOK, Recommendation, NoResult
<1>6. KnowsCode(r)' /\ KnowsSteps(r)'
  BY <1>1, <1>3, NextCodeFollows
  DEF KnowsCode, KnowsSteps, CodesInUse, Made, Inserting, Inserted
<1>7. KnowsGeneration(r)'
  BY <1>4, <1>5, <1>6 DEF KnowsGeneration
<1>8. code' \in [Requests -> Nat] /\ \A s \in Requests : s # r => code'[s] = code[s]
  BY <1>1, <1>2, NextCodeFollows DEF GenerationTypeOK
<1> QED
  BY <1>1, <1>7, <1>8, GotoInv DEF ChooseCode, GenerationTypeOK, PastEvent, Inserted

(* The unique index lets the code in.                                      *)
LEMMA InsertPlanInv ==
  ASSUME GenerationInv, EngineInv', NEW r \in Requests, InsertPlan(r)
  PROVE  GenerationInv'
<1>1. GenerationTypeOK /\ KnowsGeneration(r)
  BY DEF GenerationInv
<1>2. at'[r] = "steps" /\ UNCHANGED <<call, plan, result, code>>
  BY <1>1 DEF InsertPlan, Goto, GenerationTypeOK, engineVars, planVars
<1>3. KnowsGeneration(r)'
  BY <1>1, <1>2
  DEF InsertPlan, KnowsGeneration, KnowsEvent, KnowsNoPlan, KnowsResult, KnowsCode,
      KnowsSteps, Event, ActivePlans, Made, CodesInUse, Inserting, Inserted, PastEvent
<1> QED
  BY <1>1, <1>3, GotoInv DEF InsertPlan, GenerationTypeOK, PastEvent, Inserted

(* All steps can be persisted.                                             *)
LEMMA InsertStepsInv ==
  ASSUME GenerationInv, EngineInv', NEW r \in Requests, InsertSteps(r)
  PROVE  GenerationInv'
<1>1. GenerationTypeOK /\ KnowsGeneration(r)
  BY DEF GenerationInv
<1>2. at'[r] = "commit" /\ UNCHANGED <<call, plan, result, code>>
  BY <1>1 DEF InsertSteps, Goto, GenerationTypeOK, engineVars, planVars
<1>3. KnowsGeneration(r)'
  BY <1>1, <1>2
  DEF InsertSteps, KnowsGeneration, KnowsEvent, KnowsNoPlan, KnowsResult, KnowsCode,
      KnowsSteps, Event, ActivePlans, Made, CodesInUse, Inserting, Inserted, PastEvent
<1> QED
  BY <1>1, <1>3, GotoInv DEF InsertSteps, GenerationTypeOK, PastEvent, Inserted

(* Every statement of a generation.                                        *)
LEMMA GenerateInv ==
  ASSUME GenerationInv, EngineInv', NEW r \in Requests, Generate(r)
  PROVE  GenerationInv'
<1>1. CASE EventNotFound(r) \/ EventClosed(r) \/ ActivePlanExists(r)
           \/ NoStepsField(r) \/ NoFeasiblePlan(r) \/ CodeTaken(r) \/ StepRefused(r)
  BY <1>1, AbortInv
  DEF EventNotFound, EventClosed, ActivePlanExists, NoStepsField, NoFeasiblePlan,
      CodeTaken, StepRefused
<1> QED
  BY <1>1, LockEventInv, NoActivePlanInv, RecommendInv, ChooseCodeInv, InsertPlanInv,
     InsertStepsInv
  DEF Generate

(* Every statement of an approval.                                         *)
LEMMA ApproveInv ==
  ASSUME GenerationInv, EngineInv', NEW r \in Requests, Approve(r)
  PROVE  GenerationInv'
<1>1. CASE ApprovalRefused(r) \/ ApprovalFails(r)
  BY <1>1, AbortInv DEF ApprovalRefused, ApprovalFails
<1>2. CASE LockForApproval(r)
  <2>1. GenerationTypeOK
    BY DEF GenerationInv
  <2>2. at'[r] = "approving"
    BY <1>2, <2>1 DEF LockForApproval, Goto, GenerationTypeOK
  <2>3. KnowsGeneration(r)'
    BY <2>2 DEF KnowsGeneration, KnowsEvent, KnowsNoPlan, KnowsResult, KnowsCode,
                KnowsSteps, PastEvent, Inserting, Inserted
  <2> QED
    BY <1>2, <2>1, <2>3, GotoInv
    DEF LockForApproval, GenerationTypeOK, PastEvent, Inserted
<1> QED
  BY <1>1, <1>2 DEF Approve

-----------------------------------------------------------------------------
(* The commit of a generation makes a plan of what was checked before.     *)
LEMMA PersistableType ==
  ASSUME NEW steps \in Seq(Step), steps # <<>>, BadSteps(steps) = {}
  PROVE  steps[1].type \in {"reallocate_inventory", "expedite_purchase_order"}
<1>1. 1 \in DOMAIN steps /\ steps[1] \in Step
  OBVIOUS
<1>2. StepRefusal(steps[1]) = "none"
  BY <1>1, StepError(steps, 1) = "none" DEF BadSteps, StepError
<1>3. steps[1].type \in StepTypes /\ steps[1].complete \in BOOLEAN
  BY <1>1 DEF Step
<1> QED
  BY <1>2, <1>3, Zenon DEF StepRefusal, StepTypes

(* What a generation commits is a plan.                                    *)
LEMMA DraftTyped ==
  ASSUME GenerationTypeOK, NEW r \in Requests, KnowsGeneration(r), at[r] = "commit"
  PROVE  Draft(r) \in PlanRow /\ Draft(r) # NoPlan
<1>1. result[r].steps \in Seq(Step) /\ result[r].steps # <<>>
  BY DEF KnowsGeneration, KnowsResult, Inserting
<1>2. result[r].steps[1].type \in {"reallocate_inventory", "expedite_purchase_order"}
  BY <1>1, PersistableType DEF KnowsGeneration, KnowsSteps
<1>3. Event(r) \in Events /\ code[r] \in Nat
  BY DEF KnowsGeneration, KnowsEvent, PastEvent, GenerationTypeOK
<1> QED
  BY <1>1, <1>2, <1>3 DEF Draft, PlanRow, NoPlan

(* The commit adds a plan for an event that has none, with a code that     *)
(* none has, and with its own audit rows.                                  *)
LEMMA ApplyGenerationInv ==
  ASSUME GenerationInv, EngineInv', NEW r \in Requests, ApplyGeneration(r),
         NEW c, c # "running", pc[r] = "running", pc' = [pc EXCEPT ![r] = c],
         effects' = effects \union {r}, UNCHANGED call
  PROVE  GenerationInv'
<1>1. /\ GenerationTypeOK /\ EngineTypeOK /\ KnowsGeneration(r) /\ PlansInv
      /\ EventsHeld /\ CodesHeld /\ Progress
  BY DEF GenerationInv, EngineInv
<1>2. r \notin Made /\ \A a \in audit : a.by # r
  BY <1>1 DEF Progress, PlansInv, DraftsAreWhole, IsWhole
<1>3. plan' = [plan EXCEPT ![r] = Draft(r)] /\ Draft(r) \in PlanRow /\ Draft(r) # NoPlan
  BY <1>1, DraftTyped DEF ApplyGeneration
<1>4. plan'[r] = Draft(r) /\ \A s \in Requests : s # r => plan'[s] = plan[s]
  BY <1>1, <1>3 DEF GenerationTypeOK
<1>5. Made' = Made \union {r}
  BY <1>3, <1>4 DEF Made
<1>6. CodesInUse' = CodesInUse \union {code[r]}
  BY <1>2, <1>4, <1>5 DEF CodesInUse, Draft, Made
<1>7. /\ at'[r] = "idle" /\ result'[r] = NoResult /\ UNCHANGED code
      /\ \A s \in Requests : s # r => at'[s] = at[s] /\ result'[s] = result[s]
  BY <1>1 DEF ApplyGeneration, EndTransaction, Goto, GenerationTypeOK
<1>8. audit' = audit \union GenerationAudit(r)
  BY DEF ApplyGeneration
<1>9. result[r].steps \in Seq(Step) /\ result[r].steps # <<>> /\ BadSteps(result[r].steps) = {}
  BY <1>1 DEF ApplyGeneration, KnowsGeneration, KnowsResult, KnowsSteps, Inserting
<1>10. GenerationTypeOK'
  <2>1. plan' \in [Requests -> PlanRow \union {NoPlan}]
    BY <1>1, <1>3 DEF GenerationTypeOK
  <2>2. \A i \in DOMAIN result[r].steps : result[r].steps[i].number \in Nat
    <3>1. \A i \in DOMAIN result[r].steps : result[r].steps[i] \in Step
      BY <1>9
    <3> QED
      BY <3>1 DEF Step
  <2>3. \A a \in audit' : a.by \in Requests /\ a.of \in {"plan", "step"} /\ a.number \in Nat
    BY <1>1, <1>8, <1>9, <2>2 DEF GenerationAudit, StepsAudit, GenerationTypeOK
  <2>4. /\ at' \in [Requests -> {"idle", "event", "approve", "approving"} \union PastEvent]
        /\ result' \in [Requests -> Recommendation \union {NoResult}]
        /\ code' \in [Requests -> Nat]
    BY <1>1, <1>7 DEF ApplyGeneration, EndTransaction, Goto, GenerationTypeOK
  <2> QED
    BY <2>1, <2>3, <2>4 DEF GenerationTypeOK, EngineInv
<1>11. RunningGenerations'
  BY <1>1, <1>7 DEF GenerationInv, RunningGenerations, EngineTypeOK
<1>12. ASSUME NEW s \in Requests
       PROVE  KnowsGeneration(s)'
  <2>1. CASE s = r
    BY <1>7, <2>1
    DEF KnowsGeneration, KnowsEvent, KnowsNoPlan, KnowsResult, KnowsCode, KnowsSteps,
        PastEvent, Inserting, Inserted
  <2>2. CASE s # r
    <3>1. KnowsGeneration(s)
      BY DEF GenerationInv
    <3>2. KnowsNoPlan(s)'
      <4>1. ASSUME at[s] \in PastEvent \ {"active"} PROVE Event(s) # Event(r)
        BY <1>1, <2>2, <4>1 DEF EventsHeld, ApplyGeneration, PastEvent
      <4> QED
        BY <1>4, <1>5, <1>7, <2>2, <3>1, <4>1
        DEF KnowsGeneration, KnowsNoPlan, ActivePlans, Draft, Event, Made
    <3>3. KnowsCode(s)'
      BY <1>1, <1>6, <1>7, <2>2, <3>1
      DEF KnowsGeneration, KnowsCode, CodesHeld, ApplyGeneration, Inserted, Inserting
    <3>4. KnowsEvent(s)' /\ KnowsResult(s)' /\ KnowsSteps(s)'
      BY <1>7, <2>2, <3>1 DEF KnowsGeneration, KnowsEvent, KnowsResult, KnowsSteps, Event
    <3> QED
      BY <3>2, <3>3, <3>4 DEF KnowsGeneration
  <2> QED
    BY <2>1, <2>2
<1>13. EventsHeld' /\ CodesHeld'
  BY <1>1, <1>7 DEF EventsHeld, CodesHeld, Event, PastEvent, Inserted
<1>14. OneActivePlanPerEvent'
  <2>1. \A p \in Made : plan[p].event # Event(r)
    BY <1>1, MadeAreActive DEF ApplyGeneration, KnowsGeneration, KnowsNoPlan, PastEvent
  <2> QED
    BY <1>1, <1>2, <1>4, <1>5, <2>1 DEF PlansInv, OneActivePlanPerEvent, Made, Draft
<1>15. CodesHaveNoGaps'
  <2>1. code[r] \notin CodesInUse /\ (code[r] = FirstCode \/ code[r] - 1 \in CodesInUse)
    BY <1>1 DEF ApplyGeneration, KnowsGeneration, KnowsCode, Inserting, Inserted
  <2>2. \A p \in Made : plan[p].code # code[r]
    BY <2>1 DEF CodesInUse
  <2>3. \A p, q \in Made' : plan'[p].code = plan'[q].code => p = q
    BY <1>1, <1>2, <1>4, <1>5, <2>2 DEF PlansInv, CodesHaveNoGaps, Made, Draft
  <2>4. \A d \in CodesInUse' : d = FirstCode \/ d - 1 \in CodesInUse'
    BY <1>1, <1>6, <2>1 DEF PlansInv, CodesHaveNoGaps
  <2> QED
    BY <2>3, <2>4 DEF CodesHaveNoGaps
<1>16. DraftsAreWhole'
  <2>1. IsWhole(r)'
    <3>1. {a \in audit' : a.by = r} = GenerationAudit(r)
      BY <1>2, <1>8 DEF GenerationAudit, StepsAudit
    <3>2. plan'[r].steps = result[r].steps
      BY <1>4 DEF Draft
    <3> QED
      BY <1>9, <3>1, <3>2 DEF IsWhole, GenerationAudit, StepsAudit
  <2>2. ASSUME NEW s \in Made PROVE IsWhole(s)'
    <3>1. s # r /\ s \in Requests /\ IsWhole(s)
      BY <1>1, <1>2 DEF Made, PlansInv, DraftsAreWhole
    <3>2. {a \in audit' : a.by = s} = {a \in audit : a.by = s}
      BY <1>8, <3>1 DEF GenerationAudit, StepsAudit
    <3> QED
      BY <1>4, <3>1, <3>2, WholeStays
  <2>3. \A a \in audit' : a.by \in Made'
    BY <1>1, <1>5, <1>8 DEF PlansInv, DraftsAreWhole, GenerationAudit, StepsAudit
  <2> QED
    BY <1>5, <2>1, <2>2, <2>3 DEF DraftsAreWhole
<1> QED
  BY <1>10, <1>11, <1>12, <1>13, <1>14, <1>15, <1>16 DEF GenerationInv, PlansInv

(* The commit of an approval changes the status of a plan and nothing else.*)
LEMMA ApplyApprovalInv ==
  ASSUME GenerationInv, EngineInv', NEW r \in Requests, ApplyApproval(r),
         NEW c, c # "running", pc[r] = "running", pc' = [pc EXCEPT ![r] = c],
         effects' = effects \union {r}, UNCHANGED call
  PROVE  GenerationInv'
<1>1. /\ GenerationTypeOK /\ EngineTypeOK /\ PlansInv /\ EventsHeld /\ CodesHeld
  BY DEF GenerationInv, EngineInv
<1>2. /\ at'[r] = "idle" /\ result'[r] = NoResult /\ UNCHANGED <<audit, code>>
      /\ \A s \in Requests : s # r => at'[s] = at[s] /\ result'[s] = result[s]
  BY <1>1 DEF ApplyApproval, EndTransaction, Goto, GenerationTypeOK
<1>3. \A s \in Made :
        /\ plan'[s] \in PlanRow
        /\ plan'[s].code = plan[s].code
        /\ plan'[s].event = plan[s].event
        /\ plan'[s].steps = plan[s].steps
  <2> SUFFICES ASSUME NEW s \in Made
               PROVE  /\ plan'[s] \in PlanRow
                      /\ plan'[s].code = plan[s].code
                      /\ plan'[s].event = plan[s].event
                      /\ plan'[s].steps = plan[s].steps
    OBVIOUS
  <2>1. plan[s] \in PlanRow
    BY <1>1 DEF Made, GenerationTypeOK
  <2>2. plan'[s] = plan[s] \/ plan'[s] = [plan[s] EXCEPT !.status = "approved"]
    BY DEF ApplyApproval, Made
  <2> QED
    BY <2>1, <2>2 DEF PlanRow
<1>4. \A s \in Requests \ Made : plan'[s] = NoPlan
  BY DEF ApplyApproval, Made, Targeted
<1>5. Made' = Made
  <2>1. \A s \in Made : plan'[s] # NoPlan
    BY <1>3 DEF PlanRow, NoPlan
  <2> QED
    BY <1>4, <2>1 DEF Made
<1>6. CodesInUse' = CodesInUse
  BY <1>3, <1>5 DEF CodesInUse
<1>7. GenerationTypeOK'
  <2>1. plan' = [s \in Requests |-> plan'[s]]
    BY DEF ApplyApproval
  <2>2. plan' \in [Requests -> PlanRow \union {NoPlan}]
    BY <1>3, <1>4, <2>1
  <2>3. /\ at' \in [Requests -> {"idle", "event", "approve", "approving"} \union PastEvent]
        /\ result' \in [Requests -> Recommendation \union {NoResult}]
    BY <1>1 DEF ApplyApproval, EndTransaction, Goto, GenerationTypeOK
  <2> QED
    BY <1>1, <1>2, <2>2, <2>3 DEF GenerationTypeOK, EngineInv
<1>8. RunningGenerations'
  BY <1>1, <1>2 DEF GenerationInv, RunningGenerations, EngineTypeOK
<1>9. \A s \in Requests : KnowsGeneration(s)'
  <2> TAKE s \in Requests
  <2>1. CASE s = r
    BY <1>2, <2>1
    DEF KnowsGeneration, KnowsEvent, KnowsNoPlan, KnowsResult, KnowsCode, KnowsSteps,
        PastEvent, Inserting, Inserted
  <2>2. CASE s # r
    <3>1. KnowsGeneration(s)
      BY DEF GenerationInv
    <3>2. KnowsNoPlan(s)'
      BY <1>1, <1>2, <1>3, <1>5, <2>2, <3>1, MadeAreActive
      DEF KnowsGeneration, KnowsNoPlan, ActivePlans, Event
    <3>3. KnowsEvent(s)' /\ KnowsResult(s)' /\ KnowsCode(s)' /\ KnowsSteps(s)'
      BY <1>2, <1>6, <2>2, <3>1
      DEF KnowsGeneration, KnowsEvent, KnowsResult, KnowsCode, KnowsSteps, Event
    <3> QED
      BY <3>2, <3>3 DEF KnowsGeneration
  <2> QED
    BY <2>1, <2>2
<1>10. EventsHeld' /\ CodesHeld'
  BY <1>1, <1>2 DEF EventsHeld, CodesHeld, Event, PastEvent, Inserted
<1>11. OneActivePlanPerEvent'
  <2>1. \A p \in Made : plan[p].status \in ActiveStatuses
    BY <1>1 DEF GenerationTypeOK, Made, PlanRow, ActiveStatuses
  <2> QED
    BY <1>1, <1>3, <1>5, <2>1 DEF PlansInv, OneActivePlanPerEvent
<1>12. CodesHaveNoGaps'
  BY <1>1, <1>3, <1>5, <1>6 DEF PlansInv, CodesHaveNoGaps
<1>13. DraftsAreWhole'
  <2>1. ASSUME NEW s \in Made PROVE IsWhole(s)'
    BY <1>1, <1>2, <1>3, WholeStays DEF PlansInv, DraftsAreWhole
  <2> QED
    BY <1>1, <1>2, <1>5, <2>1 DEF PlansInv, DraftsAreWhole
<1> QED
  BY <1>7, <1>8, <1>9, <1>10, <1>11, <1>12, <1>13 DEF GenerationInv, PlansInv

(* Any commit.                                                             *)
LEMMA ApplyInv ==
  ASSUME GenerationInv, EngineInv', NEW r \in Requests, Apply(r),
         NEW c, c # "running", pc[r] = "running", pc' = [pc EXCEPT ![r] = c],
         effects' = effects \union {r}, UNCHANGED call
  PROVE  GenerationInv'
BY ApplyGenerationInv, ApplyApprovalInv DEF Apply

-----------------------------------------------------------------------------
(* The engine moves a delivery and leaves the handlers alone.              *)
LEMMA EngineMoves ==
  ASSUME GenerationInv, EngineInv', NEW r \in Requests, NEW c,
         pc[r] # "running", c # "running", pc' = [pc EXCEPT ![r] = c],
         UNCHANGED <<call, effects>>, UNCHANGED <<planVars, localVars>>
  PROVE  GenerationInv'
<1>1. GenerationTypeOK /\ EngineTypeOK /\ RunningGenerations /\ KnowsGeneration(r)
  BY DEF GenerationInv, EngineInv
<1>2. UNCHANGED <<at, result, code>>
  BY DEF localVars
<1>3. KnowsGeneration(r)'
  BY <1>1, <1>2, KnowsStays
<1>4. at[r] = "idle" /\ pc'[r] = c /\ \A s \in Requests : s # r => pc'[s] = pc[s]
  BY <1>1 DEF RunningGenerations, EngineTypeOK
<1> QED
  BY <1>1, <1>2, <1>3, <1>4, LocalInv DEF GenerationTypeOK, PastEvent, Inserted

(* A call arrives.                                                         *)
LEMMA AdmitInv ==
  ASSUME GenerationInv, EngineInv', NEW r \in Requests, Admit(r)
  PROVE  GenerationInv'
<1>1. CASE RefuseCall(r) \/ RepeatedId(r)
  BY <1>1, EngineMoves DEF RefuseCall, RepeatedId, Refuse, StartDuplicate, Answer
<1>2. CASE StartCall(r)
  <2>1. GenerationTypeOK /\ EngineTypeOK
    BY DEF GenerationInv, EngineInv
  <2>2. at'[r] \in {"event", "approve"} /\ \A s \in Requests : s # r => at'[s] = at[s]
    BY <1>2, <2>1 DEF StartCall, Goto, GenerationTypeOK
  <2>3. at' \in [Requests -> {"idle", "event", "approve", "approving"} \union PastEvent]
    BY <1>2, <2>1 DEF StartCall, Goto, GenerationTypeOK
  <2>4. pc'[r] = "running" /\ \A s \in Requests : s # r => pc'[s] = pc[s]
    BY <1>2, <2>1 DEF StartCall, Start, EngineTypeOK
  <2>5. KnowsGeneration(r)'
    BY <2>2 DEF KnowsGeneration, KnowsEvent, KnowsNoPlan, KnowsResult, KnowsCode,
                KnowsSteps, PastEvent, Inserting, Inserted
  <2>6. UNCHANGED <<call, effects, planVars, result, code>>
    BY <1>2 DEF StartCall, Start
  <2> QED
    BY <2>1, <2>2, <2>3, <2>4, <2>5, <2>6, LocalInv
    DEF GenerationTypeOK, PastEvent, Inserted
<1> QED
  BY <1>1, <1>2 DEF Admit

(* The outcome is recorded.                                                *)
LEMMA GenerationFinishInv ==
  ASSUME GenerationInv, EngineInv', NEW r \in Requests, Finish(r)
  PROVE  GenerationInv'
BY EngineMoves
DEF Finish, Finishing, OutputRefused, MarkSucceeded, MarkFailed, Raise, Answer

(* The database fails somewhere in a delivery.                             *)
LEMMA FaultOfInv ==
  ASSUME GenerationInv, EngineInv', NEW r \in Requests, FaultOf(r)
  PROVE  GenerationInv'
<1>1. CASE (StartFault(r) \/ MarkFault(r)) /\ UNCHANGED <<planVars, localVars>>
  BY <1>1, EngineMoves DEF StartFault, MarkFault, Answer
<1>2. CASE StatementFault(r)
  BY <1>2, GenerationRollback DEF StatementFault, HandlerFault, Raise
<1>3. CASE CommitUnacknowledged(r)
  BY <1>3, ApplyInv DEF CommitUnacknowledged, HandlerFault, Raise
<1> QED
  BY <1>1, <1>2, <1>3 DEF FaultOf

(* A crash ends every transaction.                                         *)
LEMMA DieInv ==
  ASSUME GenerationInv, EngineInv', Die
  PROVE  GenerationInv'
<1>1. /\ GenerationTypeOK /\ EngineTypeOK /\ PlansInv
      /\ UNCHANGED <<call, effects, planVars, code>>
  BY DEF GenerationInv, EngineInv, Die, Crash
<1>2. \A r \in Requests : at'[r] = "idle" /\ result'[r] = NoResult /\ pc'[r] # "running"
  BY <1>1 DEF Die, Crash, InFlight
<1>3. GenerationTypeOK'
  BY <1>1 DEF GenerationTypeOK, EngineInv, Die, planVars
<1>4. RunningGenerations'
  BY <1>2 DEF RunningGenerations
<1>5. \A r \in Requests : KnowsGeneration(r)'
  BY <1>2 DEF KnowsGeneration, KnowsEvent, KnowsNoPlan, KnowsResult, KnowsCode,
              KnowsSteps, PastEvent, Inserting, Inserted
<1>6. EventsHeld' /\ CodesHeld'
  BY <1>2 DEF EventsHeld, CodesHeld, PastEvent, Inserted
<1> QED
  BY <1>1, <1>3, <1>4, <1>5, <1>6, PlansStay DEF GenerationInv

(* Nothing happens.                                                        *)
LEMMA IdleInv ==
  ASSUME GenerationInv, EngineInv', UNCHANGED vars
  PROVE  GenerationInv'
<1>1. UNCHANGED <<call, pc, effects, planVars, at, result, code>>
  BY DEF vars, engineVars, localVars
<1>2. GenerationTypeOK'
  BY <1>1 DEF GenerationInv, GenerationTypeOK, EngineInv, planVars
<1>3. RunningGenerations' /\ EventsHeld' /\ CodesHeld'
  BY <1>1 DEF GenerationInv, RunningGenerations, EventsHeld, CodesHeld, Event
<1>4. \A r \in Requests : KnowsGeneration(r)'
  BY <1>1, KnowsStays DEF GenerationInv
<1> QED
  BY <1>1, <1>2, <1>3, <1>4, PlansStay DEF GenerationInv

(* Every step preserves the invariant.                                     *)
LEMMA GenerationStepInv ==
  ASSUME GenerationInv, [Next]_vars
  PROVE  GenerationInv'
<1>1. EngineInv'
  <2>1. [EngineNext]_engineVars
    BY GenerationStepOnEngine DEF GenerationInv
  <2> QED
    BY <2>1, StepInv DEF GenerationInv
<1>2. ASSUME NEW r \in Requests, Commit(r)
      PROVE  GenerationInv'
  BY <1>1, <1>2, ApplyInv DEF Commit, HandlerCommits
<1> QED
  BY <1>1, <1>2, AdmitInv, GenerateInv, ApproveInv, GenerationFinishInv, FaultOfInv,
     DieInv, IdleInv
  DEF Next, Handle

(* The invariant holds before anything happens.                            *)
LEMMA GenerationInitInv == GenerationInit => GenerationInv
<1> SUFFICES ASSUME GenerationInit PROVE GenerationInv
  OBVIOUS
<1>1. EngineInv /\ EngineTypeOK
  BY InitInv DEF GenerationInit, EngineInv
<1>2. Made = {} /\ audit = {}
  BY DEF GenerationInit, Made
<1>3. \A r \in Requests : at[r] = "idle" /\ pc[r] = "new"
  BY DEF GenerationInit, EngineInit
<1>4. GenerationTypeOK
  BY <1>1 DEF GenerationInit, GenerationTypeOK
<1>5. RunningGenerations /\ \A r \in Requests : KnowsGeneration(r)
  BY <1>3, IdleKnows DEF RunningGenerations
<1>6. EventsHeld /\ CodesHeld
  BY <1>3 DEF EventsHeld, CodesHeld, PastEvent, Inserted
<1>7. PlansInv
  BY <1>2 DEF PlansInv, OneActivePlanPerEvent, CodesHaveNoGaps, DraftsAreWhole, CodesInUse
<1> QED
  BY <1>1, <1>4, <1>5, <1>6, <1>7 DEF GenerationInv

(* The inductive invariant holds throughout.                               *)
THEOREM GenerationInvariant == Safety => []GenerationInv
BY GenerationInitInv, GenerationStepInv, PTL DEF Safety

-----------------------------------------------------------------------------
(* Every variable stays in its range.                                      *)
THEOREM GenerationTyped == Safety => []GenerationTypeOK
<1>1. GenerationInv => GenerationTypeOK
  BY DEF GenerationInv
<1> QED
  BY <1>1, GenerationInvariant, PTL

(* The lock of the risk event and the search under it leave no event with  *)
(* two active plans.                                                       *)
THEOREM OneActivePlan == Safety => []OneActivePlanPerEvent
<1>1. GenerationInv => OneActivePlanPerEvent
  BY DEF GenerationInv, PlansInv
<1> QED
  BY <1>1, GenerationInvariant, PTL

(* Plans are numbered from 1001 without gaps and repetitions, by unlocked  *)
(* reads and a unique index.                                               *)
THEOREM CodesInOrder == Safety => []CodesHaveNoGaps
<1>1. GenerationInv => CodesHaveNoGaps
  BY DEF GenerationInv, PlansInv
<1> QED
  BY <1>1, GenerationInvariant, PTL

(* A generation leaves a whole plan with its audit trail, or nothing.      *)
THEOREM WholeDrafts == Safety => []DraftsAreWhole
<1>1. GenerationInv => DraftsAreWhole
  BY DEF GenerationInv, PlansInv
<1> QED
  BY <1>1, GenerationInvariant, PTL
-----------------------------------------------------------------------------
(* A generation that fails on its insert has met the plan that has its code*)
HasWinner(r) ==
  (/\ faults = 0
   /\ call[r].action = "generateMitigationPlan"
   /\ raised[r] = "ACTION_EXECUTION_FAILED"
   /\ Storable(Event(r))) =>
     \E s \in Made \ {r} : plan[s].code = code[r]

CollisionKnown(r) ==
  /\ at[r] \in {"approve", "approving"} => call[r].action # "generateMitigationPlan"
  /\ at[r] \in {"code"} \union Inserting => result[r] \in Recommendations[Event(r)]
  /\ HasWinner(r)

CollisionInv == \A r \in Requests : CollisionKnown(r)

Moving(r) == Admit(r) \/ Handle(r) \/ Finish(r) \/ FaultOf(r)

(* Plans never go away and keep their codes.                               *)
LEMMA PlansStand ==
  ASSUME GenerationInv, [Next]_vars
  PROVE  \A s \in Made : s \in Made' /\ plan'[s].code = plan[s].code
<1> SUFFICES ASSUME NEW s \in Made PROVE s \in Made' /\ plan'[s].code = plan[s].code
  OBVIOUS
<1>1. s \in Requests /\ plan[s] \in PlanRow /\ plan[s] # NoPlan
  BY DEF Made, GenerationInv, GenerationTypeOK
<1>2. CASE plan' = plan
  BY <1>2 DEF Made
<1>3. ASSUME NEW q \in Requests, pc[q] = "running", ApplyGeneration(q)
      PROVE  s \in Made' /\ plan'[s].code = plan[s].code
  <2>1. q \notin Made
    BY <1>3 DEF GenerationInv, EngineInv, Progress, PlansInv, DraftsAreWhole, IsWhole
  <2> QED
    BY <1>1, <1>3, <2>1 DEF ApplyGeneration, Made, GenerationInv, GenerationTypeOK
<1>4. ASSUME NEW q \in Requests, ApplyApproval(q)
      PROVE  s \in Made' /\ plan'[s].code = plan[s].code
  <2>1. plan'[s] = plan[s] \/ plan'[s] = [plan[s] EXCEPT !.status = "approved"]
    BY <1>1, <1>4 DEF ApplyApproval
  <2>2. plan'[s] \in PlanRow /\ plan'[s].code = plan[s].code
    BY <1>1, <2>1 DEF PlanRow
  <2> QED
    BY <1>1, <2>2 DEF Made, PlanRow, NoPlan
<1>5. ASSUME NEW q \in Requests, Commit(q) \/ CommitUnacknowledged(q)
      PROVE  pc[q] = "running" /\ (ApplyGeneration(q) \/ ApplyApproval(q))
  BY <1>5 DEF Commit, CommitUnacknowledged, HandlerCommits, HandlerFault, Apply
<1>6. ASSUME NEW q \in Requests, Generate(q) PROVE plan' = plan
  BY <1>6 DEF Generate, EventNotFound, EventClosed, LockEvent, ActivePlanExists, NoActivePlan,
              Recommend, NoStepsField, NoFeasiblePlan, ChooseCode, CodeTaken, InsertPlan,
              StepRefused, InsertSteps, Abort, planVars
<1>7. ASSUME NEW q \in Requests, Approve(q) \/ Admit(q) \/ Finish(q) PROVE plan' = plan
  BY <1>7 DEF Approve, ApprovalRefused, LockForApproval, ApprovalFails, Abort, Admit,
              RefuseCall, StartCall, RepeatedId, Finish, planVars
<1>8. CASE Die \/ UNCHANGED vars
  BY <1>2, <1>8 DEF Die, vars, planVars
<1>9. ASSUME NEW q \in Requests, FaultOf(q), ~CommitUnacknowledged(q) PROVE plan' = plan
  BY <1>9 DEF FaultOf, StatementFault, planVars
<1> QED
  BY <1>2, <1>3, <1>4, <1>5, <1>6, <1>7, <1>8, <1>9 DEF Next, Handle

(* No fault is forgotten.                                                  *)
LEMMA FaultsAreCounted ==
  ASSUME EngineTypeOK, [EngineNext]_engineVars
  PROVE  faults' = 0 => faults = 0
<1>1. CASE UNCHANGED faults
  BY <1>1
<1>2. ASSUME NEW kind, Fault(kind) PROVE faults' # 0
  BY <1>2 DEF Fault, EngineTypeOK
<1>3. ASSUME NEW r \in Requests, Admission(r) \/ Handling(r) \/ Finishing(r)
      PROVE  UNCHANGED faults
  BY <1>3 DEF Admission, Refuse, Start, StartDuplicate, Handling, HandlerCommits, HandlerRaises,
              Finishing, OutputRefused, MarkSucceeded, MarkFailed
<1>4. ASSUME NEW r \in Requests, Faulting(r) PROVE faults' # 0
  BY <1>2, <1>4 DEF Faulting, StartFault, HandlerFault, MarkFault
<1> QED
  BY <1>1, <1>2, <1>3, <1>4 DEF EngineNext, Crash, engineVars

(* A delivery moves alone, except in a crash.                              *)
LEMMA OthersStand ==
  ASSUME GenerationInv, NEW q \in Requests, Moving(q), NEW r \in Requests \ {q}
  PROVE  /\ call'[r] = call[r] /\ raised'[r] = raised[r]
         /\ at'[r] = at[r] /\ result'[r] = result[r] /\ code'[r] = code[r]
<1>1. GenerationTypeOK /\ EngineTypeOK
  BY DEF GenerationInv, EngineInv
<1>2. \A error : Abort(q, error) =>
        /\ call'[r] = call[r] /\ raised'[r] = raised[r]
        /\ at'[r] = at[r] /\ result'[r] = result[r] /\ code'[r] = code[r]
  BY <1>1 DEF Abort, HandlerRaises, Raise, EndTransaction, Goto, GenerationTypeOK, EngineTypeOK
<1>3. CASE Admit(q)
  BY <1>1, <1>3 DEF Admit, RefuseCall, StartCall, RepeatedId, Refuse, Start, StartDuplicate,
                    Goto, localVars, GenerationTypeOK
<1>4. CASE Generate(q)
  <2>1. CASE LockEvent(q) \/ NoActivePlan(q) \/ ChooseCode(q) \/ InsertPlan(q) \/ InsertSteps(q)
    BY <1>1, <2>1 DEF LockEvent, NoActivePlan, ChooseCode, InsertPlan, InsertSteps, Goto,
                      engineVars, GenerationTypeOK
  <2>2. CASE Recommend(q)
    BY <1>1, <1>2, <2>2 DEF Recommend, Goto, engineVars, GenerationTypeOK
  <2>3. CASE EventNotFound(q) \/ EventClosed(q) \/ ActivePlanExists(q) \/ NoStepsField(q)
             \/ NoFeasiblePlan(q) \/ CodeTaken(q) \/ StepRefused(q)
    BY <1>2, <2>3 DEF EventNotFound, EventClosed, ActivePlanExists, NoStepsField,
                      NoFeasiblePlan, CodeTaken, StepRefused
  <2> QED
    BY <1>4, <2>1, <2>2, <2>3 DEF Generate
<1>5. CASE Approve(q)
  <2>1. CASE LockForApproval(q)
    BY <1>1, <2>1 DEF LockForApproval, Goto, engineVars, GenerationTypeOK
  <2> QED
    BY <1>2, <1>5, <2>1 DEF Approve, ApprovalRefused, ApprovalFails
<1>6. CASE Commit(q)
  BY <1>1, <1>6 DEF Commit, HandlerCommits, Apply, ApplyGeneration, ApplyApproval,
                    EndTransaction, Goto, GenerationTypeOK
<1>7. CASE Finish(q)
  BY <1>1, <1>7, GenerationConformingAssumption
  DEF Finish, Finishing, OutputRefused, MarkSucceeded, MarkFailed, localVars
<1>8. CASE FaultOf(q)
  <2>1. CASE (StartFault(q) \/ MarkFault(q)) /\ UNCHANGED <<planVars, localVars>>
    BY <2>1 DEF StartFault, MarkFault, localVars
  <2>2. CASE StatementFault(q) \/ CommitUnacknowledged(q)
    BY <1>1, <2>2 DEF StatementFault, CommitUnacknowledged, HandlerFault, Raise, Apply,
                      ApplyGeneration, ApplyApproval, EndTransaction, Goto,
                      GenerationTypeOK, EngineTypeOK
  <2> QED
    BY <1>8, <2>1, <2>2 DEF FaultOf
<1> QED
  BY <1>3, <1>4, <1>5, <1>6, <1>7, <1>8 DEF Moving, Handle

(* What a delivery itself makes of it.  Only the insert can fail with the  *)
(* code of an unexpected error.                                            *)
LEMMA AbortCollides ==
  ASSUME GenerationInv, NEW r \in Requests, NEW error, Abort(r, error),
         \/ error # "ACTION_EXECUTION_FAILED"
         \/ call[r].action # "generateMitigationPlan"
         \/ code[r] \in CodesInUse
         \/ ~Storable(Event(r))
  PROVE  CollisionKnown(r)'
<1>1. GenerationTypeOK /\ EngineTypeOK /\ Progress
  BY DEF GenerationInv, EngineInv
<1>2. /\ at'[r] = "idle" /\ raised'[r] = error
      /\ UNCHANGED <<call, plan, code>> /\ pc[r] = "running"
  BY <1>1 DEF Abort, HandlerRaises, Raise, EndTransaction, Goto, GenerationTypeOK, EngineTypeOK,
              planVars
<1>3. r \notin Made
  BY <1>1, <1>2 DEF GenerationInv, Progress, PlansInv, DraftsAreWhole, IsWhole
<1>4. HasWinner(r)'
  BY <1>2, <1>3 DEF HasWinner, CodesInUse, Made, Event
<1> QED
  BY <1>2, <1>4 DEF CollisionKnown, Inserting

LEMMA GenerateCollides ==
  ASSUME GenerationInv, NEW r \in Requests, CollisionKnown(r), Generate(r)
  PROVE  CollisionKnown(r)'
<1>1. GenerationTypeOK /\ EngineTypeOK /\ Progress
  BY DEF GenerationInv, EngineInv
<1>2. at[r] # "idle" /\ pc[r] = "running" /\ raised[r] = "none"
  <2>1. at[r] # "idle"
    BY DEF Generate, EventNotFound, EventClosed, LockEvent, ActivePlanExists, NoActivePlan,
           Recommend, NoStepsField, NoFeasiblePlan, ChooseCode, CodeTaken, InsertPlan,
           StepRefused, InsertSteps
  <2> QED
    BY <1>1, <2>1 DEF GenerationInv, RunningGenerations, Progress
<1>3. CASE EventNotFound(r) \/ EventClosed(r) \/ ActivePlanExists(r) \/ NoFeasiblePlan(r)
  BY <1>3, AbortCollides DEF EventNotFound, EventClosed, ActivePlanExists, NoFeasiblePlan
<1>4. CASE CodeTaken(r)
  BY <1>4, AbortCollides DEF CodeTaken
<1>5. CASE NoStepsField(r) \/ StepRefused(r)
  <2>1. result[r] \in Recommendations[Event(r)]
    BY <1>5 DEF CollisionKnown, NoStepsField, StepRefused, Inserting
  <2>2. Storable(Event(r)) =>
          result[r].kind = "steps" /\ BadSteps(result[r].steps) = {}
    <3>1. at[r] = "steps" => result[r].kind = "steps"
      BY DEF GenerationInv, KnowsGeneration, KnowsResult, Inserting
    <3>2. result[r].kind # "error"
      BY <1>5, <3>1 DEF NoStepsField, StepRefused
    <3> QED
      BY <2>1, <3>2 DEF Storable
  <2>3. Storable(Event(r)) => FALSE
    BY <1>5, <2>2 DEF NoStepsField, StepRefused
  <2> QED
    BY <1>5, <2>3, AbortCollides DEF NoStepsField, StepRefused
<1>6. CASE LockEvent(r) \/ NoActivePlan(r) \/ ChooseCode(r) \/ InsertPlan(r) \/ InsertSteps(r)
  <2>1. /\ at'[r] \in {"active", "recommend"} \union Inserting
        /\ at'[r] \in Inserting => at[r] \in {"code"} \union Inserting
        /\ UNCHANGED <<raised, call, result>>
    BY <1>1, <1>6 DEF LockEvent, NoActivePlan, ChooseCode, InsertPlan, InsertSteps, Goto,
                      engineVars, GenerationTypeOK, Inserting
  <2> QED
    BY <1>2, <2>1 DEF CollisionKnown, HasWinner, Inserting, Event
<1>7. CASE Recommend(r)
  <2>1. PICK x \in Recommendations[Event(r)] :
          IF x.kind = "error" THEN Abort(r, x.code)
          ELSE /\ result' = [result EXCEPT ![r] = x]
               /\ Goto(r, "code")
               /\ UNCHANGED <<engineVars, planVars, code>>
    BY <1>7 DEF Recommend
  <2>2. CASE x.kind = "error"
    BY <2>1, <2>2, AbortCollides DEF Storable
  <2>3. CASE x.kind # "error"
    <3>1. result'[r] = x /\ at'[r] = "code" /\ UNCHANGED <<raised, call>>
      BY <1>1, <2>1, <2>3 DEF Goto, GenerationTypeOK, engineVars
    <3> QED
      BY <1>2, <2>1, <3>1 DEF CollisionKnown, HasWinner, Event
  <2> QED
    BY <2>2, <2>3
<1> QED
  BY <1>3, <1>4, <1>5, <1>6, <1>7 DEF Generate

LEMMA ApproveCollides ==
  ASSUME GenerationInv, NEW r \in Requests, CollisionKnown(r), Approve(r)
  PROVE  CollisionKnown(r)'
<1>1. GenerationTypeOK /\ EngineTypeOK /\ Progress
  BY DEF GenerationInv, EngineInv
<1>2. call[r].action # "generateMitigationPlan"
  BY DEF Approve, ApprovalRefused, LockForApproval, ApprovalFails, CollisionKnown
<1>3. CASE LockForApproval(r)
  <2>1. at'[r] = "approving" /\ UNCHANGED call
    BY <1>1, <1>3 DEF LockForApproval, Goto, GenerationTypeOK, engineVars
  <2> QED
    BY <1>2, <2>1 DEF CollisionKnown, HasWinner, Inserting
<1>4. CASE ApprovalRefused(r) \/ ApprovalFails(r)
  BY <1>2, <1>4, AbortCollides DEF ApprovalRefused, ApprovalFails
<1> QED
  BY <1>3, <1>4 DEF Approve

LEMMA OthersCollide ==
  ASSUME GenerationInv, [Next]_vars, NEW r \in Requests, CollisionKnown(r),
         Admit(r) \/ Commit(r) \/ Finish(r) \/ FaultOf(r)
  PROVE  CollisionKnown(r)'
<1>1. GenerationTypeOK /\ EngineTypeOK /\ Progress
  BY DEF GenerationInv, EngineInv
<1>2. CASE Admit(r)
  <2>1. at[r] = "idle" /\ raised[r] = "none" /\ UNCHANGED <<raised, call>>
    BY <1>1, <1>2 DEF Admit, RefuseCall, StartCall, RepeatedId, Refuse, Start, StartDuplicate,
                      GenerationInv, RunningGenerations, Progress
  <2>2. \/ at'[r] = at[r]
        \/ at'[r] = IF call[r].action = "generateMitigationPlan" THEN "event" ELSE "approve"
    BY <1>1, <1>2 DEF Admit, RefuseCall, StartCall, RepeatedId, Goto, localVars, GenerationTypeOK
  <2> QED
    BY <2>1, <2>2 DEF CollisionKnown, HasWinner, Inserting
<1>3. CASE Commit(r)
  <2>1. at'[r] = "idle" /\ raised[r] = "none" /\ UNCHANGED raised
    BY <1>1, <1>3 DEF Commit, HandlerCommits, Apply, ApplyGeneration, ApplyApproval,
                      EndTransaction, Goto, GenerationTypeOK, Progress
  <2> QED
    BY <2>1 DEF CollisionKnown, HasWinner, Inserting
<1>4. CASE Finish(r)
  <2>1. UNCHANGED <<call, faults, plan, at, result, code, raised>>
    BY <1>4, GenerationConformingAssumption
    DEF Finish, Finishing, OutputRefused, MarkSucceeded, MarkFailed, localVars, planVars
  <2> QED
    BY <2>1 DEF CollisionKnown, HasWinner, Made, Event
<1>5. CASE FaultOf(r)
  <2>1. faults' # 0
    BY <1>1, <1>5 DEF FaultOf, StartFault, MarkFault, StatementFault, CommitUnacknowledged,
                      HandlerFault, Fault, EngineTypeOK
  <2>2. at'[r] = "idle"
    <3>1. CASE (StartFault(r) \/ MarkFault(r)) /\ UNCHANGED localVars
      BY <3>1 DEF StartFault, MarkFault, localVars, GenerationInv, RunningGenerations
    <3>2. CASE StatementFault(r) \/ CommitUnacknowledged(r)
      BY <1>1, <3>2 DEF StatementFault, CommitUnacknowledged, Apply, ApplyGeneration,
                        ApplyApproval, EndTransaction, Goto, GenerationTypeOK
    <3> QED
      BY <1>5, <3>1, <3>2 DEF FaultOf
  <2> QED
    BY <2>1, <2>2 DEF CollisionKnown, HasWinner, Inserting
<1> QED
  BY <1>2, <1>3, <1>4, <1>5

LEMMA CollisionStep ==
  ASSUME GenerationInv, CollisionInv, [Next]_vars
  PROVE  CollisionInv'
<1> SUFFICES ASSUME NEW r \in Requests PROVE CollisionKnown(r)'
  BY DEF CollisionInv
<1>1. CollisionKnown(r) /\ GenerationTypeOK /\ EngineTypeOK
  BY DEF CollisionInv, GenerationInv, EngineInv
<1>2. CASE Moving(r)
  BY <1>1, <1>2, GenerateCollides, ApproveCollides, OthersCollide DEF Moving, Handle
<1>3. ASSUME NEW q \in Requests \ {r}, Moving(q) PROVE CollisionKnown(r)'
  <2>1. /\ call'[r] = call[r] /\ raised'[r] = raised[r]
        /\ at'[r] = at[r] /\ result'[r] = result[r] /\ code'[r] = code[r]
    BY <1>3, OthersStand
  <2>2. faults' = 0 => faults = 0
    <3>1. [EngineNext]_engineVars
      BY GenerationStepOnEngine DEF GenerationInv
    <3> QED
      BY <1>1, <3>1, FaultsAreCounted
  <2> QED
    BY <1>1, <2>1, <2>2, PlansStand DEF CollisionKnown, HasWinner, Event
<1>4. CASE Die
  <2>1. faults' # 0 /\ at'[r] = "idle"
    BY <1>1, <1>4 DEF Die, Crash, Fault, EngineTypeOK
  <2> QED
    BY <2>1 DEF CollisionKnown, HasWinner, Inserting
<1>5. CASE UNCHANGED vars
  BY <1>1, <1>5
  DEF vars, engineVars, planVars, localVars, CollisionKnown, HasWinner, Made, Event
<1> QED
  BY <1>2, <1>3, <1>4, <1>5 DEF Next, Moving

(* However many generations choose one code at once, one of them keeps it: *)
(* without a fault, a generation of what can be stored that fails on its   *)
(* insert has lost to a plan that is there.                                *)
THEOREM CollisionsHaveAWinner == Safety => []CollisionHasAWinner
<1>1. GenerationInit => CollisionInv
  BY DEF GenerationInit, EngineInit, CollisionInv, CollisionKnown, HasWinner, Inserting
<1>2. GenerationInv /\ CollisionInv /\ [Next]_vars => CollisionInv'
  BY CollisionStep
<1>3. CollisionInv => CollisionHasAWinner
  BY DEF CollisionInv, CollisionKnown, HasWinner, CollisionHasAWinner
<1> QED
  BY <1>1, <1>2, <1>3, GenerationInvariant, PTL DEF Safety
==============================================================================
