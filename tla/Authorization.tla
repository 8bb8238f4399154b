---------------------------- MODULE Authorization ----------------------------
(***************************************************************************)
(* Who may execute which action: AuthorizationService.authorize over the   *)
(* action policies of ontology/ontology.yaml.                              *)
(*                                                                         *)
(* An actor is a record with fields type, roles (a set: only obligations,  *)
(* which no action policy has, depend on their order) and source.  A       *)
(* context is what the engine vouches for: nothing for a call from         *)
(* outside, the parent action for a child action.  An empty actor id, an   *)
(* unknown resource and a missing policy cannot occur here: ActorContext   *)
(* refuses the first, and the engine looks the action up before it asks.   *)
(***************************************************************************)

Roles == {"Viewer", "Planner", "OperationsManager", "Admin", "AIAgent"}
ActorTypes == {"human", "ai_agent", "service"}
Sources == {"web_app", "api", "mcp", "ai_workflow", "background_job", "internal"}

ActorContext == [type : ActorTypes, roles : SUBSET Roles, source : Sources]

Policy(roles, types, sources, parents) ==
  [roles |-> roles, types |-> types, sources |-> sources, parents |-> parents]

(* A policy with parents is one with requireInternalDispatch: true.        *)
ChildPolicy ==
  Policy({"OperationsManager", "Admin"}, {"human", "service"}, {"internal"},
         {"approveMitigationPlan"})

ActionPolicy ==
  [createRiskEvent |->
     Policy({"Planner", "OperationsManager", "Admin"}, {"human", "service"},
            {"web_app", "api", "internal"}, {}),
   generateMitigationPlan |->
     Policy({"Planner", "Admin", "AIAgent"}, ActorTypes,
            Sources \ {"background_job"}, {}),
   approveMitigationPlan |->
     Policy({"OperationsManager", "Admin"}, {"human", "service"},
            {"web_app", "api", "internal"}, {}),
   reallocateInventory |-> ChildPolicy,
   expeditePurchaseOrder |-> ChildPolicy]

Actions == DOMAIN ActionPolicy

(* The trusted context of a call from outside, and of a child action.      *)
External == [internal |-> FALSE, parent |-> "none"]
ChildOf(action) == [internal |-> TRUE, parent |-> action]

(* Mutant of EffectiveRoles: an AI agent keeps every role it claims.       *)
ClaimedRoles(actor) == actor.roles

(* An AI agent has no role but AIAgent, whatever its token says.           *)
EffectiveRoles(actor) ==
  IF actor.type = "ai_agent" THEN actor.roles \cap {"AIAgent"} ELSE actor.roles

(* Mutant of DispatchReason: the parent action is not looked at.           *)
DispatchReasonAnyParent(policy, context) ==
  IF policy.parents # {} /\ ~context.internal
  THEN "INTERNAL_DISPATCH_REQUIRED" ELSE "ALLOWED"

DispatchReason(policy, context) ==
  IF policy.parents = {} THEN "ALLOWED"
  ELSE IF ~context.internal THEN "INTERNAL_DISPATCH_REQUIRED"
  ELSE IF context.parent \notin policy.parents THEN "INVALID_INTERNAL_DISPATCH"
  ELSE "ALLOWED"

(* The checks in the order of the code: the first that fails is the reason *)
Reason(actor, action, context) ==
  LET policy == ActionPolicy[action]
  IN IF actor.type \notin policy.types THEN "ACTOR_TYPE_NOT_ALLOWED"
     ELSE IF actor.source \notin policy.sources
       THEN "INVOCATION_SOURCE_NOT_ALLOWED"
     ELSE IF EffectiveRoles(actor) \cap policy.roles = {} THEN "ROLE_NOT_ALLOWED"
     ELSE DispatchReason(policy, context)

Permitted(actor, action, context) == Reason(actor, action, context) = "ALLOWED"
==============================================================================
