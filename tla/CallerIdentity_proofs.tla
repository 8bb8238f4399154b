------------------------ MODULE CallerIdentity_proofs -------------------------
(*****************************************************************************)
(* For every credential, site and ontology: people and agents come out       *)
(* apart, no policy in force has a rival, an agent only drafts, and what     *)
(* changes the company's data has gone through an approval rule.             *)
(*                                                                           *)
(* ActionInv ties an action that has been dispatched to the policy and the   *)
(* rule that let it, at the time it was decided.                             *)
(*****************************************************************************)
EXTENDS CallerIdentity, TLAPS

-----------------------------------------------------------------------------
(* Each channel makes its own kind of actor, or none.                      *)
LEMMA ApiActorIsHuman ==
  ASSUME NEW token, ApiActor(token) # Unknown
  PROVE  /\ ApiActor(token).type = "human"
         /\ ApiActor(token).source = "api"
         /\ ApiActor(token).roles \subseteq HumanRoles
<1>1. ApiActor(token) = [type |-> "human", roles |-> token.roles, source |-> "api"]
  BY DEF ApiActor
<1>2. ClaimsValid(token)
  BY DEF ApiActor
<1> QED
  BY <1>1, <1>2 DEF ClaimsValid

LEMMA ActorIsOfItsChannel ==
  ASSUME NEW c, c.channel \in Channels \ {"in_process"}, ActorOf(c) # Unknown
  PROVE  /\ ActorOf(c).type = (IF c.channel = "api" THEN "human" ELSE "ai_agent")
         /\ ActorOf(c).source \in {"api", "mcp", "ai_workflow"}
         /\ ActorOf(c).roles \subseteq
              (IF ActorOf(c).type = "human" THEN HumanRoles ELSE {"AIAgent"})
<1>1. CASE c.channel = "api"
  <2>1. ActorOf(c) = ApiActor(c.token)
    BY <1>1 DEF ActorOf
  <2> QED
    BY <1>1, <2>1, ApiActorIsHuman
<1>2. CASE c.channel = "assistant"
  <2>1. ActorOf(c) = Agent("ai_workflow")
    BY <1>2 DEF ActorOf
  <2> QED
    BY <1>2, <2>1 DEF Agent
<1>3. CASE c.channel = "mcp_http"
  <2>1. ActorOf(c) = Agent("mcp")
    BY <1>3 DEF ActorOf, McpHttpActor, Coerced
  <2> QED
    BY <1>3, <2>1 DEF Agent
<1>4. CASE c.channel = "mcp_stdio"
  <2>1. ActorOf(c) = Agent("mcp")
    BY <1>4 DEF ActorOf, StdioActor
  <2> QED
    BY <1>4, <2>1 DEF Agent
<1> QED
  BY <1>1, <1>2, <1>3, <1>4 DEF Channels

-----------------------------------------------------------------------------
(* What is known of an application that is up.                             *)
IdentityInv ==
  /\ caller \in Callers /\ site \in Sites
  /\ up = "up" => Starts(site.ontology)
  /\ PeopleAndAgentsApart

LEMMA IdentityInitially == IdentityInit => IdentityInv
  BY DEF IdentityInit, IdentityInv, PeopleAndAgentsApart

LEMMA IdentityStepKeeps == IdentityInv /\ [IdentityNext]_identityVars => IdentityInv'
<1> SUFFICES ASSUME IdentityInv, [IdentityNext]_identityVars PROVE IdentityInv'
  OBVIOUS
<1>1. CASE StartUp
  BY <1>1 DEF StartUp, IdentityInv, PeopleAndAgentsApart
<1>2. CASE Tick
  BY <1>2 DEF Tick, IdentityInv, PeopleAndAgentsApart
<1>3. ASSUME NEW a \in Asks, Request(a) PROVE IdentityInv'
  <2>1. caller' = caller /\ up' = up /\ site' = site /\ actor' = ActorOf(caller)
    BY <1>3 DEF Request
  <2>2. caller.channel \in Channels
    BY ChannelAssumption DEF IdentityInv
  <2>3. PeopleAndAgentsApart'
    BY <2>1, <2>2, ActorIsOfItsChannel DEF PeopleAndAgentsApart
  <2> QED
    BY <2>1, <2>3 DEF IdentityInv
<1>4. ASSUME NEW child \in site.ontology.actions, Dispatch(child) PROVE IdentityInv'
  BY <1>4 DEF Dispatch, IdentityInv, PeopleAndAgentsApart
<1>5. CASE UNCHANGED identityVars
  BY <1>5 DEF identityVars, IdentityInv, PeopleAndAgentsApart
<1> QED
  BY <1>1, <1>2, <1>3, <1>4, <1>5 DEF IdentityNext

(* The server that is up started with its ontology, and the actor of a     *)
(* call comes from its channel (actor_context.py), throughout.             *)
THEOREM IdentityInvariance == IdentitySpec => []IdentityInv
<1> QED
  BY IdentityInitially, IdentityStepKeeps, PTL DEF IdentitySpec

(* Whatever a credential claims, a human never comes out as an agent, an   *)
(* agent never as a human, and nobody from outside as a service.           *)
THEOREM PeopleAndAgentsStayApart == IdentitySpec => []PeopleAndAgentsApart
<1>1. IdentityInv => PeopleAndAgentsApart
  BY DEF IdentityInv
<1> QED
  BY <1>1, IdentityInvariance, PTL

-----------------------------------------------------------------------------
(* In an ontology that starts, a policy's key finds that policy.           *)
LEMMA RegistryFindsTheRule ==
  ASSUME NEW o, Starts(o), DOMAIN o.rules \subseteq Nat, NEW i \in DOMAIN o.rules
  PROVE  Registry(o)[o.rules[i].ask] = o.rules[i]
<1> DEFINE a == o.rules[i].ask
           asks == {t.ask : t \in Templates(o)} \union {o.rules[j].ask : j \in DOMAIN o.rules}
           Explicit(b) == {j \in DOMAIN o.rules : o.rules[j].ask = b}
           Winner(b) == CHOOSE j \in Explicit(b) : \A k \in Explicit(b) : k <= j
<1>1. a \in asks
  OBVIOUS
<1>2. Registry(o) = [b \in asks |->
         IF Explicit(b) = {} THEN CHOOSE t \in Templates(o) : t.ask = b
         ELSE o.rules[Winner(b)]]
  BY DEF Registry
<1>3. Explicit(a) = {i}
  BY DEF Starts
<1>4. i \in Nat
  OBVIOUS
<1>5. Winner(a) = i
  BY <1>3, <1>4
<1> QED
  BY <1>1, <1>2, <1>3, <1>5

(* What a template gives is told by what it is for.                        *)
LEMMA TemplatesAreOpen ==
  ASSUME NEW o, NEW t \in Templates(o)
  PROVE  t = Open(t.ask)
<1>1. \A a : Open(a).ask = a
  BY DEF Open, Rule
<1>2. \E a : t = Open(a)
  BY DEF Templates
<1> QED
  BY <1>1, <1>2

(* In an ontology that starts, a template's key finds that template.       *)
LEMMA RegistryFindsTheTemplate ==
  ASSUME NEW o, Starts(o), NEW t \in Templates(o)
  PROVE  Registry(o)[t.ask] = t
<1> DEFINE a == t.ask
           asks == {u.ask : u \in Templates(o)} \union {o.rules[j].ask : j \in DOMAIN o.rules}
           Explicit(b) == {j \in DOMAIN o.rules : o.rules[j].ask = b}
           Winner(b) == CHOOSE j \in Explicit(b) : \A k \in Explicit(b) : k <= j
<1>1. a \in asks
  OBVIOUS
<1>2. Registry(o) = [b \in asks |->
         IF Explicit(b) = {} THEN CHOOSE u \in Templates(o) : u.ask = b
         ELSE o.rules[Winner(b)]]
  BY DEF Registry
<1>3. Explicit(a) = {}
  BY DEF Starts
<1>4. \A u \in Templates(o) : u.ask = a => u = t
  BY TemplatesAreOpen
<1>5. (CHOOSE u \in Templates(o) : u.ask = a) = t
  BY <1>4
<1> QED
  BY <1>1, <1>2, <1>3, <1>5

(* An application that is up has no two policies for one thing, explicit   *)
(* or of a template, each of those declared is in force, and none gives a  *)
(* role which the ontology does not declare.                               *)
THEOREM PoliciesHaveNoRivals == IdentitySpec => []OneRulePerThing
<1>1. IdentityInv => OneRulePerThing
  <2> SUFFICES ASSUME IdentityInv, up = "up",
                      NEW d \in Declarations(site.ontology), NEW e \in Declarations(site.ontology)
               PROVE  /\ d.rule.ask = e.rule.ask => d = e
                      /\ Registry(site.ontology)[d.rule.ask] = d.rule
                      /\ d.rule.roles \subseteq site.ontology.roles
    BY DEF OneRulePerThing
  <2> DEFINE o == site.ontology
             Template(c) == \E t \in Templates(o) : c = [at |-> 0, rule |-> t]
             Explicit(c) == \E i \in DOMAIN o.rules : c = [at |-> i, rule |-> o.rules[i]]
  <2>1. Starts(o) /\ DOMAIN o.rules \subseteq Nat
    BY RulesAssumption DEF IdentityInv
  <2>2. \A c \in Declarations(o) : Template(c) \/ Explicit(c)
    BY DEF Declarations
  <2>3. ASSUME d.rule.ask = e.rule.ask PROVE d = e
    <3>1. CASE Template(d) /\ Template(e)
      BY <2>3, <3>1, TemplatesAreOpen
    <3>2. CASE Explicit(d) /\ Explicit(e)
      BY <2>1, <2>3, <3>2 DEF Starts
    <3>3. CASE (Template(d) /\ Explicit(e)) \/ (Explicit(d) /\ Template(e))
      BY <2>1, <2>3, <3>3 DEF Starts
    <3> QED
      BY <2>2, <3>1, <3>2, <3>3
  <2>4. CASE Template(d)
    <3>1. PICK t \in Templates(o) : d = [at |-> 0, rule |-> t]
      BY <2>4
    <3>2. Registry(o)[t.ask] = t
      BY <2>1, RegistryFindsTheTemplate
    <3>3. t.roles \subseteq o.roles
      BY <2>1 DEF Starts, Valid
    <3> QED
      BY <2>3, <3>1, <3>2, <3>3
  <2>5. CASE Explicit(d)
    <3>1. PICK i \in DOMAIN o.rules : d = [at |-> i, rule |-> o.rules[i]]
      BY <2>5
    <3>2. Registry(o)[o.rules[i].ask] = o.rules[i]
      BY <2>1, RegistryFindsTheRule
    <3>3. o.rules[i].roles \subseteq o.roles
      BY <2>1 DEF Starts, Valid
    <3> QED
      BY <2>3, <3>1, <3>2, <3>3
  <2> QED
    BY <2>2, <2>4, <2>5
<1> QED
  BY <1>1, IdentityInvariance, PTL
-----------------------------------------------------------------------------
(* What may be done about an action is what its policy in the ontology     *)
(* file says, whatever else a site's ontology declares.                    *)
LEMMA TheActionsPolicyDecides ==
  ASSUME NEW s \in Sites, Starts(s.ontology), NEW a, NEW who, NEW within,
         AskReason(s.ontology, who, Ask("action.execute", "action", a), within) = "ALLOWED"
  PROVE  a \in Actions /\ Permitted(who, a, within)
<1> DEFINE o == s.ontology
           it == Ask("action.execute", "action", a)
           p == ActionPolicy[a]
<1>1. it \in DOMAIN Registry(o)
  BY DEF AskReason
<1>2. a \in Actions
  <2>1. DOMAIN Registry(o) =
          {t.ask : t \in Templates(o)} \union {o.rules[i].ask : i \in DOMAIN o.rules}
    BY DEF Registry
  <2>2. \A t \in Templates(o) : t.ask.capability # "action.execute"
    BY DEF Templates, Open, Rule, Ask
  <2>3. it.capability = "action.execute" /\ it.key = a
    BY DEF Ask
  <2> HIDE DEF it
  <2>4. PICK i \in DOMAIN o.rules : o.rules[i].ask = it
    BY <1>1, <2>1, <2>2, <2>3
  <2> QED
    BY <2>3, <2>4, PoliciesAssumption
<1>3. PICK i \in DOMAIN o.rules : o.rules[i] = ActionRule(a)
  BY <1>2, PoliciesAssumption
<1>4. ActionRule(a).ask = it
  BY DEF ActionRule, Rule
<1>5. Registry(o)[it] = ActionRule(a)
  BY <1>3, <1>4, RulesAssumption, RegistryFindsTheRule
<1>6. /\ ActionRule(a).types = p.types /\ ActionRule(a).sources = p.sources
      /\ ActionRule(a).roles = p.roles /\ ActionRule(a).parents = p.parents
  BY DEF ActionRule, Rule
<1>7. p.types # {} /\ p.sources # {}
  BY <1>2 DEF Actions, ActionPolicy, ChildPolicy, Policy, ActorTypes, Sources
<1> HIDE DEF p, it, o
<1>8. /\ who.type \in p.types /\ who.source \in p.sources
      /\ EffectiveRoles(who) \cap p.roles # {}
      /\ DispatchReason(ActionRule(a), within) = "ALLOWED"
  BY <1>5, <1>6, <1>7 DEF AskReason, o, it
<1>9. DispatchReason(p, within) = "ALLOWED"
  BY <1>6, <1>8 DEF DispatchReason
<1> QED
  BY <1>2, <1>8, <1>9 DEF Permitted, Reason, p

(* Whoever an answer let execute an action is let by the action's policy,  *)
(* and a child action runs under a parent that the same actor was let run. *)
ActionInv ==
  reason = "ALLOWED" =>
    /\ up = "up"
    /\ ask.kind = "action" =>
         /\ ask.key \in Actions /\ Asked(ask.key)
         /\ Permitted(actor, ask.key, context)
         /\ \/ context = External
            \/ \E parent \in Actions :
                 context = ChildOf(parent) /\ Permitted(actor, parent, External)

LEMMA ActionsInitially == IdentityInit => ActionInv
  BY DEF IdentityInit, ActionInv

LEMMA ActionsStep == IdentityInv /\ ActionInv /\ [IdentityNext]_identityVars => ActionInv'
<1> SUFFICES ASSUME IdentityInv, ActionInv, [IdentityNext]_identityVars PROVE ActionInv'
  OBVIOUS
<1>1. CASE StartUp
  BY <1>1 DEF StartUp, ActionInv, Asked
<1>2. CASE Tick
  BY <1>2 DEF Tick, ActionInv, Asked
<1>3. ASSUME NEW a \in Asks, Request(a) PROVE ActionInv'
  <2> SUFFICES ASSUME reason' = "ALLOWED"
               PROVE  /\ up' = "up"
                      /\ a.kind = "action" =>
                           /\ a.key \in Actions /\ a = Ask("action.execute", "action", a.key)
                           /\ Permitted(actor', a.key, External)
    BY <1>3 DEF Request, ActionInv, Asked
  <2>1. up = "up" /\ up' = up /\ AskReason(site.ontology, actor', a, External) = "ALLOWED"
    BY <1>3 DEF Request
  <2>2. a.kind = "action" => a = Ask("action.execute", "action", a.key)
    BY DEF Asks, ToolAsks, RouteAsks, Ask
  <2>3. site \in Sites /\ Starts(site.ontology)
    BY <2>1 DEF IdentityInv
  <2> QED
    BY <2>1, <2>2, <2>3, TheActionsPolicyDecides
<1>4. ASSUME NEW child \in site.ontology.actions, Dispatch(child) PROVE ActionInv'
  <2> SUFFICES ASSUME reason' = "ALLOWED" PROVE ActionInv'
    BY DEF ActionInv
  <2>1. /\ reason = "ALLOWED" /\ ask.kind = "action" /\ context = External
        /\ ask' = Ask("action.execute", "action", child) /\ context' = ChildOf(ask.key)
        /\ AskReason(site.ontology, actor, Ask("action.execute", "action", child),
                     ChildOf(ask.key)) = "ALLOWED"
        /\ up' = up /\ actor' = actor
    BY <1>4 DEF Dispatch
  <2>2. up = "up" /\ ask.key \in Actions /\ Permitted(actor, ask.key, External)
    BY <2>1 DEF ActionInv
  <2>3. child \in Actions /\ Permitted(actor, child, ChildOf(ask.key))
    BY <2>1, <2>2, TheActionsPolicyDecides DEF IdentityInv
  <2>4. ask'.key = child
    BY <2>1 DEF Ask
  <2> QED
    BY <2>1, <2>2, <2>3, <2>4 DEF ActionInv, Asked
<1>5. CASE UNCHANGED identityVars
  BY <1>5 DEF identityVars, ActionInv, Asked
<1> QED
  BY <1>1, <1>2, <1>3, <1>4, <1>5 DEF IdentityNext

LEMMA ActionInvariance == IdentitySpec => []ActionInv
<1> QED
  BY IdentityInvariance, ActionsInitially, ActionsStep, PTL DEF IdentitySpec

(* For every site and credential, and for every actor a program makes up:  *)
(* an AI agent executes nothing but the drafting of a plan, and that in    *)
(* its own role.                                                           *)
THEOREM AgentsDraftAndNoMore == IdentitySpec => []AgentsOnlyDraft
<1>1. ActionInv => AgentsOnlyDraft
  <2> SUFFICES ASSUME NEW a \in Actions, Permitted(actor, a, context), actor.type = "ai_agent"
               PROVE  a = "generateMitigationPlan" /\ "AIAgent" \in actor.roles
    BY DEF ActionInv, AgentsOnlyDraft
  <2>1. "ai_agent" \in ActionPolicy[a].types /\ EffectiveRoles(actor) # {}
    BY DEF Permitted, Reason
  <2>2. a = "generateMitigationPlan"
    BY <2>1 DEF Actions, ActionPolicy, ChildPolicy, Policy
  <2> QED
    BY <2>1, <2>2 DEF EffectiveRoles
<1> QED
  BY <1>1, ActionInvariance, PTL

(* Stock and purchase orders change under an approval only, and only by an *)
(* actor that might have approved.                                         *)
THEOREM ChangesNeedAnApproval == IdentitySpec => []ChangesOnlyUnderApproval
<1>1. ActionInv => ChangesOnlyUnderApproval
  <2> SUFFICES ASSUME ActionInv, reason = "ALLOWED",
                      NEW child \in {"reallocateInventory", "expeditePurchaseOrder"}, Asked(child)
               PROVE  /\ context = ChildOf("approveMitigationPlan")
                      /\ Permitted(actor, "approveMitigationPlan", External)
    BY DEF ChangesOnlyUnderApproval
  <2>1. ask.kind = "action" /\ ask.key = child
    BY DEF Asked, Ask
  <2>2. /\ Permitted(actor, child, context)
        /\ \/ context = External
           \/ \E parent \in Actions :
                context = ChildOf(parent) /\ Permitted(actor, parent, External)
    BY <2>1 DEF ActionInv
  <2>3. DispatchReason(ChildPolicy, context) = "ALLOWED"
    BY <2>2 DEF Permitted, Reason, ActionPolicy
  <2>4. ChildPolicy.parents = {"approveMitigationPlan"}
    BY DEF ChildPolicy, Policy
  <2>5. context.internal /\ context.parent = "approveMitigationPlan"
    BY <2>3, <2>4 DEF DispatchReason
  <2> QED
    BY <2>2, <2>5 DEF External, ChildOf
<1> QED
  BY <1>1, ActionInvariance, PTL
==============================================================================
