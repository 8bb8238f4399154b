---------------------------- MODULE CallerIdentity ----------------------------
(***************************************************************************)
(* Who a caller is at each entry point, and what it is let do: bearer      *)
(* tokens of the human API (api/authentication.py), the resolvers of the   *)
(* two MCP transports (mcp/auth.py), the actor of the assistant, and the   *)
(* tools of the MCP server (mcp/server.py, mcp/ontology_tool_gateway.py).  *)
(* Each request identifies its caller afresh; time passes in between.      *)
(***************************************************************************)
EXTENDS PermissionRegistry

CONSTANTS
  Sites,      \* settings and ontologies the application may be started with
  Callers,    \* channel and credential of a caller, as read below
  LastTime    \* bound of the clock
Channels == {"api", "assistant", "mcp_http", "mcp_stdio", "in_process"}

ASSUME ClockAssumption == LastTime \in Nat
ASSUME RulesAssumption == \A s \in Sites : DOMAIN s.ontology.rules \subseteq Nat \ {0}
ASSUME ChannelAssumption == \A c \in Callers : c.channel \in Channels

(* permissions.policies of the ontology file: whatever a site adds to it,  *)
(* the policies of the actions are there, and none for any other action.   *)
ASSUME PoliciesAssumption ==
  \A s \in Sites :
    /\ \A a \in Actions : \E i \in DOMAIN s.ontology.rules : s.ontology.rules[i] = ActionRule(a)
    /\ \A i \in DOMAIN s.ontology.rules :
         s.ontology.rules[i].ask.capability = "action.execute" =>
           s.ontology.rules[i].ask.key \in Actions

VARIABLES
  site,       \* settings and ontology
  up,         \* "starting", "up" or "refused"
  now,
  caller,
  actor,      \* whom the last request was made as
  ask,        \* what it asked
  context,    \* what the engine vouched for
  reason      \* how it was answered

identityVars == <<site, up, now, caller, actor, ask, context, reason>>

Unknown == [type |-> "none", roles |-> {}, source |-> "none"]
NoAsk == Ask("none", "none", "none")

HumanRoles == {"Viewer", "Planner", "OperationsManager", "Admin"}
Agent(source) == [type |-> "ai_agent", roles |-> {"AIAgent"}, source |-> source]

-----------------------------------------------------------------------------
(* Human API.  The claims may name an actor type and a source, "absent"    *)
(* where they do not; roles that are not a list are the list of "unknown". *)

ClaimsValid(token) ==
  /\ token.roles # {} /\ token.roles \subseteq HumanRoles
  /\ token.type \in {"absent", "human"}
  /\ token.source \in {"absent", "api"}

InForce(token) == now <= token.expires /\ token.notBefore <= now

Signed(token) == token.alg = "HS256" /\ token.key = site.secret

ForThisSite(token) ==
  /\ site.issuer # "none" => token.issuer = site.issuer
  /\ site.audience # "none" => site.audience \in token.audience

ApiActor(token) ==
  IF /\ site.apiEnabled /\ site.secret # "none" /\ site.alg = "HS256"
     /\ token.bearer
     /\ Signed(token) /\ ClaimsValid(token) /\ InForce(token) /\ ForThisSite(token)
  THEN [type |-> "human", roles |-> token.roles, source |-> "api"]
  ELSE Unknown

-----------------------------------------------------------------------------
(* MCP over HTTP: whoever the verifier vouches for becomes an AI agent.    *)
(* The only verifier there is refuses everyone; a test brings its own.     *)

(* Mutant of Coerced: the verified actor keeps its type and roles.         *)
AsVerified(verified) == [verified EXCEPT !.source = "mcp"]

Coerced(verified) == Agent("mcp")

McpHttpActor(credential) ==
  IF credential.bearer /\ site.verifier = "configured" THEN Coerced(credential.verified)
  ELSE Unknown

StdioActor == IF site.stdioIdentity /\ ~site.production THEN Agent("mcp") ELSE Unknown

(* in_process: code that makes an actor itself, as tests and services do.  *)
ActorOf(c) ==
  CASE c.channel = "api"        -> ApiActor(c.token)
    [] c.channel = "mcp_http"   -> McpHttpActor(c.credential)
    [] c.channel = "mcp_stdio"  -> StdioActor
    [] c.channel = "assistant"  -> IF ApiActor(c.token) = Unknown THEN Unknown
                                   ELSE Agent("ai_workflow")
    [] c.channel = "in_process" -> c.actor

-----------------------------------------------------------------------------
(* What can be asked for: the tools, and what only routes offer.           *)
ToolAsks ==
  {Ask(c, "objectType", t) : c \in {"object.search", "object.read"}, t \in site.ontology.objectTypes}
  \union {Ask("link.traverse", "linkType", l) : l \in site.ontology.linkTypes}
  \union {Ask("function.execute", "function", f) : f \in site.ontology.functions}
  \union {Ask("action.execute", "action", "generateMitigationPlan")}

RouteAsks ==
  {Ask("action.execute", "action", a) : a \in site.ontology.actions}
  \union {Ask("permission.metadata.read", "ontology", "operationalOntology")}

ByTools == caller.channel \in {"mcp_http", "mcp_stdio", "assistant"}

Asks == IF ByTools THEN ToolAsks ELSE ToolAsks \union RouteAsks

IdentityInit ==
  /\ site \in Sites
  /\ caller \in Callers
  /\ up = "starting"
  /\ now = 0
  /\ actor = Unknown
  /\ ask = NoAsk
  /\ context = External
  /\ reason = "none"

StartUp ==
  /\ up = "starting"
  /\ up' = IF Starts(site.ontology) THEN "up" ELSE "refused"
  /\ UNCHANGED <<site, now, caller, actor, ask, context, reason>>

Tick ==
  /\ now < LastTime
  /\ now' = now + 1
  /\ UNCHANGED <<site, up, caller, actor, ask, context, reason>>

Request(a) ==
  /\ up = "up"
  /\ actor' = ActorOf(caller)
  /\ ask' = a
  /\ context' = External
  /\ reason' = IF actor' = Unknown THEN "AUTHENTICATION_FAILED"
               ELSE AskReason(site.ontology, actor', a, External)
  /\ UNCHANGED <<site, up, now, caller>>

(* A handler that runs dispatches another action, as the same actor.       *)
Dispatch(child) ==
  /\ reason = "ALLOWED"
  /\ ask.kind = "action" /\ context = External
  /\ ask' = Ask("action.execute", "action", child)
  /\ context' = ChildOf(ask.key)
  /\ reason' = AskReason(site.ontology, actor, ask', context')
  /\ UNCHANGED <<site, up, now, caller, actor>>

IdentityNext ==
  \/ StartUp \/ Tick
  \/ \E a \in Asks : Request(a)
  \/ \E child \in site.ontology.actions : Dispatch(child)

IdentitySpec == IdentityInit /\ [][IdentityNext]_identityVars

-----------------------------------------------------------------------------
Asked(action) == ask = Ask("action.execute", "action", action)

(* An AI agent may draft a plan and execute no other action, however many  *)
(* human roles it claims and whichever action dispatches it.               *)
AgentsOnlyDraft ==
  actor.type = "ai_agent" /\ reason = "ALLOWED" /\ ask.kind = "action" =>
    Asked("generateMitigationPlan") /\ "AIAgent" \in actor.roles

(* What changes stock or purchase orders is never reached from outside,    *)
(* and from inside only under an approval the same actor might have given. *)
ChangesOnlyUnderApproval ==
  reason = "ALLOWED" /\ (Asked("reallocateInventory") \/ Asked("expeditePurchaseOrder")) =>
    /\ context = ChildOf("approveMitigationPlan")
    /\ Permitted(actor, "approveMitigationPlan", External)

(* Whatever a credential claims, people and agents come out apart: nobody  *)
(* from outside is a service or internal, no human has the agent's role    *)
(* and no agent a human's.                                                 *)
PeopleAndAgentsApart ==
  caller.channel # "in_process" /\ actor # Unknown =>
    /\ actor.type = (IF caller.channel = "api" THEN "human" ELSE "ai_agent")
    /\ actor.source \in {"api", "mcp", "ai_workflow"}
    /\ actor.roles \subseteq (IF actor.type = "human" THEN HumanRoles ELSE {"AIAgent"})

(* All policies that an ontology declares, those of the templates and the  *)
(* explicit ones alike, with where: a position, or 0 for the templates.    *)
Declarations(o) ==
  {[at |-> 0, rule |-> t] : t \in Templates(o)}
  \union {[at |-> i, rule |-> o.rules[i]] : i \in DOMAIN o.rules}

(* Every policy declared is the only one for what it governs, repeated or  *)
(* contradicted nowhere, be it explicit or of a template; it is the one in *)
(* force, and gives only roles that there are: any other ontology does not *)
(* start (PermissionRegistry.from_ontology).                               *)
OneRulePerThing ==
  up = "up" =>
    LET declared == Declarations(site.ontology)
        inForce == Registry(site.ontology)
    IN /\ \A d, e \in declared : d.rule.ask = e.rule.ask => d = e
       /\ \A d \in declared : /\ inForce[d.rule.ask] = d.rule
                              /\ d.rule.roles \subseteq site.ontology.roles
==============================================================================
