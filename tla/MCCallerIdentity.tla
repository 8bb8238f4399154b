--------------------------- MODULE MCCallerIdentity ---------------------------
(***************************************************************************)
(* Every actor a program can make, and tokens that differ from a good one  *)
(* in one claim each, at sites that differ from the default in one setting.*)
(***************************************************************************)
EXTENDS CallerIdentity

Functions == {"recommendMitigationPlan"}
Ontology ==
  [objectTypes |-> {"RiskEvent"}, linkTypes |-> {"affects"}, functions |-> Functions,
   actions |-> Actions \union {"findImpactedParts"},   \* declared, without a policy
   stored |-> {"RiskEvent.status"}, roles |-> Roles, effect |-> "deny", defaults |-> TRUE,
   rules |-> DeclaredRules(Functions)]

With(rule) == [Ontology EXCEPT !.rules = Append(@, rule)]
Everyone(capability, kind, key) == Open(Ask(capability, kind, key))

Ontologies ==
  {Ontology,
   [Ontology EXCEPT !.effect = "allow"],
   [Ontology EXCEPT !.roles = @ \ {"Viewer"}],
   With(Everyone("action.execute", "action", "approveMitigationPlan")),
   With(ActionRule("approveMitigationPlan")),
   With(Everyone("object.read", "objectType", "RiskEvent")),
   With([Everyone("object.read", "objectType", "RiskEvent") EXCEPT !.roles = {"Admin"}]),
   With(Everyone("function.execute", "function", "unknown")),
   With([Everyone("property.read", "property", "RiskEvent.status")
         EXCEPT !.deniedRoles = {"AIAgent"}]),
   With(Everyone("property.read", "property", "RiskEvent"))}

Site ==
  [apiEnabled |-> TRUE, secret |-> "s1", alg |-> "HS256", issuer |-> "none", audience |-> "none",
   verifier |-> "unconfigured", stdioIdentity |-> FALSE, production |-> FALSE,
   ontology |-> Ontology]

AllSites ==
  {[Site EXCEPT !.ontology = o] : o \in Ontologies}
  \union {[Site EXCEPT !.apiEnabled = FALSE], [Site EXCEPT !.alg = "RS256"],
          [Site EXCEPT !.issuer = "i"], [Site EXCEPT !.audience = "a"],
          [Site EXCEPT !.verifier = "configured"], [Site EXCEPT !.secret = "none"],
          [Site EXCEPT !.stdioIdentity = TRUE],
          [Site EXCEPT !.stdioIdentity = TRUE, !.production = TRUE]}

Token ==
  [bearer |-> TRUE, alg |-> "HS256", key |-> "s1", roles |-> {"OperationsManager"},
   type |-> "absent", source |-> "absent", expires |-> 1, notBefore |-> 0,
   issuer |-> "i", audience |-> {"a", "b"}]

Tokens ==
  {Token, [Token EXCEPT !.bearer = FALSE], [Token EXCEPT !.alg = "none"],
   [Token EXCEPT !.key = "s2"], [Token EXCEPT !.roles = {}],
   [Token EXCEPT !.roles = {"Admin", "AIAgent"}], [Token EXCEPT !.roles = {"unknown"}],
   [Token EXCEPT !.type = "ai_agent"], [Token EXCEPT !.source = "internal"],
   [Token EXCEPT !.type = "human", !.source = "api", !.roles = {"Planner", "Admin"}],
   [Token EXCEPT !.notBefore = 1, !.expires = 2], [Token EXCEPT !.issuer = "j"],
   [Token EXCEPT !.audience = {}]}

AllCallers ==
  {[channel |-> c, token |-> t] : c \in {"api", "assistant"}, t \in Tokens}
  \union {[channel |-> "mcp_http", credential |-> [bearer |-> b, verified |-> v]] :
            b \in BOOLEAN, v \in {Agent("mcp"), [type |-> "human", roles |-> {"Admin"},
                                                 source |-> "internal"]}}
  \union {[channel |-> "mcp_stdio"]}
  \union {[channel |-> "in_process", actor |-> a] : a \in ActorContext}

(* A program's own actors are of interest with the real ontology only.     *)
Interesting == caller.channel = "in_process" => site = Site /\ now = 0
==============================================================================
