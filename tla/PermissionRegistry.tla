-------------------------- MODULE PermissionRegistry --------------------------
(***************************************************************************)
(* The permission registry built from the ontology at startup              *)
(* (ontology/permission_registry.py) and the decision the authorization    *)
(* service takes over it for any capability, of which the action policies  *)
(* of Authorization are one part.                                          *)
(*                                                                         *)
(* An ontology is a record: the sets objectTypes, linkTypes, functions,    *)
(* actions, roles; stored, the stored properties, as pairs; effect, the    *)
(* default effect; rules, the sequence of explicit policies; defaults,     *)
(* whether the templates for object and link types are there.              *)
(***************************************************************************)
EXTENDS Authorization, Integers, Sequences, SequencesExt

Ask(capability, kind, key) == [capability |-> capability, kind |-> kind, key |-> key]

Rule(ask, roles, types, sources, parents) ==
  [ask |-> ask, roles |-> roles, deniedRoles |-> {}, types |-> types, deniedTypes |-> {},
   sources |-> sources, deniedSources |-> {}, parents |-> parents]

(* What anyone may do: the templates, and the policies of functions.       *)
Open(ask) == Rule(ask, Roles, ActorTypes, Sources, {})

ActionRule(a) ==
  LET p == ActionPolicy[a]
  IN Rule(Ask("action.execute", "action", a), p.roles, p.types, p.sources, p.parents)

(* permissions.policies of the ontology file, for the given functions.     *)
DeclaredRules(functions) ==
  <<Open(Ask("ontology.metadata.read", "ontology", "operationalOntology")),
    Rule(Ask("permission.metadata.read", "ontology", "operationalOntology"),
         {"Admin"}, {"human", "service"}, {"web_app", "api", "internal"}, {})>>
    \o SetToSeq({Open(Ask("function.execute", "function", f)) : f \in functions})
    \o SetToSeq({ActionRule(a) : a \in Actions})

(* _expand_object_type_defaults, _expand_link_type_defaults                *)
Templates(o) ==
  IF ~o.defaults THEN {}
  ELSE {Open(Ask(c, "objectType", t)) :
          c \in {"object.list", "object.search", "object.read"}, t \in o.objectTypes}
       \union {Open(Ask("link.traverse", "linkType", l)) : l \in o.linkTypes}

(* _build_known_resource_keys: an audit log or a property is known as soon *)
(* as a policy names it.                                                   *)
KnownKeys(o, kind) ==
  CASE kind = "ontology" -> {"operationalOntology"}
    [] kind \in {"objectType", "object"} -> o.objectTypes
    [] kind = "linkType" -> o.linkTypes
    [] kind = "function" -> o.functions
    [] kind = "action" -> o.actions
    [] OTHER -> {r.ask.key : r \in {q \in ToSet(o.rules) : q.ask.kind = kind}}

(* _validate_policy_definition.  No one checks the names of parents.       *)
Valid(o, rule) ==
  /\ rule.roles \union rule.deniedRoles \subseteq o.roles
  /\ rule.ask.key \in IF rule.ask.kind = "property" THEN o.stored
                      ELSE KnownKeys(o, rule.ask.kind)

(* Mutant of Starts: a policy may replace one that the templates make.     *)
StartsOverTemplates(o) ==
  /\ o.effect = "deny"
  /\ \A i \in DOMAIN o.rules : Valid(o, o.rules[i])
  /\ \A t \in Templates(o) : Valid(o, t)
  /\ \A i, j \in DOMAIN o.rules : o.rules[i].ask = o.rules[j].ask => i = j

(* from_ontology; where it raises, the application does not start.         *)
Starts(o) ==
  /\ o.effect = "deny"
  /\ \A i \in DOMAIN o.rules : Valid(o, o.rules[i])
  /\ \A t \in Templates(o) : Valid(o, t)
  /\ \A i, j \in DOMAIN o.rules : o.rules[i].ask = o.rules[j].ask => i = j
  /\ \A i \in DOMAIN o.rules, t \in Templates(o) : o.rules[i].ask # t.ask

(* policies_by_key: a later policy for the same key would win.             *)
Registry(o) ==
  LET asks == {t.ask : t \in Templates(o)} \union {o.rules[i].ask : i \in DOMAIN o.rules}
      Explicit(a) == {i \in DOMAIN o.rules : o.rules[i].ask = a}
  IN [a \in asks |->
        IF Explicit(a) = {} THEN CHOOSE t \in Templates(o) : t.ask = a
        ELSE o.rules[CHOOSE i \in Explicit(a) : \A j \in Explicit(a) : j <= i]]

-----------------------------------------------------------------------------
(* authorize: the checks in the order of the code, the first that fails is *)
(* the reason.  An empty list of types or sources allows every one.        *)
AskReason(o, actor, ask, context) ==
  LET policy == Registry(o)[ask]
  IN IF ask.key \notin KnownKeys(o, ask.kind) THEN "RESOURCE_NOT_ALLOWED"
     ELSE IF ask \notin DOMAIN Registry(o) THEN "POLICY_NOT_FOUND"
     ELSE IF \/ actor.type \in policy.deniedTypes
             \/ /\ actor.type \notin policy.types
                /\ policy.types # {} \/ actor.type = "service"
       THEN "ACTOR_TYPE_NOT_ALLOWED"
     ELSE IF \/ actor.source \in policy.deniedSources
             \/ policy.sources # {} /\ actor.source \notin policy.sources
       THEN "INVOCATION_SOURCE_NOT_ALLOWED"
     ELSE IF EffectiveRoles(actor) \cap policy.deniedRoles # {} THEN "EXPLICITLY_DENIED"
     ELSE IF EffectiveRoles(actor) \cap policy.roles = {} THEN "ROLE_NOT_ALLOWED"
     ELSE DispatchReason(policy, context)
==============================================================================
