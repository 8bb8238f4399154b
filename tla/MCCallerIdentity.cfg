SPECIFICATION IdentitySpec
CONSTANTS
  Sites <- AllSites
  Callers <- AllCallers
  LastTime = 2
CONSTRAINT Interesting
INVARIANTS AgentsOnlyDraft ChangesOnlyUnderApproval PeopleAndAgentsApart OneRulePerThing
CHECK_DEADLOCK FALSE
