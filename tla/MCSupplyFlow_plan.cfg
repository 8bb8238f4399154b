SPECIFICATION SupplySpec
CONSTANTS
  c1 = c1
  c2 = c2
  c3 = c3
  Nobody = Nobody
  Today = 5
  HorizonDays = 30
  MaxCommits = 1
  ExpediteCalls <- ThreeCalls
  CallOf <- Asked
  PlanStatus <- Plans
  StepOf <- ExpediteSteps
  ExecutedOn = 5
  Worlds <- AnalysisWorlds
  BusyWorlds <- CompetingWorlds
INVARIANTS DelayNeverHelps UrgentOrdersAreServedFirst RecommendationAddsUp NothingPromisedTwice ExpeditedOnce
PROPERTIES EveryExpediteEnds
CHECK_DEADLOCK FALSE
