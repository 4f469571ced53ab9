CONSTANTS
  c1 = c1  c2 = c2  r1 = r1  r2 = r2
  Callers = {c1}
  Replicas = {r1, r2}
  HasAdmin = FALSE
  AtRiskAge = 0
  BreachAge = 1
  EscalateAge = 1
  MaxAge = 1
  MaxFaults = 1
SPECIFICATION FairSpec
CHECK_DEADLOCK FALSE
INVARIANTS ResolvedAtAgrees EscalatedOnce
PROPERTIES TransitionsAreValid BreachIsEscalated
