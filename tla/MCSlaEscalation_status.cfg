CONSTANTS
  c1 = c1  c2 = c2  r1 = r1  r2 = r2
  Callers = {c1}
  Replicas = {r1}
  HasAdmin = FALSE
  AtRiskAge = 1
  BreachAge = 2
  EscalateAge = 2
  MaxAge = 0
  MaxFaults = 0
SPECIFICATION Spec
CHECK_DEADLOCK FALSE
INVARIANT StatusIsKnown
