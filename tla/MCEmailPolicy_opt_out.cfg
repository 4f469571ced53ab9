CONSTANTS
  c1 = c1  c2 = c2  c3 = c3
  Callers = {c1, c2}
  MaxRequests = 4
SPECIFICATION Spec
SYMMETRY Symmetry
CHECK_DEADLOCK FALSE
INVARIANTS OptOutHonoured
