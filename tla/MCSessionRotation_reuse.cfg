CONSTANTS
  s1 = s1  s2 = s2  s3 = s3  c1 = c1  c2 = c2  c3 = c3
  Sessions = {s1, s2}
  Callers = {c1, c2}
  NoSession = NoSession
  MaxActive = 2
  MaxTokens = 3
  MaxFaults = 0
SPECIFICATION Spec
SYMMETRY Symmetry
CHECK_DEADLOCK FALSE
PROPERTY ReuseRevokesFamily
