CONSTANTS
  s1 = s1  s2 = s2  s3 = s3  c1 = c1  c2 = c2  c3 = c3
  Sessions = {s1, s2, s3}
  Callers = {c1, c2}
  NoSession = NoSession
  MaxActive = 1
  MaxTokens = 3
  MaxFaults = 1
SPECIFICATION Spec
SYMMETRY Symmetry
CHECK_DEADLOCK FALSE
INVARIANTS LimitHolds
PROPERTIES RevokedStaysRevoked RecordedReuseRevokes LedgerSpec
