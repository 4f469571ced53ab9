CONSTANTS
  m1 = m1  m2 = m2  w1 = w1  w2 = w2  d1 = d1  d2 = d2  a1 = a1
  Ids = {m1, m2}
  QueueRuns = {w1}
  DigestRuns = {d1, d2}
  Admins = {a1}
  RecipientOf <- OneRecipient
  MaxAttempts = 1
  DigestLimit = 2
  BatchLimit = 1
  MaxFaults = 1
  MaxRequests = 1
SPECIFICATION Spec
CHECK_DEADLOCK FALSE
SYMMETRY Symmetry
INVARIANT NoUnexplainedDuplicate
