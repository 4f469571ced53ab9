CONSTANTS
  m1 = m1  m2 = m2  w1 = w1  w2 = w2  d1 = d1  d2 = d2  a1 = a1
  Ids = {m1}
  QueueRuns = {w1}
  DigestRuns = {d1}
  Admins = {a1}
  RecipientOf <- OneRecipient
  MaxAttempts = 2
  DigestLimit = 2
  BatchLimit = 1
  MaxFaults = 0
  MaxRequests = 1
SPECIFICATION Spec
CHECK_DEADLOCK FALSE
PROPERTY OnlyPendingIsCancelled
