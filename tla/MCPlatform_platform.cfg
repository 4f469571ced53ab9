CONSTANTS
  Requests = {r1, r2}
  Admins = {a1, a2, a3}
  NoAdmin = NoAdmin
  Serials = {s1, s2}
  SyncAttempts = 2
  MaxLost = 1
  Replicas = {p1, p2}
  MigrationCount = 2
  StatementCount = 2
  IndexStatements <- MigrationIndexes
  MaxMigrationFaults = 3
  MaxCalls = 3
  MaxStopped = 1
  MaxAlerts = 4
  MaxReopened = 1
  MaxChanges = 1
  Visits = {v1, v2}
  Photos = {f1, f2}
  MaxDecisions = 3
  MaxRuns = 2
  MaxCompletions = 2
  MaxStops = 1
SPECIFICATION PlatformSpec
CHECK_DEADLOCK FALSE
INVARIANTS OneAssetPerSerial MigrationsAccounted VendorCalledWhenApproved OneTicketPerAlert
INVARIANTS AdmittedWhenEntitled DecidedOnce WorkIsRecorded
PROPERTIES LockIsReleased EvidenceIsKept
