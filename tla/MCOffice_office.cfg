CONSTANTS
  r1 = r1  r2 = r2  a1 = a1  a2 = a2  a3 = a3
  Requests = {r1, r2}
  Admins = {a1, a2, a3}
  NoAdmin = NoAdmin
  MaxStarts = 3
  MaxDualFaults = 1
  Elevations = {e1, e2}
  NoElevation = NoElevation
  MaxElevationFaults = 1
  MaxExports = 2
  MaxPrivacyFaults = 1
  MaxEvents = 2
  MaxOverlaps = 2
  MaxBillingFaults = 1
  MaxQuantity = 2
  MaxOnHand = 2
  MaxEdits = 1
  MaxStockFaults = 1
  LineCount = 2
  MaxVersions = 3
  MaxInvoices = 2
  MaxDocFaults = 1
  MaxProbes = 2
  MaxTickets = 5
  MaxUsageFaults = 1
  Codes = {c1, c2}
  MaxIssues = 2
  Devices = {d1, d2}
  NoDevice = NoDevice
  MaxHalts = 1
SPECIFICATION OfficeSpec
CHECK_DEADLOCK FALSE
SYMMETRY Symmetry
INVARIANTS OfficeTypeOK ApprovalUsedOnce ApprovedIsGranted DeletionJustified LinksUsedOnce AppliedOnce LogExplainsStock ReservedIsCovered InvoicesAreWhole NumbersWithoutGap UsageIsFair FactorIsWhole DevicesAccounted
PROPERTY TwoPeopleApproved
