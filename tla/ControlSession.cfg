SPECIFICATION Spec
CONSTANTS
  o1 = o1
  MaxReports = 2
  Decision = 1
  Candidate = 2
  Evidence <- MCEvidence
  MaxSurfacings = 2
  MaxBeats = 1
  HostOperations <- MCHostOperations
  MaxInFlight = 1
  MaxFaults = 1
INVARIANTS HostAndStoreAgree OneHandlerPerOperation
PROPERTIES EverythingArrives
CHECK_DEADLOCK FALSE
