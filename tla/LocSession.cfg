SPECIFICATION Spec
CONSTANTS
  Calls <- MCSessionCalls
  Items = {}
  Values = {1}
  AidingTypes = {a1}
  AcceptIntermediate = TRUE
  Positions <- MCPositions
  Statuses <- MCStatuses
  MaxQueue = 2
  MaxCalls = 3
  MaxReports = 3
  MaxCrashes = 1
INVARIANTS
  SessionsAgree
  DeletionWaitsForEngine
  OffIsTold
CHECK_DEADLOCK FALSE
