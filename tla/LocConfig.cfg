SPECIFICATION Spec
CONSTANTS
  Calls <- MCConfigCalls
  Items <- MCItems
  Values = {2}
  AidingTypes = {}
  AcceptIntermediate = FALSE
  Positions = {}
  Statuses = {}
  MaxQueue = 4
  MaxCalls = 2
  MaxReports = 0
  MaxCrashes = 1
INVARIANT ModemIsConfigured
CHECK_DEADLOCK FALSE
