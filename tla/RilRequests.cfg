SPECIFICATION Spec
CONSTANTS
  Vendors = {v1, v2}
  Requests = {r1, r2}
  None = None
  MaxClients = 2
INVARIANTS
  OneAnswer
  LiveClientIsKept
  CallsAreSafe
SYMMETRY Alike
CHECK_DEADLOCK FALSE
