SPECIFICATION Spec
CONSTANTS
  n1 = n1
  n2 = n2
  e1 = e1
  None = None
  Words = {"ACCEPT", "DENY"}
  Requests <- Everything
  EsRequests <- Emergencies
  MaxRestarts = 1
INVARIANTS
  OneWaiter
  OneOwner
  OneAnswer
  NothingLeaks
SYMMETRY Alike
CHECK_DEADLOCK FALSE
