SPECIFICATION FairSpec
CONSTANTS
  Vendors = {v1}
  Requests = {r1}
  None = None
  MaxClients = 2
PROPERTY ClientGetsIn
CHECK_DEADLOCK FALSE
