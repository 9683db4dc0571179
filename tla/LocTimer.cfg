SPECIFICATION FairSpec
CONSTANTS
  Clients = {c1, c2}
  NoClient = NoClient
  Delays <- MCDelays
  MaxStarts = 3
  MaxTime = 3
INVARIANTS
  NothingDangles
  NothingLeaks
  SoonestIsArmed
PROPERTY Expires
CHECK_DEADLOCK FALSE
