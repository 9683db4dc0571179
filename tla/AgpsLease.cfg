SPECIFICATION FairSpec
CONSTANTS
  atl1 = atl1
  atl2 = atl2
  bit = bit
  wifi = wifi
  ds1 = ds1
  ds2 = ds2
  Clients <- Everyone
  WaitsForClose <- LeaveLater
  ModemClients <- InTheModem
  MaxInFlight = 4
INVARIANTS
  TypeOK
  ReleasedIsEmpty
  HeldForSomeone
  AnswerIsComing
  ToldIsTrue
PROPERTIES
  ImplementsLease
  AskingEnds
  ReleasingEnds
