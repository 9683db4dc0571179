SPECIFICATION FairSpec
CONSTANTS
  Senders = {s1, s2}
  Timers = {t1, t2, t3}
  None = None
  MaxMessages = 5
CHECK_DEADLOCK FALSE
INVARIANTS
  HeldIffCounted
  AwakeHasTimeout
PROPERTIES
  Sleeps
