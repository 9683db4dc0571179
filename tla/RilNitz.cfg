CONSTANTS
  Versions <- MCVersions
  MaxTime = 2
SPECIFICATION Spec
INVARIANT NitzWithItsTime
