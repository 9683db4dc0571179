SPECIFICATION Spec
CONSTANTS
  Handles = {h1, h2}
  MaxRetries = 4
  MaxWaiting = 3
  MaxRestarts = 1
INVARIANT CallIsTracked
 
CHECK_DEADLOCK FALSE
