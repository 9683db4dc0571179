CONSTANTS
  Versions <- MCVersions
  MaxTime = 3
SPECIFICATION Spec
INVARIANTS
  OneAnswer
  BuffersFreed
  AnswerIsTrue
  HeardAsGiven
  OwnMethodButOne
  CallsAreGuarded
  NitzOnce
