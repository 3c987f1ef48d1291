CONSTANTS
  Requests = 9
  Tries = 50
  MaxRuns = 3
  MaxKills = 2
SPECIFICATION Spec
CHECK_DEADLOCK FALSE
INVARIANTS
  RepliesMatch
  ServedInFull
  OneServer
PROPERTY RunEnds
