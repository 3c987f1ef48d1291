CONSTANTS
  Producers = {1, 2}
  MaxKills = 0
SPECIFICATION Spec
INVARIANT PrintsWhatWasSent
