CONSTANTS
  Producers = {1, 2}
  MaxKills = 2
SPECIFICATION Spec
INVARIANT TakesArePaidFor
PROPERTY MailSpec
