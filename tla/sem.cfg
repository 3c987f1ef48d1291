CONSTANTS
  Producers = {1, 2}
  MaxKills = 1
SPECIFICATION Spec
INVARIANTS
  MutualExclusion
  BufferIsWhole
  TokenNeverLost
  LostForGood
PROPERTIES
  MailSpec
  Delivered
