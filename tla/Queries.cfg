\* Every query on records that have, or lack, what it looks for at each level.
SPECIFICATION FairSpec
CONSTANTS
  Records <- MCRecords
  BadKey = "bad key"
INVARIANTS
  Balanced
  LevelsSuffice
  EnginesAgree
  BulkyAgree
PROPERTIES
  Returns
