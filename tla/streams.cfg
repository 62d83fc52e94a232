SPECIFICATION FairSpec
CONSTANTS
  i1 = i1
  i2 = i2
  e1 = e1
  e2 = e2
  Dollar = Dollar
  Instances = {i1, i2}
  Publishers = {i1}
  Events = {e1}
  Configs <- AllConfigs
  MaxDeliveries = 1
  EchoCap = 1
  MaxLen = 2
  MaxLog = 2
  MaxFaults = 1
  MayClose = TRUE
INVARIANTS AckedIsAccounted DuplicatesAreExcused BroadcastGapless
PROPERTIES EntriesSettle
CHECK_DEADLOCK FALSE
