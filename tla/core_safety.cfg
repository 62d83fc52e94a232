SPECIFICATION Spec
CONSTANTS
  e4 = e4
  e1 = e1
  e2 = e2
  e3 = e3
  Workers = {w1, w2}
  Events = {e1, e2, e3}
  Prio <- AllHigh
  Policy <- MixedPolicy
  SubCount <- OneEach
  QueueSize = 1
  RetryAttempts = 2
  HasDlq = TRUE
  MaxStarts = 2
  Meta = Meta
  Dlq = Dlq
  None = None
SYMMETRY Symmetric
INVARIANTS
  PermitsCoverQueued
PROPERTIES
  DrainIsClean
CHECK_DEADLOCK FALSE
