SPECIFICATION FairSpec
CONSTANTS
  e4 = e4
  e1 = e1
  e2 = e2
  e3 = e3
  Workers = {w1, w2}
  Events = {e1, e2}
  Prio <- AllNormal
  Policy <- AllBlock
  SubCount <- OneEach
  QueueSize = 1
  RetryAttempts = 1
  HasDlq = TRUE
  MaxStarts = 1
  Meta = Meta
  Dlq = Dlq
  None = None
PROPERTIES
  PublishReturns
CHECK_DEADLOCK FALSE
