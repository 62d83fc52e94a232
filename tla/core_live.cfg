SPECIFICATION FairSpec
CONSTANTS
  e4 = e4
  e1 = e1
  e2 = e2
  e3 = e3
  Workers = {w1, w2}
  Events = {e1, e2, e3}
  Prio <- TwoLevels
  Policy <- DlqRejects
  SubCount <- TwoNoneOne
  QueueSize = 1
  RetryAttempts = 1
  HasDlq = TRUE
  MaxStarts = 1
  Meta = Meta
  Dlq = Dlq
  None = None
PROPERTIES
  AcceptedIsDispatched
  CloseReturns
  ImplementsService
CHECK_DEADLOCK FALSE
