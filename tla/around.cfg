SPECIFICATION FairSpec
CONSTANTS
  w1 = w1
  w2 = w2
  c1 = c1
  c2 = c2
  Workers = {w1, w2}
  QueueSize = 2
  MaxAttempts = 2
  Unbuildable = {1, 2}
  MaxEnvelopes = 4
  MaxAttaches = 2
  AttachWhileClosing = FALSE
  Classes = {c1, c2}
  StormThreshold = 3
  StormWindow = 1
  CountThreshold = 2
  RuleWindow = 2
  DedupWindow = 1
  ThrottleMax = 1
  ThrottleWindow = 2
  MaxTime = 5
  MaxEvents = 9
  BatchSize = 2
  BufferSize = 3
  f1 = f1
  f2 = f2
  a1 = a1
  a2 = a2
  Flushers = {f1, f2}
  Closers = {a1, a2}
  NoTask = NoTask
  Unwritable = {4}
  MaxRows = 5
  MaxFailures = 1
  k1 = k1
  Keys = {k1}
  Consumers = {c1}
  Drainer = c2
  Nobody = Nobody
  MaxPushes = 2
  MaxUpsets = 1
  Subjects = {"delivery", "alerts", "audit", "signals"}
INVARIANTS TrailInOrder
PROPERTIES BufferedSettles FoldedIsSent KeysAreServed
CHECK_DEADLOCK FALSE
