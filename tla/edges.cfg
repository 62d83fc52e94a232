SPECIFICATION FairSpec
CONSTANTS
  m1 = m1
  m2 = m2
  e1 = e1
  e2 = e2
  e3 = e3
  e4 = e4
  p1 = p1
  p2 = p2
  p3 = p3
  w1 = w1
  w2 = w2
  b1 = b1
  b2 = b2
  c1 = c1
  c2 = c2
  c3 = c3
  c4 = c4
  c5 = c5
  c6 = c6
  none = none
  Subjects = {"rabbit", "polled", "producer", "bridge", "dead", "transport", "entrance"}
  Msgs = {m1, m2}
  Unwanted = {m1}
  Garbled = {m1}
  MaxRetries = 1
  MaxReconnects = 1
  MaxDrops = 2
  Entries = {e1, e2}
  Failing = {e2}
  BatchSize = 2
  MaxFaults = 2
  Posts = {p1, p2, p3}
  Anonymous = {p2}
  Malformed = {p3}
  Publishers = {w1, w2}
  EventQueueSize = 1
  PublishTries = 2
  Bridges = {b1, b2}
  Events = {e1, e2, e3, e4}
  Positions <- SomePositions
  Flawed = {e4}
  Misfits = {e3}
  MaxLapses = 1
  MaxBatch = 2
  MaxSendings = 3
  MaxOutages = 1
  Letters = {e1, e2}
  Unreadable = {e2}
  Replays = {b1, b2}
  MaxFailures = 2
  MaxErrors = 2
  Sent = {e1, e2}
  Poisoned = {e2}
  Channels = {c1, c2, c3}
  Broadcasters = {c1, none}
  PublishVia = c2
  NoChannel = none
  MaxOutage = 1
  Entrants = {c1, c2, c3, c4, c5, c6}
  Sockets = {c1, c3}
  Rpcs = {c2, c5}
  Unauthorized = {c3}
  Invalid = {c5, c6}
  Strict = TRUE
  Capacity = 1
INVARIANTS GoneIsHandled PublishedOnce FailedIsStored AnswerIsTrue
PROPERTIES DeliveriesSettle StopDrains ChannelsHear
CHECK_DEADLOCK FALSE
