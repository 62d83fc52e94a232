SPECIFICATION Spec
CONSTANTS
  q1 = q1
  q2 = q2
  q3 = q3
  q4 = q4
  q5 = q5
  BusSubs = {q1, q2, q3, q4, q5}
  Globs = {q2, q4}
  Rank <- SomeRanks
  Floored = {q5}
  Vetoing = {}
  Letterbox = {d1}
  Mild = {d1}
  Dispatchers = {a1}
  Unset = Unset
  MaxRemovals = 1
  s3 = s3
  Threads = {t1, t2}
  Subs = {s1, s2, s3}
  ErrorSubs = {s3}
  Raising = {s1, s3}
  Replying = {s3}
  Forwarding = {s1}
  Primed = TRUE
  MaxEmits = 2
  MaxChanges = 3
  h1 = h1
  h2 = h2
  r1 = r1
  r2 = r2
  d1 = d1
  d2 = d2
  Ids = {h1, h2}
  Replaced = {h1}
  Disabled = {}
  Stubborn = {h2}
  Callbacks = {1}
  Buses = {1, 2}
  Throwing = {1}
  Requests = {r1, r2}
  Deliveries = {d1, d2}
  MaxInflight = 2
  DedupTtl = 2
  DedupCacheSize = 1
  Modes = {"await", "background"}
  Tolerance = 1
  Ahead = 1
  Heard = TRUE
  AllowNonJson = FALSE
  MaxSends = 3
  MaxClock = 3
  a1 = a1
  a2 = a2
  s1 = s1
  s2 = s2
  v1 = v1
  v2 = v2
  t1 = t1
  t2 = t2
  t3 = t3
  f1 = f1
  Allocators = {a1, a2}
  Untracked = {a2}
  Author <- SameAuthor
  Seconds = {1}
  Slugs = {s1, s2}
  Orders <- SomeOrders
  InUse <- SomeInUse
  MaxTries = 2
  MaxCommits = 3
  Workers = {a1, a2}
  Evidence = {v1, v2}
  Sha <- SomeSha
  NoWorker = NoWorker
  NoFile = NoFile
  NoNote = NoNote
  NoEvidence = NoEvidence
  MaxCrashes = 1
  MaxEdits = 1
  MaxMoves = 1
  Agents = {a1, a2}
  RequiredSince = 3
  MaxRemote = 3
  Concurrent = FALSE
  MaxGlitches = 2
  Tasks = {t1, t2, t3}
  Unknown = Unknown
  FilesOf <- SomeFiles
  Subjects = {"subscriptions", "lifecycle", "manager", "ingest", "reserve", "close", "worktree", "graph"}
INVARIANTS HandledInOrder ReportsDoNotCascade GlobalObserves InjectedIsCurrent OncePerDelivery IdsAreUnique DoneIsClosed HandedOutIsUsable CleanReportIsSafe
CHECK_DEADLOCK FALSE
