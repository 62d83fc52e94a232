SPECIFICATION Spec
CONSTANTS
  Keys = {k1}
  Messages = {m1}
  Workers = {w1, w2}
  Clients = {c1}
  Created = {1}
  MaxAttempts = 1
  Ageing = TRUE
  FirstOut = FALSE
  MaxPushes = 2
  MaxReleases = 0
  MaxRefusals = 2
  MaxCrashes = 1
  MaxLapses = 1
  MaxMsgLosses = 0
  None = None
SYMMETRY Symmetric
INVARIANTS Conserved CommitsAreFenced
