SPECIFICATION Spec
CONSTANTS
  Keys = {k1}
  Messages = {m1}
  Workers = {w1, w2}
  Clients = {c1}
  Created = {1}
  MaxAttempts = 0
  Ageing = FALSE
  FirstOut = FALSE
  MaxPushes = 1
  MaxReleases = 1
  MaxRefusals = 2
  MaxCrashes = 0
  MaxLapses = 0
  MaxMsgLosses = 0
  None = None
SYMMETRY Symmetric
PROPERTY
  DeadlineHonoured
