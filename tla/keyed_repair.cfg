SPECIFICATION Spec
CONSTANTS
  Keys = {k1}
  Messages = {m1, m2}
  Workers = {w1, w2}
  Clients = {c1}
  Created = {1}
  MaxAttempts = 0
  Ageing = FALSE
  FirstOut = FALSE
  MaxPushes = 3
  MaxReleases = 1
  MaxRefusals = 1
  MaxCrashes = 0
  MaxLapses = 1
  MaxMsgLosses = 1
  None = None
SYMMETRY Symmetric
PROPERTIES HeldNotLeased LeasesTheOldest
