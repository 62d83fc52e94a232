SPECIFICATION Spec
CONSTANTS
  Keys = {k1}
  Messages = {m1}
  Workers = {w1, w2}
  Clients = {c1}
  Created = {1}
  MaxAttempts = 0
  Ageing = FALSE
  FirstOut = FALSE
  MaxPushes = 2
  MaxReleases = 0
  MaxRefusals = 0
  MaxCrashes = 0
  MaxLapses = 0
  MaxMsgLosses = 1
  None = None
SYMMETRY Symmetric
INVARIANT
  HashIsQueued
