SPECIFICATION FairSpec
CONSTANTS
  e1 = e1
  e2 = e2
  e3 = e3
  c1 = c1
  c2 = c2
  c3 = c3
  Relay = Relay
  Closer = Closer
  None = None
  Envelopes = {e1, e2, e3}
  Calls = {c1, c2, c3}
  EnvOf <- Distinct
  Undecodable = {}
  Poison = {e1, e2}
  MaxRows = 3
  Overflows = {"drop_oldest"}
  RelayBatch = 3
  MaxBackoff = 2
  MaxCrashes = 0
  MaxFaults = 0
  Ageing = FALSE
  Closes = FALSE
  Restarts = FALSE
PROPERTIES
  RowsAreRelayed
CHECK_DEADLOCK FALSE
