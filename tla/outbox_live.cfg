SPECIFICATION FairSpec
CONSTANTS
  e1 = e1
  e2 = e2
  e3 = e3
  c1 = c1
  c2 = c2
  c3 = c3
  Relay = Relay
  Closer = Closer
  None = None
  Envelopes = {e1, e2}
  Calls = {c1, c2}
  EnvOf <- Distinct
  Undecodable = {}
  Poison = {}
  MaxRows = 2
  Overflows = {"reject_new"}
  RelayBatch = 1
  MaxBackoff = 2
  MaxCrashes = 1
  MaxFaults = 0
  Ageing = FALSE
  Closes = TRUE
  Restarts = FALSE
PROPERTIES
  RowsAreRelayed
  OutboxCloseReturns
CHECK_DEADLOCK FALSE
