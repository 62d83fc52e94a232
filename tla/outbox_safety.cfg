SPECIFICATION Spec
CONSTANTS
  e1 = e1
  e2 = e2
  e3 = e3
  c1 = c1
  c2 = c2
  c3 = c3
  Relay = Relay
  Closer = Closer
  None = None
  Envelopes = {e1, e2}
  Calls = {c1, c2}
  EnvOf <- Distinct
  Undecodable = {e2}
  Poison = {}
  MaxRows = 1
  Overflows = {"drop_oldest", "reject_new"}
  RelayBatch = 2
  MaxBackoff = 1
  MaxCrashes = 1
  MaxFaults = 1
  Ageing = TRUE
  Closes = TRUE
  Restarts = TRUE
INVARIANTS Durable LossesCounted
CHECK_DEADLOCK FALSE
