SPECIFICATION FairSpec
CONSTANTS
  g1 = g1
  g2 = g2
  r1 = r1
  r2 = r2
  Groups = {g1, g2}
  Replicas = {r1, r2}
  Threshold = 3
  Leases = {2, 3}
  Changes = {0}
  Cap = 1
  MaxMessages = 2
  Undecodable = {}
  Configs <- AllConfigs
  MaxSent = 2
  MaxLen = 1
INVARIANTS NoEarlyRedelivery CurrentHolderCanDelete
PROPERTIES MessagesLeave
CHECK_DEADLOCK FALSE
