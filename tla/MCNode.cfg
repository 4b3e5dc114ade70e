SPECIFICATION FairSpec
CONSTANTS
  w1 = w1
  p1 = p1
  n0 = n0
  k1 = k1
  Puts = {w1}
  Peers = {p1}
  Self = n0
  W = 1
  MaxFails = 1
  MaxHints = 1
  MaxRetries = 2
  Deliverers = {k1}
  MaxPings = 1
  MaxPending = 1
INVARIANTS
  TypeOK
  RecoveryIsSeenTo
  DrainedShutdownKeepsPuts
PROPERTIES
  RecoveredPeersGetHints
CHECK_DEADLOCK FALSE
