SPECIFICATION FairSpec
CONSTANTS
  p1 = p1
  Peers = {p1}
  MaxFails = 3
  MaxPings = 2
  MaxPending = 2
INVARIANTS
  TypeOK
  StatusMatchesEvidence
PROPERTIES
  FailedUntilHeard
  DeadPeersFail
  AnsweringPeersAreHealthy
  StopEnds
