SPECIFICATION FairSpec
CONSTANTS
  p1 = p1
  g1 = g1
  d1 = d1
  n0 = n0
  n1 = n1
  n2 = n2
  NoVal = NoVal
  Puts = {p1}
  Gets = {g1}
  Deletes = {d1}
  Replicas = {n1, n2}
  Local = n0
  N = 2
  R = 2
  W = 1
  MaxHints = 1
  MaxClients = 2
INVARIANTS
  QuorumReadSeesDelete
  DeletedComesFrom
PROPERTIES
  EveryRequestReturns
CHECK_DEADLOCK FALSE
