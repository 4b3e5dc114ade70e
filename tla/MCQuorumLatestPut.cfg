SPECIFICATION Spec
CONSTANTS
  p1 = p1
  p2 = p2
  g1 = g1
  g2 = g2
  n1 = n1
  n2 = n2
  NoVal = NoVal
  Puts = {p1, p2}
  Gets = {g1, g2}
  Deletes = {}
  Replicas = {n1, n2}
  Local = n1
  N = 2
  R = 2
  W = 1
  MaxHints = 1
  MaxClients = 2
SYMMETRY Symmetry
INVARIANTS
  LatestPutIsRead
CHECK_DEADLOCK FALSE
