SPECIFICATION Spec
CONSTANTS
  p1 = p1
  p2 = p2
  g1 = g1
  n1 = n1
  n2 = n2
  n3 = n3
  NoVal = NoVal
  Puts = {p1, p2}
  Gets = {g1}
  Deletes = {}
  Replicas = {n1, n2, n3}
  Local = n1
  N = 3
  R = 2
  W = 2
  MaxHints = 1
  MaxClients = 2
SYMMETRY Symmetry
INVARIANTS
  TypeOK
  QuorumsIntersect
  PutThenGet
  AckedPutIsOwed
  AckedWriteStays
CHECK_DEADLOCK FALSE
