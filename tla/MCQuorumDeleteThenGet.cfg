SPECIFICATION Spec
CONSTANTS
  p1 = p1
  g1 = g1
  d1 = d1
  n1 = n1
  n2 = n2
  n3 = n3
  NoVal = NoVal
  Puts = {p1}
  Gets = {g1}
  Deletes = {d1}
  Replicas = {n1, n2, n3}
  Local = n1
  N = 3
  R = 2
  W = 2
  MaxHints = 1
  MaxClients = 1
SYMMETRY Symmetry
INVARIANTS
  DeleteThenGet
CHECK_DEADLOCK FALSE
