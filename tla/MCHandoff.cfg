SPECIFICATION Spec
CONSTANTS
  w1 = w1
  w2 = w2
  w3 = w3
  n1 = n1
  k1 = k1
  k2 = k2
  Writes = {w1, w2, w3}
  Nodes = {n1}
  Deliverers = {k1, k2}
  MaxHints = 2
  MaxRetries = 2
SYMMETRY Symmetry
INVARIANTS
  TypeOK
  DeliveredHintsLeave
  ExhaustedHintsLeave
PROPERTIES
  ImplementsPool
CHECK_DEADLOCK FALSE
