SPECIFICATION YoungSpec
CONSTANTS
  w1 = w1
  w2 = w2
  n1 = n1
  k1 = k1
  k2 = k2
  Writes = {w1, w2}
  Nodes = {n1}
  Deliverers = {k1, k2}
  MaxHints = 2
  MaxRetries = 2
SYMMETRY Symmetry
INVARIANTS
  NoHintLost
CHECK_DEADLOCK FALSE
