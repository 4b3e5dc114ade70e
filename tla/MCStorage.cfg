SPECIFICATION Spec
CONSTANTS
  k1 = k1
  k2 = k2
  v1 = v1
  v2 = v2
  Keys = {k1, k2}
  Values = {v1, v2}
  MaxMemItems = 1
  HotCount = 2
  Absent = Absent
  Torn = Torn
INVARIANTS
  TypeOK
  IndexIsReadable
  ShutdownKeepsData
PROPERTIES
  EvictionIsThorough
  ImplementsMap
