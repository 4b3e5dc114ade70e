SPECIFICATION Spec
CONSTANTS
  k1 = k1
  k2 = k2
  k3 = k3
  v1 = v1
  Keys = {k1, k2, k3}
  Values = {v1}
  MaxMemItems = 1
  HotCount = 2
  Absent = Absent
  Torn = Torn
PROPERTIES
  DiskKeepsAVersion
