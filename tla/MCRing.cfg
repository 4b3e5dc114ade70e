SPECIFICATION Spec
CONSTANTS
  n1 = n1
  n2 = n2
  n3 = n3
  Nodes = {n1, n2, n3}
  VirtualNodes = 1
  MaxWeight = 2
  RingSize = 6
  MaxCount = 3
  None = None
SYMMETRY Symmetry
INVARIANTS
  TypeOK
  RingIsExact
  PreferenceList
PROPERTIES
  MinimalMovement
  NoSecondRound
