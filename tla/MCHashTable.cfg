CONSTANTS
  Keys = {1, 2, 3}
  Scans = {s1, s2}
  NIL = NIL
  hash <- MCHash
  MaxElems = 3
  nelem_alloc = 2
  MAX_SEQ_SCANS = 2
  ssize = 2
  Configs <- MCConfigs
SPECIFICATION Spec
INVARIANTS TypeOK Shape Placed NothingLost Guarded
PROPERTY ImplementsMap
CHECK_DEADLOCK FALSE
SYMMETRY Symmetry
