SPECIFICATION Spec
CONSTANTS
  Room = 3
  Dups = TRUE
  Key = {1, 3}
  FixedKey = {}
  WideKey = {}
  BigKey = {}
  MaxPut = 7
  PutsFirst = TRUE
  ScanPuts = FALSE
INVARIANTS
  HoldsRecords
  TreeSound
PROPERTIES
  ScanReturnsAll
