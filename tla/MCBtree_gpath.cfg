SPECIFICATION Spec
CONSTANTS
  Room = 5
  Dups = FALSE
  Key = {1, 3, 5, 7}
  FixedKey = {1}
  WideKey = {1, 3, 5, 7}
  BigKey = {5}
  MaxPut = 6
  PutsFirst = FALSE
  ScanPuts = FALSE
INVARIANTS
  TreeSound
  HoldsRecords
  SearchFinds
  CursorStays
