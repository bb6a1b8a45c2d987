SPECIFICATION Spec
CONSTANTS
  Room = 3
  Dups = TRUE
  Key = {1, 3, 5}
  FixedKey = {}
  WideKey = {}
  BigKey = {}
  MaxPut = 7
  PutsFirst = FALSE
  ScanPuts = FALSE
INVARIANT
  SearchFinds
