SPECIFICATION FairSpec
CONSTANTS
  a = a
  b = b
  doc = doc
  Path = {a, b}
  NoPath = NoPath
  MaxFid = 4
  MaxVer = 2
  MaxClock = 3
  LangMaps <- Either
  Racy = FALSE
  SingleOnlyChange = TRUE
  MayCrash = FALSE
INVARIANTS
  NoDanglingTag
