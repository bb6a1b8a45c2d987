SPECIFICATION FairSpec
CONSTANTS
  a = a
  b = b
  doc = doc
  Path = {a}
  NoPath = NoPath
  MaxFid = 4
  MaxVer = 3
  MaxClock = 3
  LangMaps <- SourceA
  Racy = TRUE
  SingleOnlyChange = TRUE
  MayCrash = FALSE
INVARIANTS
  NoDanglingTag
