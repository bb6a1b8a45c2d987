SPECIFICATION FairSpec
CONSTANTS
  a = a
  b = b
  doc = doc
  Path = {a, doc}
  NoPath = NoPath
  MaxFid = 3
  MaxVer = 3
  MaxClock = 1
  LangMaps <- SourceA
  Racy = TRUE
  SingleOnlyChange = TRUE
  MayCrash = FALSE
INVARIANTS
  OneContentPerFile
  NoLostUpdate
  NoWrongPath
PROPERTIES
  RunTerminates
