SPECIFICATION FairSpec
CONSTANTS
  a = a
  b = b
  doc = doc
  Path = {a, doc}
  NoPath = NoPath
  MaxFid = 3
  MaxVer = 2
  MaxClock = 2
  LangMaps <- EitherDoc
  Racy = FALSE
  SingleOnlyChange = FALSE
  MayCrash = TRUE
INVARIANTS
  GpathSound
PROPERTIES
  CreateRepairs
  FidNeverReused
