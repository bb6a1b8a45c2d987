SPECIFICATION FairServedSpec
CONSTANTS
  a = a
  doc = doc
  Path = {a, doc}
  NoPath = NoPath
  MaxFid = 4
  MaxVer = 2
  MaxClock = 3
  LangMaps <- SourceA
  Racy = FALSE
  SingleOnlyChange = TRUE
  MayCrash = FALSE
INVARIANTS
  TypeOK
  NoDanglingTag
  HolesHaveNoTags
PROPERTIES
  
  ImplementsTagIndex
