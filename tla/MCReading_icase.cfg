SPECIFICATION PartsSpec
CONSTANTS
  Name = {1, 2, 3, 4, 5}
  Upper = {1, 2}
  Lower = {3, 4}
  Fid = {1, 2}
  Rank <- RankReversed
  MaxRec = 3
  Patterns <- AllPatterns
  IcaseRefs = TRUE
  Tags = {1, 2}
  Files = {1, 2}
  KeyOf <- OwnKey
  Tables <- SomeTables
  Lengths = {3, 8}
  MaxLen = 3
  MayVanish = FALSE
  FDir = {1, 2, 3, 4}
  Up <- Tree
  Base = 2
  LinkSets <- SomeLinks
  SkipLists <- SomeSkips
  MaxRemove = 2
  MaxNest = 3
  MaxIf = 2
  MaxMacro = 1
  Splits = FALSE
  BareAssign = FALSE
  v0 = v0
  v1 = v1
  Val = {v0, v1}
  Absent = Absent
  MaxPage = 3
  MaxCache = 1
  MaxPins = 2
  Listings <- SomeListings
  Printed <- SomePrinted
  Limit = 2
  TagFiles <- BothFiles
  TagName = {1, 2, 3}
  Inputs <- SomeInputs
  NoTag = NoTag
  NoRecord = NoRecord
  SPath = {p1, p2, p3}
  NoSPath = NoSPath
  MaxId = 5
  Threshold = 2
INVARIANTS
  AnswersExactly
