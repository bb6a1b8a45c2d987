SPECIFICATION PartsSpec
CONSTANTS
  Record = {r1, r2, r3}
  PipeSize = 1
  BufSize = 1
  MayFail = TRUE
  f1 = f1
  f2 = f2
  f3 = f3
  libA = libA
  libB = libB
  Src = {f1, f2, f3}
  LangOf <- Languages
  Lib = {libA, libB}
  Setups <- TwoLibraries
  MaxLines = 2
  PipeLines = 1
  Term = Term
  Bad = Bad
PROPERTIES
  LibrariesEnd
