CONSTANTS
  File <- PairFiles
  Request = {r1, r2}
  Dir = {"picks"}
  StartDir = "picks"
  Path <- PairPaths
  Spare = {s1, s2}
  A = A
  B = B
  X = X
  Content = {A, B, X}
  Source <- PairSource
  Disk <- PairDisk
  Slots <- PairSlots
  Within <- PairWithin
  Windowed = {}
  OnePerFile = TRUE
  Faults = {}
  Torn = Torn
  None = None
SPECIFICATION Spec
PROPERTIES OnlyOwnCopiesGo
