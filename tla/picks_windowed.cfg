CONSTANTS
  File <- TwoFiles
  Request = {r1}
  Dir = {"picks"}
  StartDir = "picks"
  Path <- PlainPaths
  Spare = {s1, s2}
  A = A
  B = B
  X = X
  Content = {A, B, X}
  Source <- SourceIs
  Disk <- PlainDisk
  Slots <- PlainSlots
  Within <- PlainWithin
  Windowed = {A, B, X}
  OnePerFile = TRUE
  Faults = {"crash"}
  Torn = Torn
  None = None
SPECIFICATION Spec
INVARIANTS NoDuplicateCopy
