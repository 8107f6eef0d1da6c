CONSTANTS
  File <- TwoFiles
  Request = {r1, r2}
  Dir = {"picks", "out"}
  StartDir = "picks"
  Path <- PlainPaths
  Spare = {s1, s2}
  A = A
  B = B
  X = X
  Content = {A, B, X}
  Source <- SourceIs
  Disk <- PlainDisk
  Slots <- PlainSlots
  Within <- PlainWithin
  Windowed = {}
  OnePerFile = TRUE
  Faults = {"io"}
  Torn = Torn
  None = None
SPECIFICATION Spec
VIEW Reachable
INVARIANTS TypeOK Consistent NoOrphan AnswerHolds
PROPERTIES OnlyOwnCopiesGo ImplementsBook
