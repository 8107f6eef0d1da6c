CONSTANTS
  File <- TripFiles
  Request = {r1}
  Dir = {"trip"}
  StartDir = "trip"
  Path <- TripPaths
  Spare = {s1, s2}
  A = A
  B = B
  X = X
  Content = {A, B, X}
  Source <- TripSource
  Disk <- TripDisk
  Slots <- TripSlots
  Within <- TripWithin
  Windowed = {}
  OnePerFile = TRUE
  Faults = {}
  Torn = Torn
  None = None
SPECIFICATION Spec
PROPERTIES OriginalsUntouched
