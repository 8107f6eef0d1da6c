CONSTANTS
  NumFiles = 2
  MaxVersion = 1
  Workers <- PoolSizes
  BatchSize = 2
  Bad <- OneBadThumb
  Unreadable = {}
  PicksDir <- Folders
  Default = "picks"
  Below <- FilesBelow
  Matched <- FilesMatched
  Budget = 3
  Faults = {"interrupt", "kill", "db", "clip"}
  None = None
SPECIFICATION Spec
INVARIANTS TypeOK Fresh Drained LibraryUpToDate
PROPERTIES UnchangedStayDone RunEnds
CHECK_DEADLOCK FALSE
