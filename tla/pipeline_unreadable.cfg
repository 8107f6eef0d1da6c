CONSTANTS
  NumFiles = 3
  MaxVersion = 1
  Workers <- PoolSizes
  BatchSize = 2
  Bad = {}
  Unreadable = {2}
  PicksDir <- Folders
  Default = "picks"
  Below <- FilesBelow
  Matched <- FilesMatched
  Budget = 0
  Faults = {}
  None = None
SPECIFICATION Spec
INVARIANTS RunSurvivesBadFiles
CHECK_DEADLOCK FALSE
