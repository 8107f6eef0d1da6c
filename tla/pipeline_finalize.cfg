CONSTANTS
  NumFiles = 3
  MaxVersion = 1
  Workers <- PoolSizes
  BatchSize = 2
  Bad = {}
  Unreadable = {}
  PicksDir <- Folders
  Default = "picks"
  Below <- FilesBelow
  Matched <- FilesMatched
  Budget = 1
  Faults = {}
  None = None
SPECIFICATION Spec
PROPERTIES FinalizeEmbeds
CHECK_DEADLOCK FALSE
