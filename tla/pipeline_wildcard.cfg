CONSTANTS
  NumFiles = 2
  MaxVersion = 1
  Workers <- PoolSizes
  BatchSize = 2
  Bad = {}
  Unreadable = {}
  PicksDir <- Folders
  Default = "picks"
  Below <- FilesBelow
  Matched <- FilesMatched
  Budget = 2
  Faults = {}
  None = None
SPECIFICATION Spec
PROPERTIES Idempotent
CHECK_DEADLOCK FALSE
