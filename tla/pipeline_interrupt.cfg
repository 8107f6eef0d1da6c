CONSTANTS
  NumFiles = 2
  MaxVersion = 1
  Workers <- PoolSizes
  BatchSize = 2
  Bad = {}
  Unreadable = {}
  PicksDir <- Folders
  Default = "picks"
  Below <- FilesBelow
  Matched <- FilesMatched
  Budget = 1
  Faults = {"interrupt"}
  None = None
SPECIFICATION Spec
INVARIANTS OnlyBadFilesFail
CHECK_DEADLOCK FALSE
