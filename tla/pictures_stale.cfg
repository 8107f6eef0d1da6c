CONSTANTS
  Handler = {"finalize"}
  AutoScan = "auto"
  Main = "main"
  Worker = {"main", "w1", "w2"}
  MaxRuns = 2
  Run <- Runs
  Last = 3
  BufferSize = 1
  Viewer = {"v1", "v2"}
  Picture = {"p", "q"}
  Slots = 1
  Tools = 2
  MaxVersion = 2
  Previewed = {"p"}
  Tab = {"t1", "t2"}
  Chunks = 2
  Inode = {1, 2, 3}
  NoInode = 0
SPECIFICATION ServingSpec
INVARIANT FullShowsFile
CHECK_DEADLOCK FALSE
