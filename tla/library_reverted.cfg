CONSTANTS
  NumPhotos = 4
  Devices = {1, 2}
  Unknown = 2
  Merged = 0
  MaxSkewSec = 2
  AnchorSimilarity = 3
  MinAnchors = 3
  None = None
  Client = {"tab1", "tab2"}
  Configs <- AllConfigs
  Defaults <- Fresh
  Forms <- FormSet
  Overrides <- NotFromEnv
  Legacies <- Tables
  Server = "server"
  Failures = {"save", "kv"}
  NoFile = NoFile
  NoBytes = NoBytes
  Garbled = Garbled
  Under <- PhotosBelow
  Matched <- PhotosMatched
  Scenarios <- PageScenarios
SPECIFICATION MCSpec
PROPERTIES ScansBySaved
CHECK_DEADLOCK FALSE
