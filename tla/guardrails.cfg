SPECIFICATION OSpec
CONSTANTS
  ChunkLimit = 1
  Limit = 1
  SelectedLimit = 1
  StreamBufferLimit = 1
  Lens = {1}
  MCRequestModes = {"buffered", "fds"}
  MCResponseModes = {"none", "buffered"}
  MCWaits = {TRUE, FALSE}
  MCSelectors = {"always", "conditional"}
  MCSelected = {FALSE}
  MCBuffers = {TRUE, FALSE}
  Chains <- MCChains
  Configs <- MCConfigs
PROPERTIES
  OverrideAgrees
  ModeSettled
CHECK_DEADLOCK FALSE
