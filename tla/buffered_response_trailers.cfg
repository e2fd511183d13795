SPECIFICATION ESafe
CONSTANTS
  ChunkLimit = 1
  Limit = 2
  SelectedLimit = 1
  StreamBufferLimit = 1
  Lens = {0, 1}
  MaxChunks = 2
  ResponseBodyTrailers = TRUE
  ParkedTrailers = FALSE
  MCRequestModes = {"buffered"}
  MCResponseModes = {"buffered"}
  MCWaits = {FALSE}
  MCSelected = {FALSE}
  Chains <- MCChains
  Configs <- MCConfigs
INVARIANTS
  NeverStalled
CHECK_DEADLOCK FALSE
