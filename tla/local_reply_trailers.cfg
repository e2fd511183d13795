SPECIFICATION ESafe
CONSTANTS
  ChunkLimit = 1
  Limit = 2
  SelectedLimit = 1
  StreamBufferLimit = 1
  Lens = {0, 1}
  MaxChunks = 1
  ResponseBodyTrailers = FALSE
  ParkedTrailers = TRUE
  MCRequestModes = {"buffered"}
  MCResponseModes = {"fds"}
  MCWaits = {FALSE}
  MCSelected = {FALSE}
  Chains <- MCChains
  Configs <- MCConfigs
INVARIANTS
  LocalReplyPhasesContinue
CHECK_DEADLOCK FALSE
