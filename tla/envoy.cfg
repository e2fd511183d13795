SPECIFICATION ESafe
CONSTANTS
  ChunkLimit = 1
  Limit = 2
  SelectedLimit = 1
  StreamBufferLimit = 1
  Lens = {0, 1}
  MaxChunks = 2
  ResponseBodyTrailers = FALSE
  ParkedTrailers = FALSE
  MCRequestModes = {"none", "streamed", "buffered", "fds"}
  MCResponseModes = {"none", "streamed", "buffered", "fds"}
  MCWaits = {TRUE, FALSE}
  MCSelected = {TRUE, FALSE}
  Chains <- MCChains
  Configs <- MCConfigs
INVARIANTS
  ConformingAccepted
  BodyFiltersFinishOnce
  SelectedFiltersOnce
CHECK_DEADLOCK FALSE
