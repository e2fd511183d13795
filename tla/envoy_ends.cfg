SPECIFICATION ESpec
CONSTANTS
  ChunkLimit = 1
  Limit = 2
  SelectedLimit = 1
  StreamBufferLimit = 1
  Lens = {1}
  MaxChunks = 2
  ResponseBodyTrailers = FALSE
  ParkedTrailers = FALSE
  MCRequestModes = {"none", "streamed", "buffered", "fds"}
  MCResponseModes = {"none", "streamed", "buffered", "fds"}
  MCWaits = {FALSE}
  MCSelected = {FALSE, TRUE}
  Chains <- MCChains
  Configs <- MCConfigs
PROPERTIES
  StreamEnds
CHECK_DEADLOCK FALSE
