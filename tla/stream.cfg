SPECIFICATION OSpec
CONSTANTS
  ChunkLimit = 1
  Limit = 1
  SelectedLimit = 1
  StreamBufferLimit = 1
  Lens = {0, 1}
  MCRequestModes = {"none", "streamed", "buffered", "fds"}
  MCResponseModes = {"none", "streamed", "buffered", "fds"}
  MCWaits = {FALSE}
  MCSelectors = {"off"}
  MCSelected = {FALSE}
  MCBuffers = {FALSE}
  Chains <- MCChains
  Configs <- MCConfigs
INVARIANTS
  TypeOK
  ContextIntact
  HeaderFiltersOnceFirst
  MutationDelivered
  LocalReplyUnfiltered
  NothingForwardedUnfiltered
  FinalOnlyAtEndOfStream
  WithinLimit
PROPERTIES
  ImplementsExchange
CHECK_DEADLOCK FALSE
