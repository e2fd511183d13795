SPECIFICATION Spec
CONSTANTS
  Clients = {"good", "quiet1", "quiet2", "stranger"}
  Prompt = {"good"}
  Unwelcome = {"stranger"}
  Kind <- MCKind
  Concurrency = 2
  Connections = {"scrape"}
  Tokens = {"t1", "t2"}
  UserOf <- MCUserOf
  HttpRequests <- MCHttpRequests
  MaxRequests = 2
INVARIANTS
  RenderAuthorized
  DenialsDecided
PROPERTIES
  PromptClientServed
  ScrapeAnswered
CHECK_DEADLOCK FALSE
