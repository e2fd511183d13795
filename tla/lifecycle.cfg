SPECIFICATION FairSpec
CONSTANTS
    Streams = {s1, s2}
    ChannelSize = 1
    MaxResponses = 1
    HealthWatches = TRUE
INVARIANTS
    OnlyDeadlineCuts
    CleanExit
    HealthAnswersDuringDrain
    UnreadyServesNothing
PROPERTIES
    DeadlineCancels
    ShutdownCompletes
CHECK_DEADLOCK FALSE
