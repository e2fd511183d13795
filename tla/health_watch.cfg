SPECIFICATION FairSpec
CONSTANTS
    Streams = {s1}
    ChannelSize = 1
    MaxResponses = 2
    HealthWatches = TRUE
PROPERTY
    ExitsPromptly
CHECK_DEADLOCK FALSE
