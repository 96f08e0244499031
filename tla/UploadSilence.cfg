SPECIFICATION FairSpec
CONSTANTS
    Size = 2
    MaxChunk = 1
PROPERTY SilenceEndsTask
CHECK_DEADLOCK FALSE
