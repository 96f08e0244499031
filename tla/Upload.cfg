SPECIFICATION FairSpec
CONSTANTS
    Size = 3
    MaxChunk = 2
INVARIANT TypeOK
INVARIANT SuccessIsWhole
INVARIANT DoneIsKept
PROPERTY TaskSettles
PROPERTY WaitsAreAnswered
CHECK_DEADLOCK FALSE
