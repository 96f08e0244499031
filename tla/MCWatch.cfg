SPECIFICATION FairSpec
CONSTANTS
    Object = {o1, o2}
    Other = Other
    PAGE = 1
    MaxChanges = 4
    MaxFaults = 2
INVARIANT TypeOK
INVARIANT ViewIsSnapshot
INVARIANT NothingMissed
PROPERTY CatchesUp
PROPERTY ImplementsCache
CHECK_DEADLOCK FALSE
