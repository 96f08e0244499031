SPECIFICATION StreamFairSpec
CONSTANTS
    t1 = t1
    t2 = t2
    b1 = b1
    alice = alice
    bob = bob
    BUser <- AliceEverywhere
    Browser = {b1}
    Total = 1
    LOG_LINES = 1
    Task = {t1, t2}
    User = {alice, bob}
    Owner <- TwoOwners
    KEEP = 2
    SYNC_LIMIT = 1
    Stopper = {}
    CAPACITY = 1
    MaxDrops = 1
    MaxDetails = 1
    MaxSteps = 0
INVARIANT StreamTypeOK
INVARIANT OwnTasksOnly
INVARIANT LastWordIsShown
PROPERTY EndIsSeen
CHECK_DEADLOCK FALSE
