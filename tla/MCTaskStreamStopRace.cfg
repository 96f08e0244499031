SPECIFICATION StreamSpec
CONSTANTS
    t1 = t1
    t2 = t2
    b1 = b1
    alice = alice
    bob = bob
    BUser <- AliceEverywhere
    Browser = {b1}
    Total = 1
    LOG_LINES = 2
    Task = {t1}
    User = {alice}
    Owner <- OneOwner
    KEEP = 2
    SYNC_LIMIT = 2
    Stopper = {s1}
    CAPACITY = 4
    MaxDrops = 0
    MaxDetails = 0
    MaxSteps = 1
INVARIANT EndReachesBrowser
CHECK_DEADLOCK FALSE
