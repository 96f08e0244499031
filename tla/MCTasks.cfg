SPECIFICATION FairSpec
CONSTANTS
    t1 = t1
    alice = alice
    bob = bob
    Task = {t1}
    Stopper = {s1}
    User = {alice, bob}
    Owner <- OneOwner
    KEEP = 2
    LOG_LINES = 2
    Total = 1
    MaxSteps = 2
INVARIANT TypeOK
INVARIANT EndIsExplained
INVARIANT CompletionIsTold
PROPERTY EndIsFinal
PROPERTY TaskEnds
CHECK_DEADLOCK FALSE
