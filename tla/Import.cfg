SPECIFICATION FairSpec
CONSTANTS
    Disk = {d1, d2, d3}
    Size = 3
    Sized = {d1, d2}
INVARIANT ImportedIsWhole
INVARIANT ImportIsKept
PROPERTY HalfImportsGo
CHECK_DEADLOCK FALSE
