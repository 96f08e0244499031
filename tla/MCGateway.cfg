SPECIFICATION Spec
CONSTANTS
    Id = {i1, i2}
    Sub = {k1, k2, k3}
    Call = {c1, c2}
    NoSub = NoSub
    NoSession = NoSession
INVARIANT TypeOK
INVARIANT Stoppable
INVARIANT NothingUnwanted
SYMMETRY Perms
CHECK_DEADLOCK FALSE
