SPECIFICATION Spec
CONSTANTS
    Task = {t1, t2}
    Kind = {"start", "stop", "restart", "signal", "delete", "create", "disk", "hotplug", "unplug", "snapshot", "restore", "clone"}
    Disk = {d1}
    MaxUid = 4
INVARIANT TypeOK
INVARIANT StartIsTrue
INVARIANT StopIsTrue
INVARIANT RestartIsTrue
INVARIANT DisksOutliveTheirVm
SYMMETRY Perms
CHECK_DEADLOCK FALSE
