SPECIFICATION Spec
CONSTANTS
    Dialects = {"psql", "sqlite"}
    Versions <- MCVersions
    Jobs = {"j1"}
    OldStatus = {0, 2, 6}
    MaxConfigs = 2
    MaxFaults = 2
INVARIANTS
    TypeOK
    InEffect
    JobsKept
PROPERTIES
    ServesAtLast
CHECK_DEADLOCK FALSE
