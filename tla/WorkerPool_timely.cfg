SPECIFICATION Spec
CONSTANTS
    w1 = w1
    w2 = w2
    c1 = c1
    Workers = {w1, w2}
    Clients = {c1}
    QueueCap = 1
    MaxErr = 1
    AcceptedGrace = 2
    ReSchedGrace = 1
    HoldLimit = 1
    RowLocking = TRUE
    RequestKinds = {"tx"}
    Webhook = TRUE
    PollLimit = 2
    Faults = {"crash", "store", "chain", "halt"}
    MayStop = TRUE
    MaxJobs = 2
    MaxRequests = 1
    MaxExec = 4
    MaxFaults = 1
SYMMETRY Symmetry
INVARIANTS
    TypeOK
    ExclusiveOwner
    NoticesAreTrue
    OwnedRowIsCurrent
    RunsBounded
PROPERTIES
    TerminalIsFinal
    KeepsLedger
CHECK_DEADLOCK FALSE
