SPECIFICATION Spec
CONSTANTS
    w1 = w1
    w2 = w2
    c1 = c1
    Workers = {w1, w2}
    Clients = {c1}
    QueueCap = 1
    MaxErr = 1
    AcceptedGrace = 2
    ReSchedGrace = 1
    HoldLimit = 4
    RowLocking = TRUE
    RequestKinds = {"tx"}
    Webhook = TRUE
    PollLimit = 2
    Faults = {}
    MayStop = FALSE
    MaxJobs = 2
    MaxRequests = 1
    MaxExec = 4
    MaxFaults = 0
SYMMETRY Symmetry
PROPERTIES
    OnlyDisruptedListed
