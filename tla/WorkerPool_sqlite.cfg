SPECIFICATION FairSpec
CONSTANTS
    w1 = w1
    w2 = w2
    c1 = c1
    Workers = {w1, w2}
    Clients = {c1}
    QueueCap = 2
    MaxErr = 1
    AcceptedGrace = 2
    ReSchedGrace = 1
    HoldLimit = 1
    RowLocking = FALSE
    RequestKinds = {"quiet", "unknown"}
    Webhook = FALSE
    PollLimit = 2
    Faults = {"crash", "store"}
    MayStop = FALSE
    MaxJobs = 1
    MaxRequests = 1
    MaxExec = 4
    MaxFaults = 1
PROPERTIES
    EveryJobEnds
