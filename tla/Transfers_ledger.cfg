SPECIFICATION Spec
CONSTANTS
    Contracts <- MCContracts
    Alike <- MCAlike
    Enabled <- MCEnabled
    Added <- MCAdded
    InitTokens <- MCInitTokens
    MaxTokens = 1
    t1 = t1
    t2 = t2
    Threads = {t1, t2}
    Requested <- MCRequested
    Sync = {"w2"}
    Outside <- MCOutside
    Custodial = {"own"}
    Watched = {"in"}
    SetUp <- MCSetUp
    Faults = {"send", "result", "store", "crash"}
    MaxTxs = 2
    MaxHandled = 3
SYMMETRY Symmetry
INVARIANTS
    TypeOK
    PaymentsAccounted
    CompleteIsListed
    RegisteredOnce
    HandledIsListed
PROPERTIES
    AddKeepsNames
CHECK_DEADLOCK FALSE
