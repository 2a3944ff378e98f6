SPECIFICATION FairSpec
CONSTANTS
    Instances = {"a", "b"}
    Threads = {"t1", "t2"}
    Home <- MCHome
    Wanted <- MCWanted
    InitChain <- MCInitChain
    Kinds = {"account", "raw"}
    Faults = {"send", "result", "drop", "store", "crash"}
    MaxExec = 2
    MaxFaults = 1
INVARIANTS
    TableUsable
    ServesWithKeys
    AccountsAccounted
    InTurn
PROPERTIES
    EveryoneServes
CHECK_DEADLOCK FALSE
