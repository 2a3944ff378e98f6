SPECIFICATION Spec
CONSTANTS
    w1 = w1
    w2 = w2
    Workers = {w1, w2}
    Kinds = {"add", "revoke", "sync", "send"}
    Faults = {"lost", "expire", "reject", "store", "crash"}
    InitKeys = 2
    NumKeys = 3
    MaxExec = 3
SYMMETRY Symmetry
INVARIANTS
    TypeOK
    TableFollowsChain
    KeysAgree
    StrandedAccounted
    TakenInTurn
