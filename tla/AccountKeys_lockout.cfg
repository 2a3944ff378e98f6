SPECIFICATION Spec
CONSTANTS
    w1 = w1
    w2 = w2
    Workers = {w1, w2}
    Kinds = {"revoke"}
    Faults = {}
    InitKeys = 2
    NumKeys = 2
    MaxExec = 2
SYMMETRY Symmetry
INVARIANTS
    KeepsAKey
