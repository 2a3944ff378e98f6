SPECIFICATION Spec
CONSTANTS
    l1 = l1
    l2 = l2
    t1 = t1
    t2 = t2
    Listeners = {l1, l2}
    Types = {t1, t2}
    MaxBlocks = 1
    StartingHeight = 0
    Faults = {"chain", "store", "crash", "handler", "halt"}
    FirstHeight = 1
    MaxHeight = 3
    MaxFaults = 2
SYMMETRY Symmetry
INVARIANTS
    TypeOK
    NoGap
    OnceUnlessLost
PROPERTIES
    HeightGrows
CHECK_DEADLOCK FALSE
