SPECIFICATION FairSpec
CONSTANTS
    l1 = l1
    l2 = l2
    t1 = t1
    Listeners = {l1, l2}
    Types = {t1}
    MaxBlocks = 1
    StartingHeight = 3
    Faults = {"chain", "store", "halt"}
    FirstHeight = 1
    MaxHeight = 5
    MaxFaults = 1
PROPERTIES
    EveryEventHandled
