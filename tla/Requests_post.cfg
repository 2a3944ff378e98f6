SPECIFICATION RequestsSpec
CONSTANTS
    Requests = {"r1", "r2", "r3"}
    Callers = {"r2", "w"}
    KeyOf <- MCKeyOf
    Kinds <- MCKinds
    Changes = {"pause", "resume", "on", "off", "keep"}
    Stores = {"local", "shared", "redis"}
    PauseTicks = 2
    KeyTicks = 1
    MaxOps = 2
    MaxFaults = 1
INVARIANTS
    RequestsTypeOK
    OncePerKey
    RefusedIsServed
PROPERTIES
    SavesOwnField
    PauseEnds
