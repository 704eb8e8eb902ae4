SPECIFICATION LiveSpec
CONSTANTS
    Cpus = 3
    Concurrency = 1
    Numberings <- OneOrTwoGroups
    Clients = {c1}
    Blocks = {b1, b2, b3, b4}
    Power = power
    Unloader = unloader
    Null = null
    c1 = c1
    c2 = c2
    b1 = b1
    b2 = b2
    b3 = b3
    b4 = b4
INVARIANTS
    FlagIsComplete
    RunningDataOwned
    OnlyShutdownCrashes
PROPERTIES
    RequestsReturn
CHECK_DEADLOCK FALSE
