SPECIFICATION LiveSpec
CONSTANTS
    Cpus = {c1, c2}
    Buffers = {b1, b2, b3}
    MaxSteps = 4
    AddrEnd = 2
    Mapped <- MCMapped
    Null = null
    Garbage = garbage
    Zeroed = zeroed
INVARIANTS
    DeliveredIsReported
    SignalStands
    OnlyFailedInitCrashes
PROPERTIES
    LockStep
    StepsAreReleased
CHECK_DEADLOCK FALSE
