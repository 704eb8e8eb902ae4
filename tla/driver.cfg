SPECIFICATION LiveSpec
CONSTANTS
    Clients = {p1, p2}
    Power = power
    Unloader = unloader
    Objects = 3
    ExitSlots = 2
    RawCodes <- MCRawCodes
    Null = null
INVARIANTS
    DriverTypeOK
    HandleIsUsable
    CodeOutlivesItsCallers
    DestroyedInReverse
    LoneCallsSucceed
    RequestsReachTheirHandlers
PROPERTIES
    OnlyNewcomersAreStopped
    CallsReturn
CHECK_DEADLOCK FALSE
