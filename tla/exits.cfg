SPECIFICATION Spec
CONSTANTS
    Bits = {0, 1}
    RipLimit = 2
    Length <- MCLength
    Leaf <- MCLeaf
    HyperSign <- MCHyperSign
    PlainMsrs <- MCPlainMsrs
    HeldMsrs <- MCHeldMsrs
    DebugCtl = {0}
    SysenterCs = {}
    Unwritten <- MCUnwritten
    Accepts <- MCAccepts
    InitialMsrs <- MCInitialMsrs
    HyperVMsrs <- MCHyperVMsrs
    Present <- MCPresent
    Xcr0Values <- MCXcr0Values
    LinearFlush <- MCLinearFlush
    PhysicalFlush <- MCPhysicalFlush
    Answers <- MCAnswers
    KernelCr3 = "kernel"
    Cr3s <- MCCr3s
    Seen <- MCSeen
    Platforms <- MCPlatforms
    Loads <- MCLoads
    Systems <- MCSystems
    SignBit = 1
INVARIANTS
    OnlyUnhandledStops
PROPERTIES
    BehavesAsTheProcessor
CHECK_DEADLOCK FALSE
