SPECIFICATION FairSpec
CONSTANTS
    F = F
    A = A
    B = B
    t0 = t0
    t1 = t1
    t2 = t2
    LargePages <- MCLargePages
    Index <- MCIndex
    FirstLargePage = F
    Tables <- MCTables
    FirstTable = t0
    HolderOf <- MCHolderOf
    Types = {"UC", "WT", "WB"}
    Uncacheable = "UC"
    TypeOf <- MCTypeOf
    Rips = {1, 2}
    NextRip <- MCNextRip
    ReadReported = {TRUE, FALSE}
    AddrEnd = 2
    Null = Null
    HookPages <- MCHookPages
    Hooks <- TwoHooks
    Instructions <- Contending
    Diverts = FALSE
    Traced = {FALSE}
PROPERTIES
    InstructionsEnd
    ViolationsComeNearer

