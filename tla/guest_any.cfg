SPECIFICATION Spec
CONSTANTS
    F = F
    A = A
    B = B
    t0 = t0
    t1 = t1
    t2 = t2
    LargePages <- MCLargePages
    Index <- MCIndex
    FirstLargePage = F
    Tables <- MCTables
    FirstTable = t0
    HolderOf <- MCHolderOf
    Types = {"UC", "WT", "WB"}
    Uncacheable = "UC"
    TypeOf <- MCTypeOf
    Rips = {1, 2}
    NextRip <- MCNextRip
    ReadReported = {TRUE, FALSE}
    AddrEnd = 2
    Null = Null
    HookPages <- MCHookPages
    Hooks <- AnyHook
    Instructions <- AnyInstruction
    Diverts = TRUE
    Traced = {FALSE}
SYMMETRY FreeBlocks
INVARIANTS
    ShownIsAView
    RestoreHitsAHandler
PROPERTY UnhookedStable
