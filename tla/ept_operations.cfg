SPECIFICATION EptSpec
CONSTANTS
    F = F
    A = A
    B = B
    t0 = t0
    t1 = t1
    t2 = t2
    LargePages <- MCLargePages
    Index <- MCIndex
    FirstLargePage = F
    Tables <- MCTables
    FirstTable = t0
    HolderOf <- MCHolderOf
    Types = {"UC", "WT", "WB"}
    Uncacheable = "UC"
    TypeOf <- MCTypeOf
    Rips = {10}
    Null = Null
    HookPages <- MCHookPages
    Hooks <- MCHooks
SYMMETRY FreeBlocks
INVARIANTS
    SplitMatchesDescriptors
    LayoutsAreOwned
    HandlerPteLive
PROPERTIES
    CacheTypeKept
