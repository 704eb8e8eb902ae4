SPECIFICATION LiveSpec
CONSTANTS
    Tables <- MCTables
    Level <- MCLevel
    Slots = 2
    Reach = 32
    Junk <- MCJunk
    Layouts <- MCLayouts
    Root <- MCRoot
    LastTable <- MCLastTable
    Pages <- MCPages
    Ranges <- MCRanges
    Frames <- MCFrames
    Shared <- MCShared
    LargeFrame = 20
    MaxChanges = 2
INVARIANTS
    ProcessMemoryTypeOK
    NothingKept
    ViewsShowTheirPages
    OnlyStaleRangesStop
    AnswersWereTrue
PROPERTIES
    CallsEnd
CHECK_DEADLOCK FALSE
