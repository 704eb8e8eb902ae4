SPECIFICATION Spec
CONSTANTS
    Frames <- MCFrames
    FirstMegabyte <- MCFirstMegabyte
    FixedRanges <- MCFixedRanges
    Entries <- MCEntries
    Settings <- MCSettings
INVARIANTS
    EntriesAreDue
CHECK_DEADLOCK FALSE
