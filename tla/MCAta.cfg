SPECIFICATION Spec
CONSTANTS
    Sectors = 4
    WindowStart = 1
    WindowSectors = 2
    MaxCount = 3
    ChunkSectors = 2
    BusyAtOnce = TRUE
INVARIANTS
    ReadDeliversTheDisk
    AcknowledgedWriteIsSaved
    PagesAreSafe
