CONSTANTS
    LowFrames <- MCLow
    UserFrames <- MCUser
    KernelPdpt = 1
    KernelIndices = {0}
    MaxSpaces = 2
    ProcMax = 2
    TaskMax = 2
    PagesPerTable = 9
    StackPages = 2
    Regions = {1, 2}
    ImageIndex = 3
    Bases = {0, 8}
    Images <- MCDemo
    HeapStart = 8
    HeapMax = 11
    HeapGrowth = {3}
    DeviceNeighbours = {}
    FreeLow = {3, 4, 5, 6, 8, 14}
    FreeUser = {0, 1, 2, 7}
SPECIFICATION Spec
INVARIANTS CleanupNeverPanics
