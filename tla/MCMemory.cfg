CONSTANTS
    LowFrames <- MCLow
    UserFrames <- MCUser
    KernelPdpt = 1
    KernelIndices = {0}
    MaxSpaces = 2
    ProcMax = 2
    TaskMax = 2
    PagesPerTable = 9
    StackPages = 2
    Regions = {1, 2}
    ImageIndex = 3
    Bases = {0, 8}
    Images <- MCImages
    HeapStart = 8
    HeapMax = 11
    HeapGrowth = {3}
    DeviceNeighbours = {1}
    FreeLow = {3, 4, 5, 6, 7, 8, 10, 12, 15}
    FreeUser = {0, 1, 2, 3, 5, 8}
SPECIFICATION Spec
INVARIANTS CleanupNeverPanics FramesHaveOneUse KernelStackReachable
PROPERTIES FailuresLeaveNoTrace SpawnCostIsConstant
