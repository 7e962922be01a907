SPECIFICATION Spec
CONSTANTS
    FRAME_SIZE = 2
    PTRS = 4
    NProcs = 3
    NPages = 5
    NFrames = 7
    MAX_HUSKS = 1
    TmpSlots = 10
    Program <- MCProgram
    Data = {"a"}
    Touched = {2, 3}
    Mmaps <- MCMmaps
    Ranges <- MCRanges
    Incs <- MCIncs
    ArgSizes = {1, 20}
    MaxCalls = 4
    MaxZombies = 2
    MaxKernelTables = 1
INVARIANTS
    AreasDisjoint
    FrameCounts
    PagesInAreas
    KernelShared
PROPERTY
    PrivateMemory
