SPECIFICATION Spec
CONSTANTS
    NInodes = 10
    NEnts = 15
    NSupers = 3
    NFiles = 4
    NR_FILES = 2
    NAME_MAX = 2
    NMods = 1
    NUnnamed = 2
    NProcs = 2
    MaxCalls = 4
    Disk <- MCDisk
    ChrDevs <- MCChrDevs
    BlkDevs <- MCBlkDevs
    Paths <- MCPaths
    DirPaths <- MCDirPaths
    DevPaths <- MCDevPaths
    NewPaths <- MCNewPaths
    OpenFlags <- MCFlags
    MountPoint <- MCMountPoint
INVARIANTS
    CountsCover
    MountsPaired
    EntriesLead
    LookupBalanced
    ReadOnlyNoWriters
CHECK_DEADLOCK FALSE
