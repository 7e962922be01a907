SPECIFICATION Spec
CONSTANTS
    FRAME_SIZE = 3
    Junk = 99
    DevLen = 37
    Volume <- MCVolume
    FileKind <- MCKind
    FileMode <- MCMode
    At <- MCAt
    Programs <- MCPrograms
    Lens = {1, 2, 4}
    Values = {30}
    MaxPos = 8
    MaxCalls = 4
INVARIANTS
    FramesCover
    OneBuffer
PROPERTIES
    BlocksInOrder
    ReadsWhatWasWritten
CHECK_DEADLOCK FALSE
