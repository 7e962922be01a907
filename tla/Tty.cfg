CONSTANTS
    COL = 2
    ROW = 2
    TAB_WIDTH = 2
    NR_CONSOLES = 2
    Procs = {p1, p2}
    NR_TTYS = 2
    TTY_BUFFER_SIZE = 2
    NBuffers = 2
    KBUF = 16
    Programs <- MCPrograms
    MaxKeys = 4
    MaxSignals = 1
SPECIFICATION Spec
INVARIANTS
    InputInOrder
    BuffersAccounted
    PrintsAsSpecified
PROPERTY ScreensApart
CHECK_DEADLOCK FALSE
