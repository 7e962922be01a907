SPECIFICATION Spec
CONSTANTS
    FRAME_SIZE = 3
    Slots = 4
    WordSize = 24
    Limit = 3
    Bytes <- MCBytes
    MaxPages = 4
PROPERTY QueueSpec
